--------------------------- MODULE MissionRunProofs ---------------------------
(***************************************************************************)
(* Proofs about MissionRun, for any owners, humans and rivals and any      *)
(* bounds on attempts, edits, crashes and claims by others: types, what    *)
(* the controller captures, hands over and has reviewed, what a step of it *)
(* may never do, and that a run comes to its end in a bounded number of    *)
(* steps.                                                                  *)
(***************************************************************************)
EXTENDS MissionRun, TicketLifecycleProofs

-----------------------------------------------------------------------------
(* The inductive invariant: types, the state the calls and the turns       *)
(* leave, and what the two processes rely on.                              *)

\* The statuses the controller takes a ticket through.
RunStatuses == {"absent", "backlog", "ready", "in_progress", "proving", "changes_requested",
                "awaiting_approval", "done", "blocked"}
Working == {"in_progress", "proving", "awaiting_approval"}

\* RunTypeOK without the processes.
DataTypeOK ==
  /\ mission \in {"none", "draft", "planning", "executing", "awaiting_approval", "blocked"}
  /\ LET n == MaxAttempts[implement] IN
     /\ evidence \in [proof: SUBSET {"intake", "inspect"}, turned: SUBSET (1..n),
                      failed: SUBSET (1..n), reviewed: SUBSET (1..n), judged: SUBSET (1..n)]
     /\ artifact \in [attempt: 0..n, diff: 0..MaxEdits, files: 0..MaxEdits, shown: BOOLEAN]
  /\ claimBox \in BOOLEAN
  /\ box \in {"none", "announced", "lost", "known"}
  /\ agent \in {MissionAgent, CoordinatorAgent}
  /\ version \in 0..MaxEdits
  /\ coding \subseteq Turn
  /\ stale \in BOOLEAN /\ faults \in 0..MaxFaults
  /\ lapses \subseteq {"remote", "verdict", "race", "proving", "unplanned", "sentback",
                      "unreadable", "restore", "orphan"}

\* What the calls to the service change; a waiver is a review by none of its reviewers.
RunReview == [handoff: Nat, attempt: Nat,
              reviewer: Owners \cup {Verifier, Waiver, NoOne},
              outcome: {"none", "accepted", "changes_requested", "blocked"}]

TicketShape ==
  /\ plan \in [Items -> Plan] /\ status \in [Items -> RunStatuses]
  /\ auth \in [Items -> Nat] /\ granted \in [Items -> Nat]
  /\ claim \in [Items -> Owners \cup {NoOne}]
  /\ attempts \in [Items -> Seq(Attempt)] /\ requested \in [Items -> SUBSET Nat]
  /\ delegation \in [Items -> Delegation] /\ handoff \in [Items -> Handoff]
  /\ review \in [Items -> RunReview]

\* What is being worked on is claimed, in an attempt within its bound.
WorkClaimed ==
  \A i \in Items :
    /\ status[i] \in Working => claim[i] # NoOne
    /\ status[i] \in Working \cup {"changes_requested"} => Number(i) >= 1
    /\ Number(i) <= MaxAttempts[i]

\* The inspection comes first, and an implementation is planned from what is proved.
InspectionFirst ==
  /\ status[inspect] \notin {"changes_requested", "awaiting_approval"}
  /\ status[implement] # "done"
  /\ plan[inspect].role # "implementer"
  /\ status[implement] # "absent" =>
       status[inspect] \in {"absent", "done"} /\ evidence.proof # {}
  /\ "inspect" \in evidence.proof => status[inspect] # "absent"

\* A handoff of attempt n that rests on a capture of it.
Reported(n) == HandedOver(n) /\ claimBox /\ artifact.attempt = n /\ artifact.files > 0

\* An attempt is handed over before it is reviewed, and reviewed once.
ReviewOrder ==
  LET n == Number(implement) IN
  /\ handoff[implement].attempt <= n /\ review[implement].attempt <= n
  /\ review[implement].outcome = "changes_requested" =>
       review[implement].attempt \in evidence.reviewed
  /\ status[implement] \in {"in_progress", "proving"} => ReviewOf(n) = "none"
  /\ status[implement] = "in_progress" => ~HandedOver(n)
  /\ status[implement] = "proving" => ~HandedOver(n) \/ Reported(n)
  /\ status[implement] = "awaiting_approval" =>
       /\ Reported(n)
       /\ n \in evidence.judged \/ (n - 1 \in evidence.reviewed /\ SentBack(n - 1))

\* Evidence is about attempts that were made, and what one lacks is found when it is proved.
EvidenceOfAttempts ==
  LET n == Number(implement) IN
  /\ evidence.turned \cup evidence.failed \cup evidence.reviewed \cup evidence.judged \subseteq 1..n
  /\ status[implement] = "in_progress" => n \notin evidence.failed
  /\ \A t \in coding : t.attempt \in 1..n

\* The claim names no other sandbox than the mission.
BoxBound ==
  /\ claimBox => box = "known"
  /\ status[implement] = "proving" /\ box = "known" => claimBox

\* The captured files are those of the captured diff.
OneCapture == "orphan" \in lapses \/ artifact.files \in {0, artifact.diff}

\* Unless the coordinator works, or left work that it has to finish first, the session
\* has the agent of the mission.
AgentOK == agent = MissionAgent \/ "restore" \in lapses
AgentKept ==
  \/ AgentOK
  \/ status[implement] = "absent" /\ "inspect" \notin evidence.proof
  \/ status[implement] = "blocked"
  \/ status[implement] = "proving" /\ HandedOver(Number(implement))

WorldInv ==
  /\ TicketShape /\ WorkClaimed /\ InspectionFirst /\ ReviewOrder
  /\ EvidenceOfAttempts /\ BoxBound /\ OneCapture /\ AgentKept

Cause == lapses \cap (Causes \cup {"proving", "sentback"}) # {}

\* A finding is followed by a rework, and a proved inspection by its end, unless the
\* process dies first.
ReworkDue ==
  Number(implement) \in evidence.failed
  /\ status[implement] \in {"proving", "awaiting_approval"}
UnfinishedStep(r) ==
  /\ ReworkDue => "sentback" \in lapses \/ r.step = "sendback"
  /\ status[inspect] = "proving" => "proving" \in lapses \/ r.step = "finish"

\* What the run relies on where it is, by the ticket r.item and the status r.saw.
PickedSteps == {"prepare", "claim", "claiming", "bind", "backlog", "recover", "blockTicket"}
PickedStep(r) ==
  /\ r.step \in PickedSteps => r.item \in Items
  /\ r.step = "prepare" =>
       /\ r.saw \in {"ready", "in_progress", "proving", "awaiting_approval"}
       /\ r.saw = "ready" => Runnable(r.item) \/ "race" \in lapses
       /\ r.saw # "ready" => status[r.item] = r.saw
  /\ r.step = "claim" => Runnable(r.item) \/ "race" \in lapses
  /\ r.step = "claiming" => (Runnable(r.item) /\ ~stale) \/ "race" \in lapses
  /\ r.step = "bind" => status[r.item] = "in_progress"
  /\ r.step = "backlog" => status[r.item] = "ready" \/ "race" \in lapses
  /\ r.step = "recover" => status[r.item] = "proving"
  /\ r.step = "recover" /\ r.item = inspect => "proving" \in lapses
  /\ r.step \in {"block", "blockTicket", "blockMission"} => Cause \/ mission = "blocked"

CoordinatorSteps == {"bound", "looking", "again", "last", "restore", "restored"}
InspectSteps == {"inspect", "prove", "finish"}
InspectionStep(r) ==
  /\ r.step \in InspectSteps => r.item = inspect
  /\ r.step \in CoordinatorSteps => r.item \in Items
  /\ r.step \in {"inspect", "prove"} \cup CoordinatorSteps /\ r.item = inspect =>
       status[inspect] = "in_progress"
  /\ r.step \in CoordinatorSteps /\ r.item = inspect => "inspect" \notin evidence.proof
  /\ r.step = "restored" => AgentOK
  /\ r.step = "finish" => status[inspect] = "proving"
  /\ r.step = "plan" => status[inspect] = "done" /\ status[implement] = "absent"
  /\ r.step \in {"prove", "finish", "plan"} => "inspect" \in evidence.proof

CodingSteps == {"implement", "start", "coding", "attach", "coded", "proved"}
CodingStep(r) ==
  /\ r.step \in CodingSteps => r.item = implement /\ status[implement] = "in_progress"
  /\ r.step \in CodingSteps \ {"attach"} => (box = "known" => claimBox)
  /\ r.step = "attach" => box = "known"
  /\ r.step = "start" => Number(implement) \notin evidence.turned
  /\ r.step = "coded" => evidence.turned # {} \/ Cause

CaptureSteps == {"capture", "files", "sendback", "handoff"}
ReviewSteps == {"judge", "review"}
ProofStep(r) ==
  LET n == Number(implement) IN
  /\ r.step \in CaptureSteps \cup ReviewSteps \cup {"approval"} => r.item = implement
  /\ r.step \in CaptureSteps => status[implement] = "proving" /\ ~HandedOver(n)
  /\ r.step \in {"files", "handoff"} => claimBox /\ artifact.attempt = n
  /\ r.step = "files" =>
       version > 0 /\ ("orphan" \in lapses \/ (coding = {} /\ artifact.diff = version))
  /\ r.step = "handoff" => artifact.files > 0
  /\ r.step \in ReviewSteps \/ (r.step \in CoordinatorSteps /\ r.item = implement) =>
       status[implement] = "proving" /\ HandedOver(n)
  /\ r.step = "judge" => AgentOK
  /\ r.step = "approval" => status[implement] = "awaiting_approval"

RunnerOK(r) ==
  UnfinishedStep(r) /\ PickedStep(r) /\ InspectionStep(r) /\ CodingStep(r) /\ ProofStep(r)

\* What the creation of the mission relies on: an intake finds a board without tickets.
CreatorOK(r) ==
  /\ r.step = "backlog" => r.item \in Items
  /\ r.step \in {"find", "session", "create"} => r.saw \in {"open", "plan"}
  /\ r.step \in CoordinatorSteps \cup {"intake"} => r.saw = "plan"
  /\ r.saw = "plan" /\ r.step \in {"find", "session", "create", "intake"} \cup CoordinatorSteps =>
       Present = {}
  /\ r.step \in {"restored", "intake"} => AgentOK
  /\ r.step = "intake" => evidence.proof # {}

RunInv == RunTypeOK /\ WorldInv /\ RunnerOK(proc[Runner]) /\ CreatorOK(proc[Creator])

-----------------------------------------------------------------------------
(* The two tickets and the two processes.                                  *)

\* The items of the controller are two, and so are its processes.
LEMMA TwoOfEach ==
  /\ inspect \in Items /\ implement \in Items /\ inspect # implement /\ NoItem \notin Items
  /\ \A i \in Items : i = inspect \/ i = implement
  /\ Runner # Creator /\ Nobody # Runner
  /\ MaxAttempts \in [Items -> Nat] /\ MaxEdits \in Nat /\ MaxFaults \in Nat
BY RunAssumption, ConstantsAssumption

\* The type invariant is that of the data and of the processes.
LEMMA TypeSplit ==
  RunTypeOK <=> DataTypeOK /\ proc \in [{Runner, Creator} -> Process]
BY DEF RunTypeOK, DataTypeOK

\* Attempts are numbered.
LEMMA NumberType ==
  ASSUME TicketShape
  PROVE  \A i \in Items : Number(i) \in Nat /\ (Number(i) = 0 <=> attempts[i] = <<>>)
<1> SUFFICES ASSUME NEW i \in Items
             PROVE  Number(i) \in Nat /\ (Number(i) = 0 <=> attempts[i] = <<>>)
  OBVIOUS
<1>1. attempts[i] \in Seq(Attempt)
  BY DEF TicketShape
<1> QED
  BY <1>1, LenProperties, EmptySeq DEF Number

-----------------------------------------------------------------------------
(* What the calls to the service do to the tickets.                        *)

\* A ticket of which a call changes nothing that the run looks at.
Quiet(i) ==
  /\ status'[i] = status[i] /\ claim'[i] = claim[i] /\ auth'[i] = auth[i]
  /\ Number(i)' = Number(i) /\ attempts'[i] = attempts[i]
  /\ handoff'[i] = handoff[i] /\ review'[i] = review[i]

\* updateCurrentAttempt neither adds nor drops an attempt, and rewrites the last one only.
LEMMA TrackedTicket ==
  ASSUME TicketShape, NEW i \in Items, NEW to \in AttemptStatuses, NEW findings \in SUBSET Nat
  PROVE  /\ Tracked(i, to, findings) \in [Items -> Seq(Attempt)]
         /\ \A j \in Items : Len(Tracked(i, to, findings)[j]) = Number(j)
         /\ \A k \in 1..(Number(i) - 1) : Tracked(i, to, findings)[i][k] = attempts[i][k]
         /\ \A j \in Items \ {i} : Tracked(i, to, findings)[j] = attempts[j]
<1>1. CASE attempts[i] = <<>>
  BY <1>1 DEF Tracked, TicketShape, Number
<1>2. CASE attempts[i] # <<>>
  <2> DEFINE a == [Current(i) EXCEPT !.status = to,
                                     !.findings = IF findings = {} THEN @ ELSE findings]
  <2>1. attempts \in [Items -> Seq(Attempt)] /\ Current(i) \in Attempt
    BY <1>2, ElementOfSeq, EmptySeq, LenProperties DEF TicketShape, Current, Number
  <2>2. a \in Attempt
    BY <2>1 DEF Attempt
  <2>3. Tracked(i, to, findings) = WithCurrent(i, a)
    BY <1>2 DEF Tracked
  <2> HIDE DEF a
  <2>4. /\ WithCurrent(i, a) \in [Items -> Seq(Attempt)] /\ Len(WithCurrent(i, a)[i]) = Number(i)
        /\ \A k \in 1..(Number(i) - 1) : WithCurrent(i, a)[i][k] = attempts[i][k]
        /\ \A j \in Items \ {i} : WithCurrent(i, a)[j] = attempts[j]
    BY <1>2, <2>1, <2>2, WithCurrentShape
  <2>5. \A j \in Items : Len(WithCurrent(i, a)[j]) = Number(j)
    BY <2>4 DEF Number
  <2> QED
    BY <2>3, <2>4, <2>5
<1> QED
  BY <1>1, <1>2

\* A system transition of the run moves one ticket, within its attempt.
LEMMA SystemTicket ==
  ASSUME TicketShape, NEW i \in Items, NEW t, NEW to \in RunStatuses \cap AttemptStatuses,
         TransitionSystemWorkItem(i, t, to)
  PROVE  /\ TicketShape' /\ status' = [status EXCEPT ![i] = to]
         /\ UNCHANGED <<plan, auth, claim, handoff, review>>
         /\ \A j \in Items : Number(j)' = Number(j)
         /\ \A j \in Items \ {i} : Quiet(j)
<1>1. FindingsAfter(i, to) \in SUBSET Nat
  BY NumberType DEF FindingsAfter, TicketShape
<1>2. /\ attempts' \in [Items -> Seq(Attempt)]
      /\ \A j \in Items : Number(j)' = Number(j)
      /\ \A j \in Items \ {i} : attempts'[j] = attempts[j]
  BY <1>1, TrackedTicket DEF TransitionSystemWorkItem, Number
<1>3. status' \in [Items -> RunStatuses] /\ requested' \in [Items -> SUBSET Nat]
  BY <1>1 DEF TransitionSystemWorkItem, TicketShape
<1>4. /\ UNCHANGED <<plan, auth, granted, claim, delegation, handoff, review>>
      /\ status' = [status EXCEPT ![i] = to]
  BY DEF TransitionSystemWorkItem, workVars
<1> QED
  BY <1>2, <1>3, <1>4 DEF TicketShape, Quiet

\* A claim opens the next attempt of one ticket.
LEMMA ClaimTicket ==
  ASSUME TicketShape, NEW i \in Items, NEW o \in Owners, ClaimWorkItem(i, o)
  PROVE  /\ TicketShape' /\ Runnable(i) /\ status'[i] = "in_progress"
         /\ claim'[i] = o /\ o # NoOne
         /\ Number(i)' = Number(i) + 1 /\ Number(i)' <= MaxAttempts[i]
         /\ UNCHANGED <<plan, handoff, review>>
         /\ \A j \in Items \ {i} : Quiet(j)
<1> DEFINE a == [auth |-> auth[i], owner |-> o, findings |-> requested[i],
                 status |-> "in_progress", retiredBy |-> NoOne]
<1>1. a \in Attempt /\ o # NoOne
  BY ConstantsAssumption DEF TicketShape, Attempt, AttemptStatuses, TicketStatuses
<1>2. attempts' = Appended(i, a)
  BY DEF ClaimWorkItem, Appended
<1> HIDE DEF a
<1>3. /\ attempts' \in [Items -> Seq(Attempt)] /\ Number(i) \in Nat
      /\ Number(i)' = Number(i) + 1 /\ \A j \in Items \ {i} : attempts'[j] = attempts[j]
  BY <1>1, <1>2, AppendedShape DEF TicketShape, Number
<1>4. /\ status' = [status EXCEPT ![i] = "in_progress"] /\ claim' = [claim EXCEPT ![i] = o]
      /\ UNCHANGED <<plan, auth, granted, requested, delegation, handoff, review>>
      /\ Number(i) < MaxAttempts[i] /\ Runnable(i)
  BY DEF ClaimWorkItem, workVars, Runnable
<1>5. MaxAttempts[i] \in Nat
  BY TwoOfEach
<1>6. TicketShape'
  BY <1>3, <1>4 DEF TicketShape, RunStatuses
<1> QED
  BY <1>1, <1>3, <1>4, <1>5, <1>6 DEF TicketShape, Quiet, Number

\* What enters or leaves the queue moves one ticket, outside of an attempt.
QueueMove(i) ==
  /\ status[i] \in {"backlog", "ready", "changes_requested"}
  /\ status'[i] \in {"backlog", "ready"}
  /\ Number(i)' = Number(i) /\ UNCHANGED <<plan, handoff, review>>
  /\ \A j \in Items \ {i} : Quiet(j)

\* An authorization puts a ticket in the queue.
LEMMA AuthorizeTicket ==
  ASSUME TicketShape, WorkClaimed, NEW i \in Items, NEW h \in Humans, AuthorizeWorkItem(i, h)
  PROVE  TicketShape' /\ QueueMove(i)
<1>1. CASE status[i] = "changes_requested"
  <2> DEFINE a == [Current(i) EXCEPT
           !.owner = IF claim[i] = NoOne THEN @ ELSE claim[i],
           !.status = "changes_requested", !.retiredBy = h]
  <2>1. attempts[i] # <<>>
    BY <1>1, NumberType DEF WorkClaimed
  <2>2. Current(i) \in Attempt /\ attempts \in [Items -> Seq(Attempt)]
    BY <2>1, WithCurrentShape, ElementOfSeq, EmptySeq, LenProperties
    DEF TicketShape, Current, Number
  <2>3. (IF claim[i] = NoOne THEN Current(i).owner ELSE claim[i]) \in Owners
    BY <2>2 DEF Attempt, TicketShape
  <2>4. a \in Attempt
    BY <2>2, <2>3 DEF Attempt, AttemptStatuses, TicketStatuses
  <2>5. attempts' = WithCurrent(i, a) /\ claim' = [claim EXCEPT ![i] = NoOne]
    BY <1>1, <2>1 DEF AuthorizeWorkItem, RetiredHistory
  <2> HIDE DEF a
  <2>6. /\ attempts' \in [Items -> Seq(Attempt)] /\ Number(i)' = Number(i)
        /\ \A j \in Items \ {i} : attempts'[j] = attempts[j]
    BY <2>1, <2>2, <2>4, <2>5, WithCurrentShape DEF Number
  <2>7. /\ status' = [status EXCEPT ![i] = "ready"]
        /\ auth' = [auth EXCEPT ![i] = granted[i] + 1]
        /\ granted' = [granted EXCEPT ![i] = @ + 1]
        /\ UNCHANGED <<plan, requested, delegation, handoff, review>>
    BY DEF AuthorizeWorkItem, NewAuthorization, workVars
  <2> QED
    BY <1>1, <2>5, <2>6, <2>7 DEF TicketShape, RunStatuses, QueueMove, Quiet, Number
<1>2. CASE status[i] # "changes_requested"
  <2>1. /\ status' = [status EXCEPT ![i] = "ready"] /\ status[i] = "backlog"
        /\ auth' = [auth EXCEPT ![i] = granted[i] + 1]
        /\ granted' = [granted EXCEPT ![i] = @ + 1]
        /\ UNCHANGED <<plan, requested, delegation, handoff, review, attempts, claim>>
    BY <1>2 DEF AuthorizeWorkItem, NewAuthorization, workVars
  <2> QED
    BY <2>1 DEF TicketShape, RunStatuses, QueueMove, Quiet, Number
<1> QED
  BY <1>1, <1>2

\* A revocation, and the controller's move to the backlog, take a ticket out of it.
LEMMA RevokeTicket ==
  ASSUME TicketShape, NEW i \in Items,
         \/ RevokeWorkItemAuthorization(i)
         \/ status[i] = "ready" /\ TransitionWorkItem(i, "backlog")
  PROVE  TicketShape' /\ QueueMove(i)
<1>1. /\ status' = [status EXCEPT ![i] = "backlog"] /\ status[i] = "ready"
      /\ auth' \in {auth, [auth EXCEPT ![i] = 0]}
      /\ UNCHANGED <<plan, granted, claim, attempts, requested, delegation, handoff, review>>
  BY DEF RevokeWorkItemAuthorization, TransitionWorkItem, workVars
<1>2. auth' \in [Items -> Nat] /\ \A j \in Items \ {i} : auth'[j] = auth[j]
  BY <1>1 DEF TicketShape
<1> QED
  BY <1>1, <1>2 DEF TicketShape, RunStatuses, QueueMove, Quiet, Number

\* A handoff is one of the current attempt.
LEMMA HandoffTicket ==
  ASSUME TicketShape, NEW i \in Items, RecordHandoff(i, 0, TRUE)
  PROVE  /\ TicketShape' /\ handoff'[i].attempt = Number(i) /\ handoff'[i].done
         /\ UNCHANGED <<plan, status, auth, claim, review>>
         /\ \A j \in Items : Number(j)' = Number(j)
         /\ \A j \in Items \ {i} : Quiet(j)
<1> DEFINE h == [id |-> handoff[i].id + 1, attempt |-> Number(i), thread |-> 0, done |-> TRUE]
<1>1. Number(i) \in Nat /\ handoff[i] \in Handoff
  BY NumberType DEF TicketShape
<1>2. h \in Handoff /\ h.attempt = Number(i) /\ h.done
  BY <1>1 DEF Handoff
<1>3. /\ handoff' = [handoff EXCEPT ![i] = h]
      /\ UNCHANGED <<plan, status, auth, granted, claim, attempts, requested, delegation, review>>
  BY DEF RecordHandoff
<1> HIDE DEF h
<1> QED
  BY <1>2, <1>3 DEF TicketShape, Quiet, Number

\* A review is one of the current attempt and moves the ticket by its outcome.
LEMMA ReviewTicket ==
  ASSUME TicketShape, NEW i \in Items, NEW reviewer \in {Verifier, Waiver},
         NEW outcome \in {"accepted", "changes_requested", "blocked"},
         RecordReview(i, reviewer, outcome)
  PROVE  /\ TicketShape' /\ status[i] = "proving"
         /\ outcome = "accepted" => status'[i] = "awaiting_approval"
         /\ outcome # "accepted" => status'[i] = outcome
         /\ review'[i].attempt = Number(i) /\ review'[i].outcome = outcome
         /\ UNCHANGED <<plan, auth, claim, handoff>>
         /\ \A j \in Items : Number(j)' = Number(j)
         /\ \A k \in 1..(Number(i) - 1) : attempts'[i][k] = attempts[i][k]
         /\ \A j \in Items \ {i} : Quiet(j)
<1> DEFINE to == ReviewStatus(i, outcome)
           findings == IF outcome = "accepted" THEN {} ELSE {Number(i)}
           v == [handoff |-> handoff[i].id, attempt |-> Number(i),
                 reviewer |-> reviewer, outcome |-> outcome]
<1>1. Number(i) \in Nat /\ handoff[i].id \in Nat
  BY NumberType DEF TicketShape, Handoff
<1>2. status[i] = "proving"
  BY DEF RecordReview, TicketShape, RunStatuses
<1>3. /\ outcome = "accepted" => to = "awaiting_approval"
      /\ outcome # "accepted" => to = outcome
  BY <1>2 DEF ReviewStatus
<1>4. to \in RunStatuses /\ to \in AttemptStatuses /\ findings \in SUBSET Nat
  BY <1>1, <1>3 DEF RunStatuses, AttemptStatuses, TicketStatuses
<1>5. v \in RunReview /\ v.attempt = Number(i) /\ v.outcome = outcome
  BY <1>1 DEF RunReview
<1>6. /\ review' = [review EXCEPT ![i] = v] /\ status' = [status EXCEPT ![i] = to]
      /\ requested' = [requested EXCEPT ![i] = findings]
      /\ attempts' = Tracked(i, to, findings)
      /\ UNCHANGED <<plan, auth, granted, claim, delegation, handoff>>
  BY <1>2 DEF RecordReview
<1> HIDE DEF to, findings, v
<1>7. /\ attempts' \in [Items -> Seq(Attempt)] /\ \A j \in Items : Number(j)' = Number(j)
      /\ \A k \in 1..(Number(i) - 1) : attempts'[i][k] = attempts[i][k]
      /\ \A j \in Items \ {i} : attempts'[j] = attempts[j]
  BY <1>4, <1>6, TrackedTicket DEF Number
<1> QED
  BY <1>2, <1>3, <1>4, <1>5, <1>6, <1>7 DEF TicketShape, Quiet

\* The graphs of the controller are plans of its items.
LEMMA ControllerGraphs ==
  ASSUME NEW graph \in {PreflightGraph, PlannedGraph, ImplementationOnlyGraph}
  PROVE  /\ DOMAIN graph \subseteq Items /\ \A i \in DOMAIN graph : graph[i] \in Plan
         /\ inspect \in DOMAIN graph => graph[inspect].role # "implementer"
<1>1. /\ Inspection \in Plan /\ Inspection.role # "implementer"
      /\ Implementation({}) \in Plan /\ Implementation({inspect}) \in Plan
  BY TwoOfEach DEF Inspection, Implementation, Plan
<1>2. CASE graph = PreflightGraph
  BY <1>1, <1>2, TwoOfEach DEF PreflightGraph
<1>3. CASE graph = PlannedGraph
  BY <1>1, <1>3, TwoOfEach DEF PlannedGraph
<1>4. CASE graph = ImplementationOnlyGraph
  BY <1>1, <1>4, TwoOfEach DEF ImplementationOnlyGraph
<1> QED
  BY <1>2, <1>3, <1>4

\* Planning adds tickets and leaves the progress of the others alone.
LEMMA GraphTicket ==
  ASSUME TicketShape, InspectionFirst,
         NEW graph \in {PreflightGraph, PlannedGraph, ImplementationOnlyGraph},
         PersistWorkGraph(graph)
  PROVE  /\ TicketShape' /\ Present \subseteq DOMAIN graph
         /\ plan'[inspect].role # "implementer"
         /\ UNCHANGED <<auth, claim, attempts, handoff, review>>
         /\ \A i \in Items : \/ status'[i] = status[i]
                             \/ status[i] = "absent" /\ i \in DOMAIN graph
                                /\ status'[i] \in {"backlog", "ready"}
<1>1. /\ DOMAIN graph \subseteq Items /\ \A i \in DOMAIN graph : graph[i] \in Plan
      /\ inspect \in DOMAIN graph => graph[inspect].role # "implementer"
  BY ControllerGraphs
<1> DEFINE planned(i) ==
      [graph[i] EXCEPT !.checked = @ \/ plan[i].checked, !.scoped = @ \/ plan[i].scoped]
<1>2. ASSUME NEW i \in Items, i \in DOMAIN graph
      PROVE  planned(i) \in Plan /\ planned(i).role = graph[i].role
  <2>1. graph[i] \in Plan /\ plan[i] \in Plan
    BY <1>1, <1>2 DEF TicketShape
  <2>2. (graph[i].checked \/ plan[i].checked) \in BOOLEAN
    BY <2>1 DEF Plan
  <2>3. (graph[i].scoped \/ plan[i].scoped) \in BOOLEAN
    BY <2>1 DEF Plan
  <2> QED
    BY <2>1, <2>2, <2>3 DEF Plan
<1>3. plan' = [i \in Items |-> IF i \in DOMAIN graph THEN planned(i) ELSE plan[i]]
  BY DEF PersistWorkGraph
<1> HIDE DEF planned
<1>4. plan' \in [Items -> Plan] /\ plan'[inspect].role # "implementer"
  BY <1>1, <1>2, <1>3, TwoOfEach DEF TicketShape, InspectionFirst
<1>5. /\ Present \subseteq DOMAIN graph
      /\ UNCHANGED <<auth, granted, claim, attempts, requested, delegation, handoff, review>>
      /\ status' = [i \in Items |->
           IF i \notin DOMAIN graph \/ i \in Present THEN status[i]
           ELSE IF AllComplete(graph[i].dependsOn) THEN "ready" ELSE "backlog"]
  BY DEF PersistWorkGraph, workVars
<1>6. \A i \in Items : \/ status'[i] = status[i]
                       \/ status[i] = "absent" /\ i \in DOMAIN graph
                          /\ status'[i] \in {"backlog", "ready"}
  BY <1>5 DEF Present
<1>7. status' \in [Items -> RunStatuses]
  BY <1>5, <1>6 DEF TicketShape, RunStatuses
<1> QED
  BY <1>4, <1>5, <1>6, <1>7 DEF TicketShape

-----------------------------------------------------------------------------
(* What a step keeps for the process that does not take it.                *)

CreatorForward ==
  /\ evidence.proof # {} => evidence'.proof # {}
  /\ Present = {} => Present' = {} /\ (AgentOK => AgentOK')

\* The creation keeps what it relies on while the board stays empty.
LEMMA CreatorKept ==
  ASSUME CreatorForward, NEW r, CreatorOK(r)
  PROVE  CreatorOK(r)'
BY DEF CreatorForward, CreatorOK, CoordinatorSteps

\* Where the run relies on a ticket that it found, and did not claim.
Found == {"prepare", "claim", "claiming", "backlog"}

\* A ticket outside of any attempt that others move.
Stirred(i) ==
  /\ status[i] \notin Working \cup {"done"}
  /\ status'[i] \notin {"proving", "awaiting_approval", "done"}

RunnerForward(r) ==
  /\ \A i \in Items : Quiet(i) \/ Stirred(i)
  /\ (\A i \in Items : Quiet(i)) \/ r.step \notin Found \/ "race" \in lapses'
  /\ status[inspect] = "done" /\ status[implement] = "absent" => status'[implement] = "absent"
  /\ status[implement] \in Working => claimBox' = claimBox
  /\ mission = "blocked" => mission' = "blocked"
  /\ evidence'.turned = evidence.turned /\ evidence'.failed = evidence.failed
  /\ evidence'.reviewed = evidence.reviewed /\ evidence'.judged = evidence.judged
  /\ "inspect" \in evidence'.proof <=> "inspect" \in evidence.proof
  /\ artifact' = artifact
  /\ box' = "known" <=> box = "known"
  /\ version \in Nat /\ version' \in Nat /\ version' >= version
  /\ coding = {} => coding' = {} /\ version' = version
  /\ lapses \ {"restore"} \subseteq lapses'
  /\ (\E i \in Items : status[i] \in Working) /\ AgentOK => AgentOK'
  /\ stale' => stale \/ "race" \in lapses'

\* A cause stays a cause.
LEMMA CauseKept ==
  ASSUME lapses \ {"restore"} \subseteq lapses', Cause
  PROVE  Cause'
BY DEF Cause, Causes

\* The run keeps what it relies on, whatever others do.
LEMMA RunnerKept ==
  ASSUME NEW r, RunnerForward(r), RunnerOK(r)
  PROVE  RunnerOK(r)'
<1>1. UnfinishedStep(r)'
  <2>1. ReworkDue' => ReworkDue
    BY TwoOfEach DEF RunnerForward, ReworkDue, Quiet, Stirred
  <2>2. status'[inspect] = "proving" => status[inspect] = "proving"
    BY TwoOfEach DEF RunnerForward, Quiet, Stirred
  <2> QED
    BY <2>1, <2>2 DEF RunnerOK, UnfinishedStep, RunnerForward
<1>2. PickedStep(r)'
  <2>1. /\ PickedStep(r)
        /\ Cause => Cause'
        /\ "race" \in lapses => "race" \in lapses'
        /\ "proving" \in lapses => "proving" \in lapses'
    BY CauseKept DEF RunnerOK, RunnerForward
  <2>2. r.step \in PickedSteps => r.item \in Items
    BY <2>1 DEF PickedStep
  <2>3. CASE r.step \in {"prepare", "claim", "claiming", "backlog"}
    <3>1. CASE "race" \in lapses'
      <4>1. r.step = "prepare" /\ r.saw # "ready" => status'[r.item] = r.saw
        BY <2>1, <2>2, <2>3 DEF RunnerForward, Quiet, Stirred, PickedStep, PickedSteps, Working
      <4> QED
        BY <2>1, <2>2, <2>3, <3>1, <4>1 DEF PickedStep
    <3>2. CASE "race" \notin lapses'
      <4>1. Quiet(r.item) /\ (stale' => stale)
        BY <2>2, <2>3, <3>2 DEF RunnerForward, Found, PickedSteps
      <4>2. Runnable(r.item)' = Runnable(r.item) /\ status'[r.item] = status[r.item]
        BY <4>1 DEF Quiet, Runnable
      <4> QED
        BY <2>1, <2>2, <2>3, <3>2, <4>1, <4>2 DEF PickedStep
    <3> QED
      BY <3>1, <3>2
  <2>4. CASE r.step \notin {"prepare", "claim", "claiming", "backlog"}
    <3>1. r.step \in {"bind", "recover"} => status'[r.item] = status[r.item]
      BY <2>1, <2>2 DEF RunnerForward, Quiet, Stirred, PickedStep, PickedSteps, Working
    <3> QED
      BY <2>1, <2>2, <2>4, <3>1 DEF PickedStep, RunnerForward
  <2> QED
    BY <2>3, <2>4
<1>3. InspectionStep(r)'
  <2>1. /\ status[inspect] \in {"in_progress", "proving", "done"} =>
             status'[inspect] = status[inspect]
        /\ status[implement] \in Working => status'[implement] = status[implement]
    BY TwoOfEach DEF RunnerForward, Quiet, Stirred, Working
  <2>2. /\ InspectionStep(r) /\ ProofStep(r)
        /\ r.step = "restored" => AgentOK'
    <3>1. InspectionStep(r) /\ ProofStep(r)
      BY DEF RunnerOK
    <3>2. r.step = "restored" => \E i \in Items : status[i] \in Working
      BY <3>1, TwoOfEach DEF InspectionStep, ProofStep, CoordinatorSteps, Working
    <3> QED
      BY <3>1, <3>2 DEF RunnerForward, InspectionStep
  <2> QED
    BY <2>1, <2>2 DEF InspectionStep, RunnerForward
<1>4. ASSUME status[implement] \in Working
      PROVE  /\ status'[implement] = status[implement] /\ Number(implement)' = Number(implement)
             /\ claimBox' = claimBox
             /\ \A n : HandedOver(n)' = HandedOver(n)
  BY <1>4, TwoOfEach DEF RunnerForward, Quiet, Stirred, HandedOver
<1>5. CodingStep(r)'
  <2>1. /\ CodingStep(r)
        /\ Cause => Cause'
    BY CauseKept DEF RunnerOK, RunnerForward
  <2>2. CASE r.step \in CodingSteps
    <3>1. status[implement] \in Working
      BY <2>1, <2>2 DEF CodingStep, Working
    <3> QED
      BY <2>1, <2>2, <1>4, <3>1 DEF CodingStep, RunnerForward
  <2>3. CASE r.step \notin CodingSteps
    BY <2>3 DEF CodingStep, CodingSteps
  <2> QED
    BY <2>2, <2>3
<1>6. ProofStep(r)'
  <2> DEFINE here == r.step \in CaptureSteps \cup ReviewSteps \cup {"approval"}
                     \/ (r.step \in CoordinatorSteps /\ r.item = implement)
  <2>1. ProofStep(r)
    BY DEF RunnerOK
  <2>2. CASE here
    <3>1. status[implement] \in Working
      BY <2>1, <2>2 DEF ProofStep, Working
    <3>2. AgentOK => AgentOK'
      BY <3>1, TwoOfEach DEF RunnerForward
    <3> QED
      BY <2>1, <2>2, <1>4, <3>1, <3>2 DEF ProofStep, RunnerForward
  <2>3. CASE ~here
    BY <2>3 DEF ProofStep, CaptureSteps, ReviewSteps
  <2> QED
    BY <2>2, <2>3
<1> QED
  BY <1>1, <1>2, <1>3, <1>5, <1>6 DEF RunnerOK

-----------------------------------------------------------------------------
(* Which process moves.                                                    *)

\* A run that waits, is over or tidies up relies on nothing of its own.
Plain == {"idle", "opening", "pick", "tidy", "graph", "planned"}

\* A run that leaves neither a finding nor an inspection behind relies on nothing at such
\* a step, and only on a cause when it blocks the mission.
LEMMA PlainStep ==
  ASSUME NEW q, NEW r, q.step \notin {"sendback", "finish"}
  PROVE  /\ r.step \in Plain /\ UnfinishedStep(q) => RunnerOK(r)
         /\ r.step \in Plain /\ UnfinishedStep(q)' => RunnerOK(r)'
         /\ r.step = "block" /\ UnfinishedStep(q) /\ (Cause \/ mission = "blocked")
              => RunnerOK(r)
         /\ r.step = "block" /\ UnfinishedStep(q)' /\ (Cause' \/ mission' = "blocked")
              => RunnerOK(r)'
BY DEF Plain, RunnerOK, UnfinishedStep, PickedStep, PickedSteps, InspectionStep, InspectSteps,
       CoordinatorSteps, CodingStep, CodingSteps, ProofStep, CaptureSteps, ReviewSteps

\* The run moves.
LEMMA RunnerGoes ==
  ASSUME RunInv, DataTypeOK', WorldInv', CreatorForward,
         NEW r \in Process, proc' = [proc EXCEPT ![Runner] = r], RunnerOK(r)'
  PROVE  RunInv'
<1>1. /\ proc' \in [{Runner, Creator} -> Process] /\ proc'[Runner] = r
      /\ proc'[Creator] = proc[Creator]
  BY TypeSplit, TwoOfEach DEF RunInv
<1>2. RunTypeOK'
  BY <1>1 DEF RunTypeOK, DataTypeOK
<1>3. PICK c : c = proc[Creator] /\ c = proc'[Creator]
  BY <1>1
<1>4. CreatorOK(c)'
  BY <1>3, CreatorKept DEF RunInv
<1>5. CreatorOK(proc[Creator])' /\ RunnerOK(proc[Runner])'
  BY <1>1, <1>3, <1>4
<1> QED
  BY <1>2, <1>5 DEF RunInv

\* Neither of the two processes moves.
LEMMA OthersAct ==
  ASSUME RunInv, DataTypeOK', WorldInv', CreatorForward, RunnerForward(proc[Runner]),
         UNCHANGED proc
  PROVE  RunInv'
<1>1. PICK r : r = proc[Runner] /\ r = proc'[Runner]
  OBVIOUS
<1>2. RunnerForward(r) /\ RunnerOK(r)
  BY <1>1 DEF RunInv
<1>3. RunnerOK(r)'
  BY <1>2, RunnerKept
<1>4. PICK c : c = proc[Creator] /\ c = proc'[Creator]
  OBVIOUS
<1>5. CreatorOK(c)'
  BY <1>4, CreatorKept DEF RunInv
<1>6. RunTypeOK'
  BY TypeSplit DEF RunInv, RunTypeOK, DataTypeOK
<1>7. CreatorOK(proc[Creator])' /\ RunnerOK(proc[Runner])'
  BY <1>1, <1>3, <1>4, <1>5
<1> QED
  BY <1>6, <1>7 DEF RunInv

\* The creation of the mission moves.
LEMMA CreatorGoes ==
  ASSUME RunInv, DataTypeOK', WorldInv', RunnerForward(proc[Runner]),
         NEW c \in Process, proc' = [proc EXCEPT ![Creator] = c], CreatorOK(c)'
  PROVE  RunInv'
<1>1. /\ proc' \in [{Runner, Creator} -> Process] /\ proc'[Creator] = c
      /\ proc'[Runner] = proc[Runner]
  BY TypeSplit, TwoOfEach DEF RunInv
<1>2. RunTypeOK'
  BY <1>1 DEF RunTypeOK, DataTypeOK
<1>3. PICK r : r = proc[Runner] /\ r = proc'[Runner]
  BY <1>1
<1>4. RunnerForward(r) /\ RunnerOK(r)
  BY <1>3 DEF RunInv
<1>5. RunnerOK(r)'
  BY <1>4, RunnerKept
<1>6. CreatorOK(proc[Creator])' /\ RunnerOK(proc[Runner])'
  BY <1>1, <1>3, <1>5
<1> QED
  BY <1>2, <1>6 DEF RunInv

\* The point at which nothing is under way.
LEMMA IdleStep ==
  /\ Idle \in Process /\ Idle.step = "idle" /\ CreatorOK(Idle) /\ CreatorOK(Idle)'
  /\ [Idle EXCEPT !.step = "pick"] \in Process /\ [Idle EXCEPT !.step = "pick"].step = "pick"
  /\ [Idle EXCEPT !.step = "block"] \in Process /\ [Idle EXCEPT !.step = "block"].step = "block"
<1>1. Idle \in Process /\ Idle.step = "idle" /\ Idle.saw = ""
  BY DEF Idle, Process, Steps
<1>2. CreatorOK(Idle) /\ CreatorOK(Idle)'
  BY <1>1 DEF CreatorOK, CoordinatorSteps, Idle
<1> QED
  BY <1>1, <1>2 DEF Process, Steps

\* The creation ends, and a run that waits for it goes on or ends with it.
LEMMA CreationEnded ==
  ASSUME RunInv, DataTypeOK', WorldInv', RunnerForward(proc[Runner]),
         NEW ok \in BOOLEAN, CreationEnds(ok)
  PROVE  RunInv'
<1>1. CASE ~At(Runner, "opening")
  <2>1. proc' = [proc EXCEPT ![Creator] = Idle, ![Runner] = @]
    BY <1>1 DEF CreationEnds
  <2>2. proc \in [{Runner, Creator} -> Process] /\ Runner # Creator
    BY TypeSplit, TwoOfEach DEF RunInv
  <2> DEFINE f == [proc EXCEPT ![Creator] = Idle]
  <2>3. proc' = [f EXCEPT ![Runner] = f[Runner]]
    BY <2>1, <2>2
  <2>4. f \in [{Runner, Creator} -> Process]
    BY <2>2, IdleStep
  <2> HIDE DEF f
  <2>5. proc' = f
    BY <2>3, <2>4
  <2> QED
    BY <2>5, IdleStep, CreatorGoes DEF f
<1>2. CASE At(Runner, "opening")
  <2>1. PICK r \in Process : /\ r.step \in Plain
                             /\ proc' = [proc EXCEPT ![Creator] = Idle, ![Runner] = r]
    <3>1. CASE ok
      <4>1. proc' = [proc EXCEPT ![Creator] = Idle, ![Runner] = [Idle EXCEPT !.step = "pick"]]
        BY <1>2, <3>1, TwoOfEach DEF CreationEnds
      <4> QED
        BY <4>1, IdleStep DEF Plain
    <3>2. CASE ~ok
      <4>1. proc' = [proc EXCEPT ![Creator] = Idle, ![Runner] = Idle]
        BY <1>2, <3>2, TwoOfEach DEF CreationEnds
      <4> QED
        BY <4>1, IdleStep DEF Plain
    <3> QED
      BY <3>1, <3>2
  <2>2. /\ proc' \in [{Runner, Creator} -> Process] /\ proc'[Runner] = r
        /\ proc'[Creator] = Idle
    BY <2>1, IdleStep, TypeSplit, TwoOfEach DEF RunInv
  <2>3. PICK q : q = proc[Runner]
    OBVIOUS
  <2>4. RunnerForward(q) /\ RunnerOK(q) /\ q.step = "opening"
    BY <1>2, <2>3 DEF RunInv, At
  <2>5. UnfinishedStep(q)'
    BY <2>4, RunnerKept DEF RunnerOK
  <2>6. RunnerOK(r)'
    BY <2>1, <2>4, <2>5, PlainStep
  <2>7. RunTypeOK'
    BY <2>2 DEF RunTypeOK, DataTypeOK
  <2>8. CreatorOK(proc[Creator])' /\ RunnerOK(proc[Runner])'
    BY <2>2, <2>6, IdleStep
  <2> QED
    BY <2>7, <2>8 DEF RunInv
<1> QED
  BY <1>1, <1>2

-----------------------------------------------------------------------------
(* Steps in which only the processes and the status of the mission change. *)

\* What may be noted on the way: the causes of a failure, which may be forgotten.
LapsesGo ==
  /\ lapses' \subseteq lapses \cup Causes /\ lapses \ Causes \subseteq lapses'
  /\ stale' \in BOOLEAN /\ faults' = faults

MissionGoes ==
  /\ OnlyMission /\ LapsesGo
  /\ mission' \in {"none", "draft", "planning", "executing", "awaiting_approval", "blocked"}

\* A local step is one in which the mission does not change either.
LEMMA LocalMission ==
  ASSUME DataTypeOK, Local, LapsesGo
  PROVE  MissionGoes /\ mission' = mission
BY DEF DataTypeOK, Local, Store, MissionGoes, OnlyMission

\* The tickets, the evidence and the session stay as they are.
LEMMA SameWorld ==
  ASSUME DataTypeOK, WorldInv, MissionGoes
  PROVE  DataTypeOK' /\ WorldInv' /\ CreatorForward
<1>1. /\ UNCHANGED <<vars, evidence, artifact, claimBox, box, agent, version, coding>>
      /\ LapsesGo
  BY DEF MissionGoes, OnlyMission, sessionVars
<1>2. UNCHANGED <<plan, status, auth, granted, claim, attempts, requested, delegation,
                  handoff, review>>
  BY <1>1 DEF vars
<1>3. DataTypeOK'
  BY <1>1, TwoOfEach DEF DataTypeOK, LapsesGo, Causes, MissionGoes
<1>4. ("orphan" \in lapses' <=> "orphan" \in lapses) /\ AgentOK' = AgentOK
  BY <1>1 DEF LapsesGo, Causes, AgentOK
<1>5. \A i \in Items : Number(i)' = Number(i)
  BY <1>2 DEF Number
<1>6. TicketShape' /\ WorkClaimed' /\ InspectionFirst'
  BY <1>1, <1>2, <1>5 DEF WorldInv, TicketShape, WorkClaimed, InspectionFirst
<1>7. ReviewOrder' /\ EvidenceOfAttempts' /\ BoxBound' /\ OneCapture'
  BY <1>1, <1>2, <1>4, <1>5, TwoOfEach DEF WorldInv, ReviewOrder, ReviewOf, Reported, SentBack,
     HandedOver, EvidenceOfAttempts, BoxBound, OneCapture
<1>8. AgentKept'
  BY <1>1, <1>2, <1>4, <1>5, TwoOfEach DEF WorldInv, AgentKept, HandedOver
<1>9. CreatorForward
  BY <1>1, <1>2, <1>4 DEF CreatorForward, Present
<1> QED
  BY <1>3, <1>6, <1>7, <1>8, <1>9 DEF WorldInv

\* What the run leaves unfinished is the same.
LEMMA UnfinishedHere ==
  ASSUME MissionGoes, NEW q, UnfinishedStep(q)
  PROVE  UnfinishedStep(q)'
BY DEF MissionGoes, OnlyMission, LapsesGo, Causes, vars, UnfinishedStep, ReworkDue, Number

\* What the run relies on is the same, unless a cause is forgotten.
LEMMA ForwardHere ==
  ASSUME DataTypeOK, MissionGoes, lapses \subseteq lapses', stale' => stale \/ "race" \in lapses',
         mission = "blocked" => mission' = "blocked", NEW r
  PROVE  RunnerForward(r)
<1>1. \A i \in Items : Quiet(i)
  BY DEF MissionGoes, OnlyMission, vars, Quiet, Number
<1>2. AgentOK => AgentOK'
  BY DEF MissionGoes, OnlyMission, sessionVars, AgentOK
<1>3. version \in Nat
  BY TwoOfEach DEF DataTypeOK
<1> QED
  BY <1>1, <1>2, <1>3 DEF RunnerForward, MissionGoes, OnlyMission, vars, sessionVars

\* The run leaves what it works on, for good or to block it.
LEMMA RunnerLeaves ==
  ASSUME RunInv, MissionGoes, proc[Runner].step \notin {"sendback", "finish"},
         NEW r \in Process, proc' = [proc EXCEPT ![Runner] = r],
         r.step \in Plain \/ (r.step = "block" /\ (Cause' \/ mission' = "blocked"))
  PROVE  RunInv'
<1>1. DataTypeOK' /\ WorldInv' /\ CreatorForward
  BY SameWorld, TypeSplit DEF RunInv
<1>2. PICK q : q = proc[Runner]
  OBVIOUS
<1>3. UnfinishedStep(q)'
  BY <1>2, UnfinishedHere DEF RunInv, RunnerOK
<1>4. RunnerOK(r)'
  BY <1>2, <1>3, PlainStep
<1> QED
  BY <1>1, <1>4, RunnerGoes

\* The run goes to a point at which what it relies on was true before.
LEMMA RunnerStays ==
  ASSUME RunInv, MissionGoes, lapses \subseteq lapses', stale' => stale \/ "race" \in lapses',
         mission = "blocked" => mission' = "blocked",
         NEW r \in Process, proc' = [proc EXCEPT ![Runner] = r], RunnerOK(r)
  PROVE  RunInv'
<1>1. DataTypeOK' /\ WorldInv' /\ CreatorForward /\ DataTypeOK
  BY SameWorld, TypeSplit DEF RunInv
<1>2. RunnerOK(r)'
  BY <1>1, ForwardHere, RunnerKept
<1> QED
  BY <1>1, <1>2, RunnerGoes

\* The creation goes to a point at which what it relies on was true before.
LEMMA CreatorStays ==
  ASSUME RunInv, MissionGoes, lapses \subseteq lapses', stale' => stale \/ "race" \in lapses',
         mission = "blocked" => mission' = "blocked"
  PROVE  /\ \A c \in Process : proc' = [proc EXCEPT ![Creator] = c] /\ CreatorOK(c) => RunInv'
         /\ \A ok \in BOOLEAN : CreationEnds(ok) => RunInv'
<1>1. DataTypeOK' /\ WorldInv' /\ CreatorForward /\ DataTypeOK
  BY SameWorld, TypeSplit DEF RunInv
<1>2. RunnerForward(proc[Runner])
  BY <1>1, ForwardHere
<1>3. ASSUME NEW c \in Process, proc' = [proc EXCEPT ![Creator] = c], CreatorOK(c) PROVE RunInv'
  <2>1. CreatorOK(c)'
    BY <1>1, <1>3, CreatorKept
  <2> QED
    BY <1>1, <1>2, <1>3, <2>1, CreatorGoes
<1>4. ASSUME NEW ok \in BOOLEAN, CreationEnds(ok) PROVE RunInv'
  BY <1>1, <1>2, <1>4, CreationEnded
<1> QED
  BY <1>3, <1>4

\* The next point of the same work.
LEMMA GotoStep ==
  ASSUME RunTypeOK, NEW p \in {Runner, Creator}, NEW s \in Steps, Goto(p, s)
  PROVE  \E r \in Process : /\ r.step = s /\ r.item = proc[p].item
                            /\ r.saw = proc[p].saw /\ r.ok = proc[p].ok
                            /\ proc' = [proc EXCEPT ![p] = r]
<1> DEFINE r == [proc[p] EXCEPT !.step = s]
<1>1. proc[p] \in Process /\ proc \in [{Runner, Creator} -> Process]
  BY DEF RunTypeOK
<1>2. /\ r \in Process /\ r.step = s /\ r.item = proc[p].item
      /\ r.saw = proc[p].saw /\ r.ok = proc[p].ok
  BY <1>1 DEF Process
<1>3. proc' = [proc EXCEPT ![p] = r]
  BY <1>1 DEF Goto
<1> QED
  BY <1>2, <1>3

\* The end of a run, and its failure.
LEMMA EndStep ==
  /\ Ends => \E r \in Process : r.step \in Plain /\ proc' = [proc EXCEPT ![Runner] = r]
  /\ Fails => \E r \in Process : r.step = "block" /\ proc' = [proc EXCEPT ![Runner] = r]
BY IdleStep DEF Ends, Fails, Plain

\* A run that fails for a cause, or because the mission is blocked, goes to block it.
LEMMA RunnerFails ==
  ASSUME RunInv, MissionGoes, proc[Runner].step \notin {"sendback", "finish"},
         Fails, Cause' \/ mission' = "blocked"
  PROVE  RunInv'
BY EndStep, RunnerLeaves

\* A run that ends.
LEMMA RunnerEnds ==
  ASSUME RunInv, MissionGoes, proc[Runner].step \notin {"sendback", "finish"}, Ends
  PROVE  RunInv'
BY EndStep, RunnerLeaves

\* What is noted when something goes wrong.
LEMMA LapseNoted ==
  ASSUME DataTypeOK, NEW why, Lapse(why) \/ UNCHANGED historyVars
  PROVE  /\ lapses \subseteq lapses' /\ stale' = stale
         /\ why \in Causes => LapsesGo
         /\ why \in Causes /\ Lapse(why) => Cause'
         /\ UNCHANGED historyVars => LapsesGo
BY DEF Lapse, historyVars, LapsesGo, DataTypeOK, Cause, Causes

-----------------------------------------------------------------------------
(* The creation of the mission.                                            *)

\* Where the creation stands when it goes to a step.
LEMMA CreatorAt ==
  ASSUME NEW c, c.saw \in {"open", "plan"}
  PROVE  /\ c.step = "find" /\ (c.saw = "plan" => Present = {}) => CreatorOK(c)
         /\ c.step \in {"session", "create"} /\ (c.saw = "plan" => Present = {}) => CreatorOK(c)
         /\ c.step = "bound" /\ c.saw = "plan" /\ Present = {} => CreatorOK(c)
         /\ c.step \in {"tidy", "graph"} => CreatorOK(c)
BY DEF CreatorOK, CoordinatorSteps

\* A request is one for a mission without tickets when it is one to plan it.
LEMMA RequestStep ==
  ASSUME NEW kind \in {"open", "plan"}, kind = "plan" => Present = {}
  PROVE  Request(kind) \in Process /\ CreatorOK(Request(kind))
<1>1. /\ Request(kind) \in Process /\ Request(kind).step = "find"
      /\ Request(kind).saw = kind
  BY DEF Request, Idle, Process, Steps
<1> HIDE DEF Request
<1> QED
  BY <1>1, CreatorAt

\* A client asks for the mission.
LEMMA CreateMissionStep ==
  ASSUME RunInv, NEW kind \in {"open", "plan"}, CreateMission(kind)
  PROVE  RunInv'
<1>1. MissionGoes /\ mission' = mission /\ UNCHANGED historyVars
  BY LapseNoted, LocalMission, TypeSplit DEF CreateMission, RunInv
<1>2. /\ proc' = [proc EXCEPT ![Creator] = Request(kind)]
      /\ kind = "plan" => Present = {}
  BY DEF CreateMission
<1> QED
  BY <1>1, <1>2, RequestStep, CreatorStays DEF historyVars

\* The run starts, and asks for the mission unless somebody did.
LEMMA RunPrimaryMissionStep ==
  ASSUME RunInv, RunPrimaryMission
  PROVE  RunInv'
<1>1. LapsesGo
  BY TypeSplit DEF RunPrimaryMission, Forget, LapsesGo, RunInv, DataTypeOK
<1>2. MissionGoes /\ DataTypeOK' /\ WorldInv' /\ CreatorForward
  BY <1>1, LocalMission, SameWorld, TypeSplit DEF RunPrimaryMission, RunInv
<1>3. proc \in [{Runner, Creator} -> Process] /\ proc[Runner] \in Process
  BY DEF RunInv, RunTypeOK
<1> DEFINE r == [proc[Runner] EXCEPT !.step = "opening"]
<1>4. r \in Process /\ r.step = "opening"
  BY <1>3 DEF Process, Steps
<1>5. PICK c \in Process :
        /\ proc' = [proc EXCEPT ![Runner] = r, ![Creator] = c]
        /\ CreatorOK(c)
  <2>1. CASE At(Creator, "idle")
    <3>1. proc' = [proc EXCEPT ![Runner] = r, ![Creator] = Request("open")]
      BY <2>1, <1>3 DEF RunPrimaryMission
    <3> QED
      BY <3>1, RequestStep
  <2>2. CASE ~At(Creator, "idle")
    <3>1. proc' = [proc EXCEPT ![Runner] = r, ![Creator] = proc[Creator]]
      BY <2>2, <1>3, TwoOfEach DEF RunPrimaryMission
    <3> QED
      BY <3>1, <1>3 DEF RunInv
  <2> QED
    BY <2>1, <2>2
<1> HIDE DEF r
<1>6. /\ proc' \in [{Runner, Creator} -> Process] /\ proc'[Runner] = r /\ proc'[Creator] = c
  BY <1>3, <1>4, <1>5, TwoOfEach
<1>7. CreatorOK(c)'
  BY <1>2, <1>5, CreatorKept
<1>8. PICK q, s : q = proc[Runner] /\ s = r
  OBVIOUS
<1>9. UnfinishedStep(q)' /\ q.step = "idle"
  BY <1>2, <1>8, UnfinishedHere DEF RunInv, RunnerOK, RunPrimaryMission, At
<1>10. RunnerOK(s)'
  BY <1>4, <1>8, <1>9, PlainStep DEF Plain
<1>11. RunTypeOK'
  BY <1>2, <1>6 DEF RunTypeOK, DataTypeOK
<1>12. CreatorOK(proc[Creator])' /\ RunnerOK(proc[Runner])'
  BY <1>6, <1>7, <1>8, <1>10
<1> QED
  BY <1>2, <1>11, <1>12 DEF RunInv

\* The mission is looked for, and its session.
LEMMA FindMissionStep ==
  ASSUME RunInv, FindMission \/ ResolveSession
  PROVE  RunInv'
<1>1. MissionGoes /\ mission' = mission /\ UNCHANGED historyVars
  BY LapseNoted, LocalMission, TypeSplit DEF FindMission, ResolveSession, RunInv
<1>2. CASE CreationEnds(FALSE)
  BY <1>1, <1>2, CreatorStays DEF historyVars
<1>3. CASE ~CreationEnds(FALSE)
  <2>1. PICK s \in {"session", "tidy", "bound", "create"} :
          /\ Goto(Creator, s)
          /\ s = "tidy" => proc[Creator].saw = "open"
          /\ s = "bound" => proc[Creator].saw = "plan"
    BY <1>3 DEF FindMission, ResolveSession
  <2>2. s \in Steps
    BY DEF Steps
  <2>3. PICK c \in Process : /\ c.step = s /\ c.saw = proc[Creator].saw
                             /\ proc' = [proc EXCEPT ![Creator] = c]
    BY <2>1, <2>2, GotoStep DEF RunInv
  <2>4. c.saw \in {"open", "plan"} /\ (c.saw = "plan" => Present = {})
    BY <2>3 DEF RunInv, CreatorOK, FindMission, ResolveSession, At
  <2>5. CreatorOK(c)
    BY <2>1, <2>3, <2>4, CreatorAt
  <2> QED
    BY <1>1, <2>3, <2>5, CreatorStays DEF historyVars
<1> QED
  BY <1>2, <1>3

\* A draft is made, to be opened or to be planned.
LEMMA CreateDraftStep ==
  ASSUME RunInv, CreateDraft
  PROVE  RunInv'
<1>1. LapsesGo /\ UNCHANGED historyVars
  BY LapseNoted, TypeSplit DEF CreateDraft, RunInv
<1>2. MissionGoes /\ mission # "blocked"
  BY <1>1 DEF CreateDraft, MissionGoes
<1>3. proc[Creator].saw \in {"open", "plan"} /\ (proc[Creator].saw = "plan" => Present = {})
  BY DEF RunInv, CreatorOK, CreateDraft, At
<1>4. PICK s \in {"tidy", "bound"} :
        Goto(Creator, s) /\ (s = "bound" => proc[Creator].saw = "plan")
  BY <1>3 DEF CreateDraft
<1>5. s \in Steps
  BY DEF Steps
<1>6. PICK c \in Process : /\ c.step = s /\ c.saw = proc[Creator].saw
                           /\ proc' = [proc EXCEPT ![Creator] = c]
  BY <1>4, <1>5, GotoStep DEF RunInv
<1>7. CreatorOK(c)
  BY <1>3, <1>4, <1>6, CreatorAt
<1> QED
  BY <1>1, <1>2, <1>6, <1>7, CreatorStays DEF historyVars

\* The planned mission leaves its draft status.
LEMMA FinishPlanningStep ==
  ASSUME RunInv, FinishPlanning
  PROVE  RunInv'
<1>1. LapsesGo /\ UNCHANGED historyVars
  BY LapseNoted, TypeSplit DEF FinishPlanning, RunInv
<1>2. mission \in {"none", "draft", "planning", "executing", "awaiting_approval", "blocked"}
  BY TypeSplit DEF RunInv, DataTypeOK
<1>3. MissionGoes /\ (mission = "blocked" => mission' = "blocked")
  BY <1>1, <1>2 DEF FinishPlanning, MissionGoes
<1>4. CreationEnds(TRUE)
  BY DEF FinishPlanning
<1> QED
  BY <1>1, <1>3, <1>4, CreatorStays DEF historyVars

\* What is to be moved to the backlog is ready.
LEMMA EnsureWorkItemsStep ==
  ASSUME RunInv, NEW p \in {Runner, Creator}, EnsureWorkItems(p)
  PROVE  RunInv'
<1>1. MissionGoes /\ mission' = mission /\ UNCHANGED historyVars
  BY LapseNoted, LocalMission, TypeSplit DEF EnsureWorkItems, RunInv
<1>2. proc[p] \in Process /\ proc[p].step = "tidy" /\ proc \in [{Runner, Creator} -> Process]
  BY DEF RunInv, RunTypeOK, EnsureWorkItems, At
<1>3. CASE Goto(p, "graph")
  <2>1. PICK r \in Process : r.step = "graph" /\ proc' = [proc EXCEPT ![p] = r]
    BY <1>3, GotoStep DEF RunInv, Steps
  <2>2. CreatorOK(r)
    BY <2>1 DEF CreatorOK, CoordinatorSteps
  <2>3. CASE p = Runner
    BY <1>1, <1>2, <2>1, <2>3, RunnerLeaves DEF Plain
  <2>4. CASE p = Creator
    BY <1>1, <2>1, <2>2, <2>4, CreatorStays DEF historyVars
  <2> QED
    BY <2>3, <2>4
<1>4. CASE \E i \in Items : /\ Unauthorized(i)
                            /\ proc' = [proc EXCEPT ![p].step = "backlog", ![p].item = i]
  <2>1. PICK i \in Items : /\ Unauthorized(i)
                           /\ proc' = [proc EXCEPT ![p].step = "backlog", ![p].item = i]
    BY <1>4
  <2> DEFINE w == [proc[p] EXCEPT !.step = "backlog"]
             r == [w EXCEPT !.item = i]
  <2>2. w \in Process /\ w.step = "backlog"
    BY <1>2 DEF Process, Steps
  <2>3. r \in Process /\ r.step = "backlog" /\ r.item = i
    BY <2>2 DEF Process
  <2>4. proc' = [proc EXCEPT ![p] = r]
    BY <1>2, <2>1
  <2> HIDE DEF r, w
  <2>5. CASE p = Runner
    <3>1. UnfinishedStep(r)
      BY <1>2, <2>3, <2>5 DEF RunInv, RunnerOK, UnfinishedStep
    <3>2. RunnerOK(r)
      BY <2>1, <2>3, <3>1 DEF RunnerOK, PickedStep, PickedSteps, InspectionStep, InspectSteps,
         CoordinatorSteps, CodingStep, CodingSteps, ProofStep, CaptureSteps, ReviewSteps,
         Unauthorized
    <3> QED
      BY <1>1, <2>3, <2>4, <2>5, <3>2, RunnerStays DEF historyVars
  <2>6. CASE p = Creator
    <3>1. CreatorOK(r)
      BY <2>3 DEF CreatorOK, CoordinatorSteps
    <3> QED
      BY <1>1, <2>3, <2>4, <2>6, <3>1, CreatorStays DEF historyVars
  <2> QED
    BY <2>5, <2>6
<1>5. CASE Done(p)
  <2>1. CASE p = Runner
    BY <1>1, <1>2, <1>5, <2>1, TwoOfEach, RunnerEnds DEF Done
  <2>2. CASE p = Creator
    BY <1>1, <1>5, <2>2, CreatorStays DEF Done, historyVars
  <2> QED
    BY <2>1, <2>2
<1> QED
  BY <1>3, <1>4, <1>5 DEF EnsureWorkItems

-----------------------------------------------------------------------------
(* The steps of the run that change no ticket.                             *)

\* What the run relies on says nothing of most steps: where it stands after a local step.
LEMMA RunnerAt ==
  ASSUME NEW r, UnfinishedStep(r)
  PROVE  /\ r.step = "prepare" /\ r.item \in Items
            /\ r.saw \in {"ready", "in_progress", "proving", "awaiting_approval"}
            /\ status[r.item] = r.saw /\ (r.saw = "ready" => Runnable(r.item)) => RunnerOK(r)
         /\ r.step = "claim" /\ r.item \in Items /\ (Runnable(r.item) \/ "race" \in lapses)
              => RunnerOK(r)
         /\ r.step = "bind" /\ r.item \in Items /\ status[r.item] = "in_progress"
              => RunnerOK(r)
         /\ r.step = "recover" /\ r.item \in Items /\ status[r.item] = "proving"
            /\ (r.item = inspect => "proving" \in lapses) => RunnerOK(r)
         /\ r.step = "approval" /\ r.item = implement
            /\ status[implement] = "awaiting_approval" => RunnerOK(r)
         /\ r.step \in {"blockMission", "blockTicket"} /\ r.item \in Items \cup {NoItem}
            /\ (r.step = "blockTicket" => r.item \in Items)
            /\ (Cause \/ mission = "blocked") => RunnerOK(r)
BY DEF RunnerOK, UnfinishedStep, PickedStep, PickedSteps, InspectionStep, InspectSteps,
   CoordinatorSteps, CodingStep, CodingSteps, ProofStep, CaptureSteps, ReviewSteps

\* The coordinator's turn: its steps rely on the same.
LEMMA CoordinatorAt ==
  ASSUME NEW q, NEW r, q.step \in CoordinatorSteps, r.step \in CoordinatorSteps,
         r.step = "restored" => AgentOK
  PROVE  /\ RunnerOK(q) /\ r.item = q.item => RunnerOK(r)
         /\ CreatorOK(q) /\ r.saw = q.saw => CreatorOK(r)
<1>1. ASSUME RunnerOK(q), r.item = q.item PROVE RunnerOK(r)
  BY <1>1 DEF RunnerOK, UnfinishedStep, PickedStep, PickedSteps, InspectionStep,
     InspectSteps, CoordinatorSteps, CodingStep, CodingSteps, ProofStep, CaptureSteps,
     ReviewSteps
<1>2. ASSUME CreatorOK(q), r.saw = q.saw PROVE CreatorOK(r)
  BY <1>2 DEF CreatorOK, CoordinatorSteps
<1> QED
  BY <1>1, <1>2

\* An active ticket is picked, or one that may be claimed.
LEMMA NextQueueWorkItemStep ==
  ASSUME RunInv, NextQueueWorkItem
  PROVE  RunInv'
<1>1. MissionGoes /\ mission' = mission /\ UNCHANGED historyVars
  BY LapseNoted, LocalMission, TypeSplit DEF NextQueueWorkItem, RunInv
<1>2. proc[Runner].step = "pick" /\ UnfinishedStep(proc[Runner])
  BY DEF RunInv, RunnerOK, NextQueueWorkItem, At
<1>3. CASE Ends
  BY <1>1, <1>2, <1>3, RunnerEnds
<1>4. CASE ~Ends
  <2>1. PICK i \in Items :
          /\ Active(i) \/ Runnable(i)
          /\ proc' = [proc EXCEPT ![Runner] =
                        [Idle EXCEPT !.step = "prepare", !.item = i, !.saw = status[i]]]
    BY <1>4 DEF NextQueueWorkItem
  <2>2. /\ status[i] \in {"ready", "in_progress", "proving", "awaiting_approval"}
        /\ status[i] = "ready" => Runnable(i)
    <3>1. status[i] \in RunStatuses
      BY DEF RunInv, WorldInv, TicketShape
    <3> QED
      BY <2>1, <3>1 DEF Active, Runnable, RunStatuses
  <2> DEFINE v == [Idle EXCEPT !.step = "prepare"]
             w == [v EXCEPT !.item = i]
             r == [w EXCEPT !.saw = status[i]]
  <2>3. v \in Process /\ v.step = "prepare"
    BY IdleStep DEF Process, Steps
  <2>4. w \in Process /\ w.step = "prepare" /\ w.item = i
    BY <2>3 DEF Process
  <2>5. r \in Process /\ r.step = "prepare" /\ r.item = i /\ r.saw = status[i]
    BY <2>2, <2>4 DEF Process
  <2>6. proc' = [proc EXCEPT ![Runner] = r]
    BY <2>1
  <2> HIDE DEF v, w, r
  <2>7. UnfinishedStep(r)
    BY <1>2, <2>5 DEF UnfinishedStep
  <2>8. RunnerOK(r)
    BY <2>2, <2>5, <2>7, RunnerAt
  <2> QED
    BY <1>1, <2>5, <2>6, <2>8, RunnerStays DEF historyVars
<1> QED
  BY <1>3, <1>4

\* The mission is prepared before the work goes on.
LEMMA PrepareMissionStep ==
  ASSUME RunInv, PrepareMissionForExecution
  PROVE  RunInv'
<1>1. LapsesGo /\ UNCHANGED historyVars
  BY LapseNoted, TypeSplit DEF PrepareMissionForExecution, RunInv
<1>2. MissionGoes /\ mission # "blocked"
  BY <1>1 DEF PrepareMissionForExecution, MissionGoes, Prepared
<1>3. DataTypeOK' /\ WorldInv' /\ CreatorForward /\ RunnerForward(proc[Runner])
  BY <1>1, <1>2, SameWorld, ForwardHere, TypeSplit DEF RunInv, historyVars
<1> QED
  BY <1>3, OthersAct DEF PrepareMissionForExecution

\* The run turns to what the ticket needs.
LEMMA DispatchStep ==
  ASSUME RunInv, Dispatch
  PROVE  RunInv'
<1>1. MissionGoes /\ mission' = mission /\ UNCHANGED historyVars
  BY LapseNoted, LocalMission, TypeSplit DEF Dispatch, RunInv
<1>2. proc[Runner].step = "prepare" /\ UnfinishedStep(proc[Runner]) /\ PickedStep(proc[Runner])
  BY DEF RunInv, RunnerOK, Dispatch, At
<1>3. CASE mission = "blocked"
  BY <1>1, <1>2, <1>3, RunnerFails DEF Dispatch
<1>4. CASE mission # "blocked"
  <2>1. PICK i \in Items : i = proc[Runner].item
    BY <1>2 DEF PickedStep, PickedSteps
  <2>2. PICK saw \in {"ready", "in_progress", "proving", "awaiting_approval"} :
          /\ saw = proc[Runner].saw
          /\ saw = "ready" => Runnable(i) \/ "race" \in lapses
          /\ saw # "ready" => status[i] = saw
    BY <1>2, <2>1 DEF PickedStep
  <2>3. PICK s \in {"recover", "approval", "claim", "bind"} :
          /\ Goto(Runner, s)
          /\ s = "recover" <=> saw = "proving"
          /\ s = "approval" <=> saw = "awaiting_approval"
          /\ s = "claim" <=> saw = "ready"
          /\ s = "bind" <=> saw = "in_progress"
    BY <1>4, <2>2 DEF Dispatch
  <2>4. PICK r \in Process : /\ r.step = s /\ r.item = i
                             /\ proc' = [proc EXCEPT ![Runner] = r]
    BY <2>1, <2>3, GotoStep DEF RunInv, Steps
  <2>5. UnfinishedStep(r)
    BY <1>2, <2>4 DEF UnfinishedStep
  <2>6. /\ s = "recover" /\ i = inspect => "proving" \in lapses
        /\ s = "approval" => i = implement
    BY <1>2, <2>2, <2>3, TwoOfEach DEF UnfinishedStep, RunInv, WorldInv, InspectionFirst
  <2>7. RunnerOK(r)
    BY <2>2, <2>3, <2>4, <2>5, <2>6, RunnerAt
  <2> QED
    BY <1>1, <2>4, <2>7, RunnerStays DEF historyVars
<1> QED
  BY <1>3, <1>4

\* The revision is read under which the ticket is claimed.
LEMMA ClaimForExecutionStep ==
  ASSUME RunInv, ClaimForExecution
  PROVE  RunInv'
<1>1. LapsesGo /\ stale' = FALSE /\ lapses' = lapses
  BY TypeSplit DEF ClaimForExecution, LapsesGo, RunInv, DataTypeOK
<1>2. MissionGoes /\ mission' = mission
  BY <1>1, LocalMission, TypeSplit DEF ClaimForExecution, RunInv
<1>3. proc[Runner].step = "claim" /\ RunnerOK(proc[Runner])
  BY DEF RunInv, ClaimForExecution, At
<1>4. PICK r \in Process : /\ r.step = "claiming" /\ r.item = proc[Runner].item
                           /\ proc' = [proc EXCEPT ![Runner] = r]
  BY GotoStep DEF RunInv, ClaimForExecution, Steps
<1>5. DataTypeOK' /\ WorldInv' /\ CreatorForward /\ RunnerForward(proc[Runner])
  BY <1>1, <1>2, SameWorld, ForwardHere, TypeSplit DEF RunInv
<1>6. PICK q : q = proc[Runner]
  OBVIOUS
<1>7. RunnerOK(q)'
  BY <1>3, <1>5, <1>6, RunnerKept
<1>8. RunnerOK(r)'
  BY <1>1, <1>3, <1>4, <1>6, <1>7 DEF RunnerOK, UnfinishedStep, PickedStep, PickedSteps,
     InspectionStep, InspectSteps, CoordinatorSteps, CodingStep, CodingSteps, ProofStep,
     CaptureSteps, ReviewSteps
<1> QED
  BY <1>4, <1>5, <1>8, RunnerGoes

\* A coordinator's turn ends or is repeated.
LEMMA CoordinatorTurnStep ==
  ASSUME RunInv, NEW p \in {Runner, Creator}, CoordinatorTurn(p)
  PROVE  RunInv'
<1>1. MissionGoes /\ mission' = mission /\ UNCHANGED historyVars
  BY LapseNoted, LocalMission, TypeSplit DEF CoordinatorTurn, RunInv
<1>2. proc[p].step \in CoordinatorSteps
  BY DEF CoordinatorTurn, At, CoordinatorSteps
<1>3. PICK e \in TurnEvents, right \in BOOLEAN :
        LET ok == right /\ Verifiable(p, e) IN
        IF AskedAgain(p, e) # "none" THEN Goto(p, AskedAgain(p, e))
        ELSE proc' = [proc EXCEPT ![p].step = AfterTurn(ok), ![p].ok = ok]
  BY DEF CoordinatorTurn
<1>4. PICK r \in Process : /\ r.step \in {"again", "last", "restore"}
                           /\ r.item = proc[p].item /\ r.saw = proc[p].saw
                           /\ proc' = [proc EXCEPT ![p] = r]
  <2>1. CASE AskedAgain(p, e) # "none"
    <3>1. AskedAgain(p, e) \in {"again", "last"}
      BY <2>1 DEF AskedAgain
    <3>2. Goto(p, AskedAgain(p, e))
      BY <1>3, <2>1
    <3> QED
      BY <3>1, <3>2, GotoStep DEF RunInv, Steps
  <2>2. CASE AskedAgain(p, e) = "none"
    <3>1. PICK ok \in BOOLEAN : ok = (right /\ Verifiable(p, e))
      BY DEF Verifiable
    <3>2. proc' = [proc EXCEPT ![p].step = "restore", ![p].ok = ok]
      BY <1>3, <2>2, <3>1 DEF AfterTurn
    <3> DEFINE w == [proc[p] EXCEPT !.step = "restore"]
               r == [w EXCEPT !.ok = ok]
    <3>3. proc[p] \in Process /\ proc \in [{Runner, Creator} -> Process]
      BY DEF RunInv, RunTypeOK
    <3>4. /\ w \in Process /\ w.step = "restore"
          /\ w.item = proc[p].item /\ w.saw = proc[p].saw
      BY <3>3 DEF Process, Steps
    <3>5. /\ r \in Process /\ r.step = "restore"
          /\ r.item = proc[p].item /\ r.saw = proc[p].saw
      BY <3>4 DEF Process
    <3>6. proc' = [proc EXCEPT ![p] = r]
      BY <3>2, <3>3
    <3> QED
      BY <3>5, <3>6
  <2> QED
    BY <2>1, <2>2
<1>5. r.step \in CoordinatorSteps /\ r.step # "restored"
  BY <1>4 DEF CoordinatorSteps
<1>6. CASE p = Runner
  <2>1. RunnerOK(r)
    BY <1>2, <1>4, <1>5, <1>6, CoordinatorAt DEF RunInv
  <2> QED
    BY <1>1, <1>4, <1>6, <2>1, RunnerStays DEF historyVars
<1>7. CASE p = Creator
  <2>1. CreatorOK(r)
    BY <1>2, <1>4, <1>5, <1>7, CoordinatorAt DEF RunInv
  <2> QED
    BY <1>1, <1>4, <1>7, <2>1, CreatorStays DEF historyVars
<1> QED
  BY <1>6, <1>7

\* An inspection is made unless it is proved, and a turn unless it completed.
LEMMA ExecuteStep ==
  ASSUME RunInv, ExecuteRepositoryInspection \/ ExecuteImplementation
  PROVE  RunInv'
<1>1. MissionGoes /\ mission' = mission /\ UNCHANGED historyVars
  BY LapseNoted, LocalMission, TypeSplit
  DEF ExecuteRepositoryInspection, ExecuteImplementation, RunInv
<1>2. RunnerOK(proc[Runner]) /\ InspectionFirst
  BY DEF RunInv, WorldInv
<1>3. CASE ExecuteRepositoryInspection
  <2>1. proc[Runner].step = "inspect"
    BY <1>3 DEF ExecuteRepositoryInspection, At
  <2>2. PICK s \in {"prove", "bound"} :
          Goto(Runner, s) /\ (s = "prove" <=> "inspect" \in evidence.proof)
    BY <1>3 DEF ExecuteRepositoryInspection
  <2>3. PICK r \in Process : /\ r.step = s /\ r.item = proc[Runner].item
                             /\ proc' = [proc EXCEPT ![Runner] = r]
    BY <2>2, GotoStep DEF RunInv, Steps
  <2>4. RunnerOK(r)
    BY <1>2, <2>1, <2>2, <2>3, TwoOfEach DEF RunnerOK, UnfinishedStep, PickedStep,
       PickedSteps, InspectionStep, InspectSteps, CoordinatorSteps, CodingStep,
       CodingSteps, ProofStep, CaptureSteps, ReviewSteps
  <2> QED
    BY <1>1, <2>3, <2>4, RunnerStays DEF historyVars
<1>4. CASE ExecuteImplementation
  <2>1. proc[Runner].step = "implement"
    BY <1>4 DEF ExecuteImplementation, At
  <2>2. RepositoryProved /\ status[implement] = "in_progress"
    BY <1>2, <2>1 DEF RunnerOK, CodingStep, CodingSteps, InspectionFirst, RepositoryProved
  <2>3. PICK s \in {"proved", "start"} :
          Goto(Runner, s) /\ (s = "proved" <=> Number(implement) \in evidence.turned)
    BY <1>4, <2>2 DEF ExecuteImplementation, TurnCompleted
  <2>4. PICK r \in Process : /\ r.step = s /\ r.item = proc[Runner].item
                             /\ proc' = [proc EXCEPT ![Runner] = r]
    BY <2>3, GotoStep DEF RunInv, Steps
  <2>5. RunnerOK(r)
    BY <1>2, <2>1, <2>3, <2>4, TwoOfEach DEF RunnerOK, UnfinishedStep, PickedStep,
       PickedSteps, InspectionStep, InspectSteps, CoordinatorSteps, CodingStep,
       CodingSteps, ProofStep, CaptureSteps, ReviewSteps
  <2> QED
    BY <1>1, <2>4, <2>5, RunnerStays DEF historyVars
<1> QED
  BY <1>3, <1>4

\* Some turn of the ticket completed, or something went wrong.
LEMMA RequirePassedTurnStep ==
  ASSUME RunInv, RequirePassedTurn
  PROVE  RunInv'
<1>1. MissionGoes /\ mission' = mission /\ UNCHANGED historyVars
  BY LapseNoted, LocalMission, TypeSplit DEF RequirePassedTurn, RunInv
<1>2. RunnerOK(proc[Runner]) /\ proc[Runner].step = "coded"
  BY DEF RunInv, RequirePassedTurn, At
<1>3. CASE evidence.turned # {}
  <2>1. Goto(Runner, "proved")
    BY <1>3 DEF RequirePassedTurn
  <2>2. PICK r \in Process : /\ r.step = "proved" /\ r.item = proc[Runner].item
                             /\ proc' = [proc EXCEPT ![Runner] = r]
    BY <2>1, GotoStep DEF RunInv, Steps
  <2>3. RunnerOK(r)
    BY <1>2, <2>2, TwoOfEach DEF RunnerOK, UnfinishedStep, PickedStep, PickedSteps,
       InspectionStep, InspectSteps, CoordinatorSteps, CodingStep, CodingSteps, ProofStep,
       CaptureSteps, ReviewSteps
  <2> QED
    BY <1>1, <2>2, <2>3, RunnerStays DEF historyVars
<1>4. CASE evidence.turned = {}
  <2>1. Fails /\ Cause
    BY <1>2, <1>4 DEF RequirePassedTurn, RunnerOK, CodingStep
  <2>2. Cause'
    BY <1>1, <2>1, CauseKept DEF historyVars
  <2> QED
    BY <1>1, <1>2, <2>1, <2>2, RunnerFails
<1> QED
  BY <1>3, <1>4

\* The review is resumed, or the capture made again.
LEMMA RecoverCheckpointStep ==
  ASSUME RunInv, RecoverCheckpoint
  PROVE  RunInv'
<1>1. MissionGoes /\ mission' = mission /\ UNCHANGED historyVars
  BY LapseNoted, LocalMission, TypeSplit DEF RecoverCheckpoint, RunInv
<1>2. RunnerOK(proc[Runner]) /\ proc[Runner].step = "recover" /\ ReviewOrder
  BY DEF RunInv, WorldInv, RecoverCheckpoint, At
<1>3. CASE Item(Runner) = inspect
  <2>1. Fails /\ Cause
    BY <1>2, <1>3 DEF RecoverCheckpoint, RunnerOK, PickedStep, Item, Cause
  <2>2. Cause'
    BY <1>1, <2>1, CauseKept DEF historyVars
  <2> QED
    BY <1>1, <1>2, <2>1, <2>2, RunnerFails
<1>4. CASE Item(Runner) # inspect
  <2>1. proc[Runner].item = implement /\ status[implement] = "proving"
    BY <1>2, <1>4, TwoOfEach DEF RunnerOK, PickedStep, PickedSteps, Item
  <2>2. ReviewOf(Number(implement)) = "none"
    BY <1>2, <2>1 DEF ReviewOrder
  <2>3. UnfinishedStep(proc[Runner])
    BY <1>2 DEF RunnerOK
  <2>4. CASE HandedOver(Number(implement))
    <3>1. proc' = [proc EXCEPT ![Runner].step = "review", ![Runner].saw = "resumed",
                               ![Runner].ok = TRUE]
      BY <1>4, <2>2, <2>4 DEF RecoverCheckpoint
    <3> DEFINE v == [proc[Runner] EXCEPT !.step = "review"]
               w == [v EXCEPT !.saw = "resumed"]
               r == [w EXCEPT !.ok = TRUE]
    <3>2. proc \in [{Runner, Creator} -> Process]
      BY DEF RunInv, RunTypeOK
    <3>3. v \in Process /\ v.step = "review" /\ v.item = implement
      BY <2>1, <3>2 DEF Process, Steps
    <3>4. w \in Process /\ w.step = "review" /\ w.item = implement
      BY <3>3 DEF Process
    <3>5. r \in Process /\ r.step = "review" /\ r.item = implement
      BY <3>4 DEF Process
    <3>6. proc' = [proc EXCEPT ![Runner] = r]
      BY <3>1, <3>2
    <3> HIDE DEF v, w, r
    <3>7. RunnerOK(r)
      BY <1>2, <2>1, <2>3, <2>4, <3>5 DEF RunnerOK, UnfinishedStep, PickedStep,
         PickedSteps, InspectionStep, InspectSteps, CoordinatorSteps, CodingStep,
         CodingSteps, ProofStep, CaptureSteps, ReviewSteps
    <3> QED
      BY <1>1, <3>5, <3>6, <3>7, RunnerStays DEF historyVars
  <2>5. CASE ~HandedOver(Number(implement))
    <3>1. Goto(Runner, "capture")
      BY <1>4, <2>2, <2>5 DEF RecoverCheckpoint
    <3>2. PICK r \in Process : /\ r.step = "capture" /\ r.item = proc[Runner].item
                               /\ proc' = [proc EXCEPT ![Runner] = r]
      BY <3>1, GotoStep DEF RunInv, Steps
    <3>3. RunnerOK(r)
      BY <1>2, <2>1, <2>3, <2>5, <3>2 DEF RunnerOK, UnfinishedStep, PickedStep,
         PickedSteps, InspectionStep, InspectSteps, CoordinatorSteps, CodingStep,
         CodingSteps, ProofStep, CaptureSteps, ReviewSteps
    <3> QED
      BY <1>1, <3>2, <3>3, RunnerStays DEF historyVars
  <2> QED
    BY <2>4, <2>5
<1> QED
  BY <1>3, <1>4

\* A review is begun, or fails the run for the diff that cannot be read.
LEMMA GetReviewContextStep ==
  ASSUME RunInv, GetReviewContext
  PROVE  RunInv'
<1>1. RunnerOK(proc[Runner]) /\ proc[Runner].step = "review" /\ DataTypeOK
  BY TypeSplit DEF RunInv, GetReviewContext, At, Unreviewable
<1>2. Local
  BY DEF GetReviewContext
<1>3. CASE Unreviewable("review")
  <2>1. Fails /\ Lapse("unreadable")
    BY <1>3 DEF Unreviewable
  <2>2. LapsesGo /\ Cause'
    BY <1>1, <2>1, LapseNoted DEF Causes
  <2> QED
    BY <1>1, <1>2, <2>1, <2>2, LocalMission, RunnerFails
<1>4. CASE ~Unreviewable("review")
  <2>1. Goto(Runner, "bound") /\ UNCHANGED historyVars
    BY <1>4 DEF GetReviewContext
  <2>2. MissionGoes /\ mission' = mission
    BY <1>1, <1>2, <2>1, LapseNoted, LocalMission
  <2>3. PICK r \in Process : /\ r.step = "bound" /\ r.item = proc[Runner].item
                             /\ proc' = [proc EXCEPT ![Runner] = r]
    BY <2>1, GotoStep DEF RunInv, Steps
  <2>4. RunnerOK(r)
    BY <1>1, <2>3, TwoOfEach DEF RunnerOK, UnfinishedStep, PickedStep, PickedSteps,
       InspectionStep, InspectSteps, CoordinatorSteps, CodingStep, CodingSteps, ProofStep,
       CaptureSteps, ReviewSteps
  <2> QED
    BY <2>1, <2>2, <2>3, <2>4, RunnerStays DEF historyVars
<1> QED
  BY <1>3, <1>4

\* Active work is blocked before the mission.
LEMMA BlockActiveWorkStep ==
  ASSUME RunInv, BlockActiveWork
  PROVE  RunInv'
<1>1. MissionGoes /\ mission' = mission /\ UNCHANGED historyVars
  BY LapseNoted, LocalMission, TypeSplit DEF BlockActiveWork, RunInv
<1>2. /\ RunnerOK(proc[Runner]) /\ proc[Runner].step = "block"
      /\ proc \in [{Runner, Creator} -> Process]
  BY DEF RunInv, RunTypeOK, BlockActiveWork, At
<1>3. PICK r \in Process : /\ r.step \in {"blockMission", "blockTicket"}
                           /\ r.step = "blockTicket" => r.item \in Items
                           /\ proc' = [proc EXCEPT ![Runner] = r]
  <2>1. CASE Goto(Runner, "blockMission")
    BY <2>1, GotoStep DEF RunInv, Steps
  <2>2. CASE ~Goto(Runner, "blockMission")
    <3>1. PICK i \in Items :
            proc' = [proc EXCEPT ![Runner].step = "blockTicket", ![Runner].item = i]
      BY <2>2 DEF BlockActiveWork
    <3> DEFINE w == [proc[Runner] EXCEPT !.step = "blockTicket"]
               r == [w EXCEPT !.item = i]
    <3>2. w \in Process /\ w.step = "blockTicket"
      BY <1>2 DEF Process, Steps
    <3>3. r \in Process /\ r.step = "blockTicket" /\ r.item = i
      BY <3>2 DEF Process
    <3>4. proc' = [proc EXCEPT ![Runner] = r]
      BY <1>2, <3>1
    <3> QED
      BY <3>3, <3>4
  <2> QED
    BY <2>1, <2>2
<1>4. (Cause \/ mission = "blocked") /\ UnfinishedStep(proc[Runner])
  BY <1>2 DEF RunnerOK, PickedStep
<1>5. UnfinishedStep(r) /\ r.item \in Items \cup {NoItem}
  BY <1>2, <1>3, <1>4 DEF UnfinishedStep, Process
<1>6. RunnerOK(r)
  BY <1>3, <1>4, <1>5, RunnerAt
<1> QED
  BY <1>1, <1>3, <1>6, RunnerStays DEF historyVars

\* An inspection that failed blocks the mission, and ends what asked for it.
LEMMA InspectionFailedStep ==
  ASSUME RunInv, NEW p \in {Runner, Creator}, InspectionFailed(p)
  PROVE  RunInv'
<1>1. /\ mission' = "blocked" /\ OnlyMission /\ Broken(p) /\ Lapse("remote")
      /\ proc[p].step = "restored"
  BY DEF InspectionFailed, RemoteFailure, At
<1>2. LapsesGo /\ lapses \subseteq lapses' /\ stale' = stale
  BY <1>1, LapseNoted, TypeSplit DEF Causes, RunInv
<1>3. MissionGoes
  BY <1>1, <1>2 DEF MissionGoes
<1>4. CASE p = Runner
  BY <1>1, <1>3, <1>4, TwoOfEach, RunnerFails DEF Broken
<1>5. CASE p = Creator
  BY <1>1, <1>2, <1>3, <1>5, CreatorStays DEF Broken
<1> QED
  BY <1>4, <1>5

\* What awaits approval is approvable, unless the process died over a finding.
LEMMA EnsureApprovalStep ==
  ASSUME RunInv, EnsureApproval
  PROVE  RunInv'
<1>1. /\ RunnerOK(proc[Runner]) /\ proc[Runner].step = "approval" /\ OnlyMission
      /\ DataTypeOK /\ WorldInv
  BY TypeSplit DEF RunInv, EnsureApproval, At
<1>2. CASE mission' = "awaiting_approval" /\ Ends /\ UNCHANGED historyVars
  <2>1. MissionGoes
    BY <1>1, <1>2, LapseNoted DEF MissionGoes
  <2> QED
    BY <1>1, <1>2, <2>1, RunnerEnds
<1>3. CASE RemoteFailure(Runner) /\ mission' = mission
  <2>1. LapsesGo /\ Cause' /\ Fails
    BY <1>1, <1>3, LapseNoted, TwoOfEach DEF RemoteFailure, Broken, Causes
  <2>2. MissionGoes
    BY <1>1, <1>3, <2>1 DEF MissionGoes, DataTypeOK
  <2> QED
    BY <1>1, <2>1, <2>2, RunnerFails
<1>4. CASE ~Approvable /\ Fails /\ UNCHANGED <<mission, historyVars>>
  <2>1. MissionGoes
    BY <1>1, <1>4, LapseNoted DEF MissionGoes, DataTypeOK
  <2>2. status[implement] = "awaiting_approval"
    BY <1>1 DEF RunnerOK, ProofStep
  <2>3. ArtifactProved /\ RepositoryProved
    BY <1>1, <2>2 DEF WorldInv, ReviewOrder, InspectionFirst, Reported, ArtifactProved,
       RepositoryProved
  <2>4. "sentback" \in lapses
    BY <1>1, <1>4, <2>2, <2>3 DEF Approvable, RunnerOK, UnfinishedStep, ReworkDue
  <2>5. Cause'
    BY <1>4, <2>4 DEF Cause, historyVars
  <2> QED
    BY <1>1, <1>4, <2>1, <2>5, RunnerFails
<1> QED
  BY <1>2, <1>3, <1>4 DEF EnsureApproval

\* The mission is blocked, and the causes are forgotten.
LEMMA BlockMissionStep ==
  ASSUME RunInv, BlockMission
  PROVE  RunInv'
<1>1. LapsesGo
  BY TypeSplit DEF BlockMission, Forget, LapsesGo, RunInv, DataTypeOK
<1>2. MissionGoes /\ Ends /\ proc[Runner].step = "blockMission"
  BY <1>1 DEF BlockMission, MissionGoes, At
<1> QED
  BY <1>2, RunnerEnds

-----------------------------------------------------------------------------
(* The session: its agent, its sandbox and its turns.                      *)

\* The tickets stay as they are.
LEMMA TicketsStay ==
  ASSUME WorldInv, UNCHANGED vars
  PROVE  /\ TicketShape' /\ WorkClaimed' /\ Number(implement)' = Number(implement)
         /\ attempts' = attempts /\ \A i \in Items : Quiet(i)
         /\ \A n : HandedOver(n)' = HandedOver(n) /\ ReviewOf(n)' = ReviewOf(n)
         /\ Present' = Present /\ UNCHANGED <<plan, status, handoff, review>>
<1>1. UNCHANGED <<plan, status, auth, granted, claim, attempts, requested, delegation,
                  handoff, review>>
  BY DEF vars
<1>2. \A i \in Items : Number(i)' = Number(i)
  BY <1>1 DEF Number
<1> QED
  BY <1>1, <1>2, TwoOfEach DEF WorldInv, TicketShape, WorkClaimed, Quiet, HandedOver, ReviewOf,
     Present

\* What a change of the session has to keep.
LEMMA SessionWorld ==
  ASSUME WorldInv, UNCHANGED <<vars, evidence, artifact>>, BoxBound', AgentKept',
         status[implement] \in {"proving", "awaiting_approval"} /\ claimBox => claimBox',
         \A t \in coding' : t.attempt \in 1..Number(implement),
         "orphan" \in lapses => "orphan" \in lapses'
  PROVE  WorldInv'
<1>1. /\ TicketShape' /\ WorkClaimed' /\ Number(implement)' = Number(implement)
      /\ \A n : HandedOver(n)' = HandedOver(n) /\ ReviewOf(n)' = ReviewOf(n)
      /\ UNCHANGED <<plan, status, attempts, handoff, review, evidence, artifact>>
  BY TicketsStay
<1>2. InspectionFirst'
  BY <1>1 DEF WorldInv, InspectionFirst
<1>3. ReviewOrder'
  BY <1>1 DEF WorldInv, ReviewOrder, Reported, SentBack
<1>4. EvidenceOfAttempts' /\ OneCapture'
  BY <1>1 DEF WorldInv, EvidenceOfAttempts, OneCapture
<1> QED
  BY <1>1, <1>2, <1>3, <1>4 DEF WorldInv

\* What a step of the run that changes the session keeps for the creation.
LEMMA SessionCreator ==
  ASSUME WorldInv, UNCHANGED <<vars, evidence>>,
         Present = {} /\ AgentOK => AgentOK'
  PROVE  CreatorForward
BY TicketsStay DEF CreatorForward

\* What a step of others that changes the session keeps for the run.
LEMMA SessionForward ==
  ASSUME DataTypeOK, DataTypeOK', WorldInv,
         UNCHANGED <<vars, mission, evidence, artifact, claimBox, stale>>,
         box' = "known" <=> box = "known", version' >= version,
         coding = {} => coding' = {} /\ version' = version,
         lapses \ {"restore"} \subseteq lapses',
         (\E i \in Items : status[i] \in Working) /\ AgentOK => AgentOK',
         NEW r
  PROVE  RunnerForward(r)
<1>1. version \in Nat /\ version' \in Nat
  BY TwoOfEach DEF DataTypeOK
<1>2. \A i \in Items : Quiet(i)
  BY TicketsStay
<1> QED
  BY <1>1, <1>2 DEF RunnerForward, vars

\* The claim is bound to the session and to what is known of its sandbox.
LEMMA BindExecutionStep ==
  ASSUME RunInv, BindExecution
  PROVE  RunInv'
<1>1. /\ RunnerOK(proc[Runner]) /\ proc[Runner].step = "bind" /\ DataTypeOK /\ WorldInv
      /\ UNCHANGED <<vars, mission, evidence, artifact, box, agent, version, coding>>
  BY TypeSplit DEF RunInv, BindExecution, At, sessionVars
<1>2. PICK i \in Items : i = proc[Runner].item /\ status[i] = "in_progress"
  BY <1>1 DEF RunnerOK, PickedStep, PickedSteps
<1>3. CASE RemoteFailure(Runner) /\ UNCHANGED claimBox
  <2>1. LapsesGo /\ Cause' /\ Fails
    BY <1>1, <1>3, LapseNoted, TwoOfEach DEF RemoteFailure, Broken, Causes
  <2>2. MissionGoes
    BY <1>1, <1>3, <2>1 DEF MissionGoes, DataTypeOK, OnlyMission, sessionVars
  <2> QED
    BY <1>1, <2>1, <2>2, RunnerFails
<1>4. CASE ~(RemoteFailure(Runner) /\ UNCHANGED claimBox)
  <2>1. /\ UNCHANGED historyVars
        /\ claimBox' = IF i = implement THEN box = "known" ELSE claimBox
        /\ Goto(Runner, IF i = inspect THEN "inspect" ELSE "implement")
    BY <1>2, <1>4 DEF BindExecution, Bound, Item
  <2>2. DataTypeOK'
    BY <1>1, <2>1 DEF DataTypeOK, historyVars
  <2>3. /\ UNCHANGED <<status, lapses, stale>> /\ AgentOK' = AgentOK
        /\ Number(implement)' = Number(implement)
        /\ \A n : HandedOver(n)' = HandedOver(n)
    BY <1>1, <2>1, TicketsStay DEF historyVars, AgentOK
  <2>4. BoxBound' /\ AgentKept'
    BY <1>1, <1>2, <2>1, <2>3 DEF WorldInv, BoxBound, AgentKept
  <2>5. WorldInv'
    BY <1>1, <1>2, <2>1, <2>3, <2>4, SessionWorld DEF WorldInv, EvidenceOfAttempts
  <2>6. CreatorForward
    BY <1>1, <2>3, SessionCreator
  <2>7. PICK s \in {"inspect", "implement"} :
          Goto(Runner, s) /\ (s = "inspect" <=> i = inspect)
    BY <2>1
  <2>8. PICK r \in Process : /\ r.step = s /\ r.item = i
                             /\ proc' = [proc EXCEPT ![Runner] = r]
    BY <1>2, <2>7, GotoStep DEF RunInv, Steps
  <2>9. UnfinishedStep(r)'
    BY <1>1, <2>3, <2>8 DEF RunnerOK, UnfinishedStep, ReworkDue
  <2>10. RunnerOK(r)'
    BY <1>1, <1>2, <2>1, <2>3, <2>7, <2>8, <2>9, TwoOfEach DEF RunnerOK, UnfinishedStep,
       PickedStep, PickedSteps, InspectionStep, InspectSteps, CoordinatorSteps, CodingStep,
       CodingSteps, ProofStep, CaptureSteps, ReviewSteps
  <2> QED
    BY <2>2, <2>5, <2>6, <2>8, <2>10, RunnerGoes
<1> QED
  BY <1>3, <1>4

\* The session may have the agent of the coordinator while the coordinator works, or to
\* finish its work.
LEMMA BoundAgentStep ==
  ASSUME RunInv, NEW p \in {Runner, Creator}, BoundAgent(p)
  PROVE  RunInv'
<1>1. /\ RunnerOK(proc[Runner]) /\ CreatorOK(proc[Creator]) /\ proc[p].step = "bound"
      /\ DataTypeOK /\ WorldInv
      /\ UNCHANGED <<vars, mission, evidence, artifact, claimBox, box, version, coding, historyVars>>
      /\ agent' \in {MissionAgent, CoordinatorAgent}
  BY TypeSplit DEF RunInv, BoundAgent, At, Store, UpdateSessionAgent, DataTypeOK
<1>2. DataTypeOK'
  BY <1>1 DEF DataTypeOK, historyVars
<1>3. PICK r \in Process : /\ r.step \in {"looking", "restore"}
                           /\ r.item = proc[p].item /\ r.saw = proc[p].saw
                           /\ proc' = [proc EXCEPT ![p] = r]
  <2>1. CASE Goto(p, "looking")
    BY <2>1, GotoStep DEF RunInv, Steps
  <2>2. CASE ~Goto(p, "looking")
    <3> DEFINE w == [proc[p] EXCEPT !.step = "restore"]
               r == [w EXCEPT !.ok = FALSE]
    <3>1. proc[p] \in Process /\ proc \in [{Runner, Creator} -> Process]
      BY DEF RunInv, RunTypeOK
    <3>2. /\ w \in Process /\ w.step = "restore"
          /\ w.item = proc[p].item /\ w.saw = proc[p].saw
      BY <3>1 DEF Process, Steps
    <3>3. /\ r \in Process /\ r.step = "restore"
          /\ r.item = proc[p].item /\ r.saw = proc[p].saw
      BY <3>2 DEF Process
    <3>4. proc' = [proc EXCEPT ![p].step = "restore", ![p].ok = FALSE]
      BY <2>2 DEF BoundAgent
    <3>5. proc' = [proc EXCEPT ![p] = r]
      BY <3>1, <3>4
    <3> QED
      BY <3>3, <3>5
  <2> QED
    BY <2>1, <2>2
<1>4. /\ UNCHANGED <<status, lapses, stale>>
      /\ Number(implement)' = Number(implement)
      /\ \A n : HandedOver(n)' = HandedOver(n)
  BY <1>1, TicketsStay DEF historyVars
<1>5. r.step \in CoordinatorSteps /\ r.step # "restored" /\ proc[p].step \in CoordinatorSteps
  BY <1>1, <1>3 DEF CoordinatorSteps
<1>6. BoxBound'
  BY <1>1, <1>4 DEF WorldInv, BoxBound
<1>7. CASE p = Runner
  <2>1. \/ status[implement] = "proving" /\ HandedOver(Number(implement))
        \/ /\ status[inspect] = "in_progress" /\ status[implement] = "absent"
           /\ "inspect" \notin evidence.proof
    BY <1>1, <1>5, <1>7, TwoOfEach DEF RunnerOK, InspectionStep, ProofStep, WorldInv,
       InspectionFirst
  <2>2. AgentKept' /\ Present # {}
    BY <1>1, <1>4, <2>1, TwoOfEach DEF AgentKept, Present
  <2>3. WorldInv' /\ CreatorForward
    BY <1>1, <1>4, <1>6, <2>2, SessionWorld, SessionCreator DEF WorldInv, EvidenceOfAttempts
  <2>4. UnfinishedStep(r)'
    BY <1>1, <1>3, <1>4, <1>7 DEF RunnerOK, UnfinishedStep, ReworkDue
  <2>5. RunnerOK(r)'
    BY <1>1, <1>3, <1>4, <1>5, <1>7, <2>4, TwoOfEach DEF RunnerOK, UnfinishedStep,
       PickedStep, PickedSteps, InspectionStep, InspectSteps, CoordinatorSteps, CodingStep,
       CodingSteps, ProofStep, CaptureSteps, ReviewSteps
  <2> QED
    BY <1>2, <1>3, <1>7, <2>3, <2>5, RunnerGoes
<1>8. CASE p = Creator
  <2>1. Present = {}
    BY <1>1, <1>5, <1>8 DEF CreatorOK
  <2>2. /\ status[implement] = "absent" /\ status[inspect] = "absent"
        /\ "inspect" \notin evidence.proof /\ \A i \in Items : status[i] \notin Working
    BY <1>1, <2>1, TwoOfEach DEF Present, WorldInv, InspectionFirst, Working
  <2>3. AgentKept'
    BY <1>1, <1>4, <2>2 DEF AgentKept
  <2>4. WorldInv'
    BY <1>1, <1>4, <1>6, <2>3, SessionWorld DEF WorldInv, EvidenceOfAttempts
  <2>5. RunnerForward(proc[Runner])
    <3>1. version \in Nat
      BY <1>1, TwoOfEach DEF DataTypeOK
    <3> QED
      BY <1>1, <1>2, <1>4, <2>2, <3>1, SessionForward DEF historyVars
  <2>6. CreatorOK(r) /\ Present' = Present
    BY <1>1, <1>3, <1>5, <1>8, CoordinatorAt, TicketsStay
  <2>7. CreatorOK(r)'
    BY <1>3, <2>6 DEF CreatorOK, CoordinatorSteps
  <2> QED
    BY <1>2, <1>3, <1>8, <2>4, <2>5, <2>7, CreatorGoes
<1> QED
  BY <1>7, <1>8

\* Once it is restored, or known not to be, the coordinator's turn is over.
LEMMA RestoreAgentStep ==
  ASSUME RunInv, NEW p \in {Runner, Creator}, RestoreAgent(p)
  PROVE  RunInv'
<1>1. /\ RunnerOK(proc[Runner]) /\ CreatorOK(proc[Creator]) /\ proc[p].step = "restore"
      /\ DataTypeOK /\ WorldInv
      /\ UNCHANGED <<vars, mission, evidence, artifact, claimBox, box, version, coding>>
  BY TypeSplit DEF RunInv, RestoreAgent, At, Store
<1>2. /\ AgentOK' /\ agent' \in {MissionAgent, CoordinatorAgent}
      /\ lapses \ {"restore"} \subseteq lapses' /\ lapses' \subseteq lapses \cup {"restore"}
      /\ UNCHANGED <<stale, faults>>
  BY <1>1 DEF RestoreAgent, UpdateSessionAgent, Forget, Lapse, AgentOK, DataTypeOK
<1>3. DataTypeOK'
  BY <1>1, <1>2 DEF DataTypeOK
<1>4. PICK r \in Process : /\ r.step = "restored"
                           /\ r.item = proc[p].item /\ r.saw = proc[p].saw
                           /\ proc' = [proc EXCEPT ![p] = r]
  <2>1. CASE Goto(p, "restored")
    BY <2>1, GotoStep DEF RunInv, Steps
  <2>2. CASE ~Goto(p, "restored")
    <3> DEFINE w == [proc[p] EXCEPT !.step = "restored"]
               r == [w EXCEPT !.ok = FALSE]
    <3>1. proc[p] \in Process /\ proc \in [{Runner, Creator} -> Process]
      BY DEF RunInv, RunTypeOK
    <3>2. /\ w \in Process /\ w.step = "restored"
          /\ w.item = proc[p].item /\ w.saw = proc[p].saw
      BY <3>1 DEF Process, Steps
    <3>3. /\ r \in Process /\ r.step = "restored"
          /\ r.item = proc[p].item /\ r.saw = proc[p].saw
      BY <3>2 DEF Process
    <3>4. proc' = [proc EXCEPT ![p].step = "restored", ![p].ok = FALSE]
      BY <2>2 DEF RestoreAgent
    <3>5. proc' = [proc EXCEPT ![p] = r]
      BY <3>1, <3>4
    <3> QED
      BY <3>3, <3>5
  <2> QED
    BY <2>1, <2>2
<1>5. /\ UNCHANGED status
      /\ Number(implement)' = Number(implement)
      /\ \A n : HandedOver(n)' = HandedOver(n)
  BY <1>1, TicketsStay
<1>6. BoxBound' /\ AgentKept'
  BY <1>1, <1>2, <1>5 DEF WorldInv, BoxBound, AgentKept
<1>7. WorldInv' /\ CreatorForward
  BY <1>1, <1>2, <1>5, <1>6, SessionWorld, SessionCreator DEF WorldInv, EvidenceOfAttempts
<1>8. CASE p = Runner
  <2>1. UnfinishedStep(r)'
    BY <1>1, <1>2, <1>4, <1>5, <1>8 DEF RunnerOK, UnfinishedStep, ReworkDue
  <2>2. RunnerOK(r)'
    BY <1>1, <1>2, <1>4, <1>5, <1>8, <2>1, TwoOfEach DEF RunnerOK, UnfinishedStep,
       PickedStep, PickedSteps, InspectionStep, InspectSteps, CoordinatorSteps, CodingStep,
       CodingSteps, ProofStep, CaptureSteps, ReviewSteps
  <2> QED
    BY <1>3, <1>4, <1>7, <1>8, <2>2, RunnerGoes
<1>9. CASE p = Creator
  <2>1. RunnerForward(proc[Runner])
    <3>1. version \in Nat
      BY <1>1, TwoOfEach DEF DataTypeOK
    <3> QED
      BY <1>1, <1>2, <1>3, <3>1, SessionForward
  <2>2. CreatorOK(r)'
    BY <1>1, <1>2, <1>4, <1>9, TicketsStay DEF CreatorOK, CoordinatorSteps
  <2> QED
    BY <1>3, <1>4, <1>7, <1>9, <2>1, <2>2, CreatorGoes
<1> QED
  BY <1>8, <1>9

\* A turn is one for the current attempt.
LEMMA StartTurnStep ==
  ASSUME RunInv, StartTurn
  PROVE  RunInv'
<1>1. /\ RunnerOK(proc[Runner]) /\ proc[Runner].step = "start" /\ DataTypeOK /\ WorldInv
      /\ UNCHANGED <<vars, mission, evidence, artifact, claimBox, box, agent, version>>
  BY TypeSplit DEF RunInv, StartTurn, At, Store
<1>2. CASE RemoteFailure(Runner) /\ UNCHANGED coding
  <2>1. LapsesGo /\ Cause' /\ Fails
    BY <1>1, <1>2, LapseNoted, TwoOfEach DEF RemoteFailure, Broken, Causes
  <2>2. MissionGoes
    BY <1>1, <1>2, <2>1 DEF MissionGoes, DataTypeOK, OnlyMission, sessionVars
  <2> QED
    BY <1>1, <2>1, <2>2, RunnerFails
<1>3. CASE ~(RemoteFailure(Runner) /\ UNCHANGED coding)
  <2> DEFINE t == [attempt |-> Number(implement), by |-> Runner, able |-> agent = MissionAgent]
  <2>1. coding' = coding \cup {t} /\ Goto(Runner, "coding") /\ UNCHANGED historyVars
    BY <1>3 DEF StartTurn
  <2>2. /\ status[implement] = "in_progress" /\ Number(implement) \in Nat
        /\ Number(implement) \in 1..Number(implement)
    BY <1>1, NumberType, TwoOfEach DEF RunnerOK, CodingStep, CodingSteps, WorldInv, WorkClaimed,
       Working
  <2>3. t \in Turn /\ t.attempt = Number(implement)
    BY <2>2 DEF Turn
  <2> HIDE DEF t
  <2>4. DataTypeOK'
    BY <1>1, <2>1, <2>3 DEF DataTypeOK, historyVars
  <2>5. /\ UNCHANGED <<status, lapses, stale>> /\ AgentOK' = AgentOK
        /\ Number(implement)' = Number(implement)
        /\ \A n : HandedOver(n)' = HandedOver(n)
    BY <1>1, <2>1, TicketsStay DEF historyVars, AgentOK
  <2>6. BoxBound' /\ AgentKept'
    BY <1>1, <2>5 DEF WorldInv, BoxBound, AgentKept
  <2>7. \A u \in coding' : u.attempt \in 1..Number(implement)
    BY <1>1, <2>1, <2>2, <2>3 DEF WorldInv, EvidenceOfAttempts
  <2>8. WorldInv' /\ CreatorForward
    BY <1>1, <2>5, <2>6, <2>7, SessionWorld, SessionCreator
  <2>9. PICK r \in Process : /\ r.step = "coding" /\ r.item = proc[Runner].item
                             /\ proc' = [proc EXCEPT ![Runner] = r]
    BY <2>1, GotoStep DEF RunInv, Steps
  <2>10. UnfinishedStep(r)'
    BY <1>1, <2>5, <2>9 DEF RunnerOK, UnfinishedStep, ReworkDue
  <2>11. RunnerOK(r)'
    BY <1>1, <2>5, <2>9, <2>10, TwoOfEach DEF RunnerOK, UnfinishedStep, PickedStep,
       PickedSteps, InspectionStep, InspectSteps, CoordinatorSteps, CodingStep,
       CodingSteps, ProofStep, CaptureSteps, ReviewSteps
  <2> QED
    BY <2>4, <2>8, <2>9, <2>11, RunnerGoes
<1> QED
  BY <1>2, <1>3

\* What TrueForge does of its own moves neither process.
LEMMA TurnWorksStep ==
  ASSUME RunInv, NEW t \in coding, MakeSandbox(t) \/ Edit(t) \/ OrphanEnds(t)
  PROVE  RunInv'
<1>1. /\ DataTypeOK /\ WorldInv
      /\ UNCHANGED <<vars, mission, evidence, artifact, claimBox, agent, proc, historyVars>>
      /\ box' = "known" <=> box = "known"
      /\ box' \in {"none", "announced", "lost", "known"}
  BY TypeSplit DEF RunInv, MakeSandbox, Edit, OrphanEnds, Store, DataTypeOK
<1>2. coding' \subseteq coding
  BY DEF MakeSandbox, Edit, OrphanEnds
<1>3. /\ version \in Nat /\ version' \in 0..MaxEdits /\ version' >= version
      /\ coding = {} => coding' = {} /\ version' = version
  <2>1. version \in 0..MaxEdits /\ MaxEdits \in Nat
    BY <1>1, TwoOfEach DEF DataTypeOK
  <2> QED
    BY <2>1 DEF MakeSandbox, Edit, OrphanEnds
<1>4. DataTypeOK'
  BY <1>1, <1>2, <1>3 DEF DataTypeOK, historyVars
<1>5. /\ UNCHANGED <<status, lapses, stale>> /\ AgentOK' = AgentOK
      /\ Number(implement)' = Number(implement)
      /\ \A n : HandedOver(n)' = HandedOver(n)
  BY <1>1, TicketsStay DEF historyVars, AgentOK
<1>6. BoxBound' /\ AgentKept'
  BY <1>1, <1>5 DEF WorldInv, BoxBound, AgentKept
<1>7. WorldInv' /\ CreatorForward
  BY <1>1, <1>2, <1>5, <1>6, SessionWorld, SessionCreator DEF WorldInv, EvidenceOfAttempts
<1>8. RunnerForward(proc[Runner])
  BY <1>1, <1>3, <1>4, <1>5, SessionForward
<1> QED
  BY <1>1, <1>4, <1>7, <1>8, OthersAct

\* The mission and then the claim are bound to the announced sandbox.
LEMMA AttachStep ==
  ASSUME RunInv, AttachSandbox \/ AttachExecution
  PROVE  RunInv'
<1>1. /\ RunnerOK(proc[Runner]) /\ proc[Runner].step \in {"coding", "attach"}
      /\ DataTypeOK /\ WorldInv
      /\ UNCHANGED <<vars, mission, evidence, artifact, agent, version, coding, historyVars>>
  BY TypeSplit DEF RunInv, AttachSandbox, AttachExecution, At, Store, sessionVars
<1>2. status[implement] = "in_progress" /\ proc[Runner].item = implement
  BY <1>1 DEF RunnerOK, CodingStep, CodingSteps
<1>3. /\ box' = "known"
      /\ \/ Goto(Runner, "attach") /\ claimBox' = claimBox
         \/ Goto(Runner, "coding") /\ claimBox' = TRUE
  BY <1>1 DEF AttachSandbox, AttachExecution, Store, sessionVars, RunnerOK, CodingStep, At
<1>4. DataTypeOK'
  BY <1>1, <1>3 DEF DataTypeOK, historyVars
<1>5. /\ UNCHANGED <<status, lapses, stale>> /\ AgentOK' = AgentOK
      /\ Number(implement)' = Number(implement)
      /\ \A n : HandedOver(n)' = HandedOver(n)
  BY <1>1, TicketsStay DEF historyVars, AgentOK
<1>6. BoxBound' /\ AgentKept'
  BY <1>1, <1>2, <1>3, <1>5 DEF WorldInv, BoxBound, AgentKept
<1>7. WorldInv' /\ CreatorForward
  BY <1>1, <1>2, <1>5, <1>6, SessionWorld, SessionCreator DEF WorldInv, EvidenceOfAttempts
<1>8. PICK s \in {"attach", "coding"} : Goto(Runner, s) /\ (s = "coding" => claimBox')
  BY <1>3
<1>9. PICK r \in Process : /\ r.step = s /\ r.item = implement
                           /\ proc' = [proc EXCEPT ![Runner] = r]
  BY <1>2, <1>8, GotoStep DEF RunInv, Steps
<1>10. UnfinishedStep(r)'
  BY <1>1, <1>5, <1>9 DEF RunnerOK, UnfinishedStep, ReworkDue
<1>11. RunnerOK(r)'
  BY <1>2, <1>3, <1>5, <1>8, <1>9, <1>10, TwoOfEach DEF RunnerOK, UnfinishedStep,
     PickedStep, PickedSteps, InspectionStep, InspectSteps, CoordinatorSteps, CodingStep,
     CodingSteps, ProofStep, CaptureSteps, ReviewSteps
<1> QED
  BY <1>4, <1>7, <1>9, <1>11, RunnerGoes

\* The run loses its turn: what it announced is lost, and it may still edit.
LEMMA OrphanedTurns ==
  ASSUME DataTypeOK, WorldInv, Orphaned
  PROVE  /\ coding' \subseteq Turn
         /\ \A t \in coding' : t.attempt \in 1..Number(implement) /\ t.by = Nobody
<1>1. ASSUME NEW t \in coding
      PROVE  /\ [t EXCEPT !.by = Nobody] \in Turn /\ [t EXCEPT !.by = Nobody].by = Nobody
             /\ [t EXCEPT !.by = Nobody].attempt \in 1..Number(implement)
  <2>1. t \in Turn /\ t.attempt \in 1..Number(implement)
    BY DEF DataTypeOK, WorldInv, EvidenceOfAttempts
  <2> QED
    BY <2>1 DEF Turn
<1> QED
  BY <1>1 DEF Orphaned

\* A stream that breaks off, as if the turn had ended or not, is a cause.
LEMMA StreamBreaksStep ==
  ASSUME RunInv, StreamBreaks
  PROVE  RunInv'
<1>1. /\ RunnerOK(proc[Runner]) /\ proc[Runner].step = "coding" /\ DataTypeOK /\ WorldInv
      /\ UNCHANGED <<vars, mission, evidence, artifact, claimBox, agent, version>>
      /\ Orphaned /\ Lapse("remote")
  BY TypeSplit DEF RunInv, StreamBreaks, At, Store
<1>2. LapsesGo /\ Cause' /\ lapses \subseteq lapses' /\ stale' = stale
  BY <1>1, LapseNoted DEF Causes
<1>3. /\ box' \in {"none", "announced", "lost", "known"} /\ (box' = "known" <=> box = "known")
  BY <1>1 DEF StreamBreaks, SandboxAfterLoss, DataTypeOK
<1>4. /\ coding' \subseteq Turn /\ \A t \in coding' : t.attempt \in 1..Number(implement)
  BY <1>1, OrphanedTurns
<1>5. DataTypeOK'
  BY <1>1, <1>2, <1>3, <1>4 DEF DataTypeOK, LapsesGo, Causes
<1>6. /\ UNCHANGED status /\ (AgentOK => AgentOK')
      /\ Number(implement)' = Number(implement)
      /\ \A n : HandedOver(n)' = HandedOver(n)
  BY <1>1, <1>2, TicketsStay DEF AgentOK
<1>7. BoxBound' /\ AgentKept'
  BY <1>1, <1>3, <1>6 DEF WorldInv, BoxBound, AgentKept
<1>8. WorldInv' /\ CreatorForward
  BY <1>1, <1>2, <1>4, <1>6, <1>7, SessionWorld, SessionCreator
<1>9. PICK q : q = proc[Runner]
  OBVIOUS
<1>10. UnfinishedStep(q)'
  BY <1>1, <1>2, <1>6, <1>9 DEF RunnerOK, UnfinishedStep, ReworkDue
<1>11. CASE Fails
  <2>1. PICK r \in Process : r.step = "block" /\ proc' = [proc EXCEPT ![Runner] = r]
    BY <1>11, EndStep
  <2>2. RunnerOK(r)'
    BY <1>1, <1>2, <1>9, <1>10, <2>1, PlainStep
  <2> QED
    BY <1>5, <1>8, <2>1, <2>2, RunnerGoes
<1>12. CASE Goto(Runner, "coded")
  <2>1. PICK r \in Process : /\ r.step = "coded" /\ r.item = q.item
                             /\ proc' = [proc EXCEPT ![Runner] = r]
    BY <1>9, <1>12, GotoStep DEF RunInv, Steps
  <2>2. UnfinishedStep(r)'
    BY <1>1, <1>9, <1>10, <2>1 DEF UnfinishedStep
  <2>3. RunnerOK(r)'
    BY <1>1, <1>2, <1>3, <1>6, <1>9, <2>1, <2>2, TwoOfEach DEF RunnerOK, UnfinishedStep,
       PickedStep, PickedSteps, InspectionStep, InspectSteps, CoordinatorSteps, CodingStep,
       CodingSteps, ProofStep, CaptureSteps, ReviewSteps
  <2> QED
    BY <1>5, <1>8, <2>1, <2>3, RunnerGoes
<1> QED
  BY <1>11, <1>12 DEF StreamBreaks

\* What a crash interrupts and leaves unfinished is noted, and the processes are gone.
LEMMA CrashStep ==
  ASSUME RunInv, Crash
  PROVE  RunInv'
<1>1. /\ RunnerOK(proc[Runner]) /\ DataTypeOK /\ WorldInv
      /\ UNCHANGED <<vars, mission, evidence, artifact, claimBox, agent, version>>
      /\ Orphaned /\ lapses' = lapses \cup Unfinished /\ stale' = FALSE
      /\ proc' = [p \in {Runner, Creator} |-> Idle]
  BY TypeSplit DEF RunInv, Crash, Store
<1>2. faults' \in 0..MaxFaults
  <2>1. faults \in 0..MaxFaults /\ MaxFaults \in Nat
    BY <1>1, TwoOfEach DEF DataTypeOK
  <2> QED
    BY <2>1 DEF Crash
<1>3. /\ box' \in {"none", "announced", "lost", "known"} /\ (box' = "known" <=> box = "known")
  BY <1>1 DEF Crash, SandboxAfterLoss, DataTypeOK
<1>4. /\ coding' \subseteq Turn /\ \A t \in coding' : t.attempt \in 1..Number(implement)
  BY <1>1, OrphanedTurns
<1>5. DataTypeOK'
  BY <1>1, <1>2, <1>3, <1>4 DEF DataTypeOK, Unfinished
<1>6. /\ UNCHANGED status /\ (AgentOK => AgentOK')
      /\ Number(implement)' = Number(implement)
      /\ \A n : HandedOver(n)' = HandedOver(n)
  BY <1>1, TicketsStay DEF AgentOK
<1>7. BoxBound' /\ AgentKept'
  BY <1>1, <1>3, <1>6 DEF WorldInv, BoxBound, AgentKept
<1>8. WorldInv'
  BY <1>1, <1>4, <1>6, <1>7, SessionWorld
<1>9. PICK r : r = Idle
  OBVIOUS
<1>10. UnfinishedStep(r)'
  <2>1. ReworkDue' => "sentback" \in lapses'
    <3>1. CASE status[implement] = "proving"
      BY <1>1, <1>6, <3>1 DEF ReworkDue, Unfinished
    <3>2. CASE status[implement] # "proving"
      <4>1. proc[Runner].step # "sendback"
        BY <1>1, <3>2 DEF RunnerOK, ProofStep, CaptureSteps
      <4> QED
        BY <1>1, <1>6, <4>1 DEF ReworkDue, RunnerOK, UnfinishedStep
    <3> QED
      BY <3>1, <3>2
  <2>2. status'[inspect] = "proving" => "proving" \in lapses'
    BY <1>1, <1>6 DEF Unfinished
  <2> QED
    BY <2>1, <2>2 DEF UnfinishedStep
<1>11. RunnerOK(r)'
  BY <1>9, <1>10, IdleStep DEF RunnerOK, UnfinishedStep, PickedStep, PickedSteps,
     InspectionStep, InspectSteps, CoordinatorSteps, CodingStep, CodingSteps, ProofStep,
     CaptureSteps, ReviewSteps
<1>12. proc'[Runner] = r /\ proc'[Creator] = Idle
  BY <1>1, <1>9
<1>13. RunTypeOK'
  BY <1>1, <1>5, IdleStep DEF RunTypeOK, DataTypeOK
<1>14. CreatorOK(proc[Creator])' /\ RunnerOK(proc[Runner])'
  BY <1>11, <1>12, IdleStep
<1> QED
  BY <1>8, <1>13, <1>14 DEF RunInv

-----------------------------------------------------------------------------
(* Evidence and captures.                                                  *)

\* Evidence is added to the kind it is of.
LEMMA EvidenceAdded ==
  ASSUME DataTypeOK, NEW of
  PROVE  LET n == MaxAttempts[implement]
             E == [proof: SUBSET {"intake", "inspect"}, turned: SUBSET (1..n),
                   failed: SUBSET (1..n), reviewed: SUBSET (1..n), judged: SUBSET (1..n)] IN
         /\ AddEvidence("proof", of) /\ of \in {"intake", "inspect"} =>
              /\ evidence' \in E /\ evidence'.proof = evidence.proof \cup {of}
              /\ evidence'.turned = evidence.turned /\ evidence'.failed = evidence.failed
              /\ evidence'.reviewed = evidence.reviewed /\ evidence'.judged = evidence.judged
         /\ AddEvidence("turned", of) /\ of \in 1..n =>
              /\ evidence' \in E /\ evidence'.turned = evidence.turned \cup {of}
              /\ evidence'.proof = evidence.proof /\ evidence'.failed = evidence.failed
              /\ evidence'.reviewed = evidence.reviewed /\ evidence'.judged = evidence.judged
         /\ AddEvidence("failed", of) /\ of \in 1..n =>
              /\ evidence' \in E /\ evidence'.failed = evidence.failed \cup {of}
              /\ evidence'.proof = evidence.proof /\ evidence'.turned = evidence.turned
              /\ evidence'.reviewed = evidence.reviewed /\ evidence'.judged = evidence.judged
BY DEF DataTypeOK, AddEvidence

\* The current attempt of an implementation under way.
LEMMA CurrentAttempt ==
  ASSUME WorldInv, status[implement] \in Working
  PROVE  /\ Number(implement) \in Nat /\ Number(implement) \in 1..Number(implement)
         /\ Number(implement) \in 1..MaxAttempts[implement]
         /\ 1..Number(implement) \subseteq 1..MaxAttempts[implement]
<1>1. /\ Number(implement) \in Nat /\ Number(implement) >= 1
      /\ Number(implement) <= MaxAttempts[implement] /\ MaxAttempts[implement] \in Nat
  BY NumberType, TwoOfEach DEF WorldInv, WorkClaimed
<1> QED
  BY <1>1

\* A turn that the run followed to its end leaves evidence, or a cause.
LEMMA TurnEndsStep ==
  ASSUME RunInv, NEW t \in coding, NEW completed \in BOOLEAN, TurnEnds(t, completed)
  PROVE  RunInv'
<1>1. /\ RunnerOK(proc[Runner]) /\ proc[Runner].step = "coding" /\ DataTypeOK /\ WorldInv
      /\ UNCHANGED <<vars, mission, artifact, claimBox, box, agent, version>>
      /\ coding' = coding \ {t} /\ Goto(Runner, "coded")
  BY TypeSplit DEF RunInv, TurnEnds, At
<1>2. status[implement] = "in_progress" /\ proc[Runner].item = implement
  BY <1>1 DEF RunnerOK, CodingStep, CodingSteps
<1>3. /\ Number(implement) \in Nat /\ t.attempt \in 1..Number(implement)
      /\ t.attempt \in 1..MaxAttempts[implement]
  BY <1>1, <1>2, CurrentAttempt DEF Working, WorldInv, EvidenceOfAttempts
<1>4. /\ evidence' \in [proof: SUBSET {"intake", "inspect"},
                        turned: SUBSET (1..MaxAttempts[implement]),
                        failed: SUBSET (1..MaxAttempts[implement]),
                        reviewed: SUBSET (1..MaxAttempts[implement]),
                        judged: SUBSET (1..MaxAttempts[implement])]
      /\ evidence'.proof = evidence.proof /\ evidence'.failed = evidence.failed
      /\ evidence'.reviewed = evidence.reviewed /\ evidence'.judged = evidence.judged
      /\ evidence'.turned \in {evidence.turned, evidence.turned \cup {t.attempt}}
      /\ completed => evidence'.turned # {}
  <2>1. CASE completed
    <3>1. AddEvidence("turned", t.attempt)
      BY <2>1 DEF TurnEnds, TurnEvidence
    <3> QED
      BY <1>1, <1>3, <3>1, EvidenceAdded
  <2>2. CASE ~completed
    BY <1>1, <2>2 DEF TurnEnds, TurnEvidence, DataTypeOK
  <2> QED
    BY <2>1, <2>2
<1>5. LapsesGo /\ lapses \subseteq lapses' /\ stale' = stale /\ (~completed => Cause')
  <2>1. CASE completed
    BY <1>1, <2>1, LapseNoted DEF TurnEnds, historyVars
  <2>2. CASE ~completed
    BY <1>1, <2>2, LapseNoted DEF TurnEnds, Causes
  <2> QED
    BY <2>1, <2>2
<1>6. DataTypeOK'
  BY <1>1, <1>4, <1>5 DEF DataTypeOK, LapsesGo, Causes
<1>7. /\ TicketShape' /\ WorkClaimed' /\ Number(implement)' = Number(implement)
      /\ \A n : HandedOver(n)' = HandedOver(n) /\ ReviewOf(n)' = ReviewOf(n)
      /\ Present' = Present
      /\ UNCHANGED <<plan, status, attempts, handoff, review, artifact, claimBox>>
      /\ (AgentOK => AgentOK')
  BY <1>1, <1>5, TicketsStay DEF AgentOK
<1>8. InspectionFirst' /\ ReviewOrder'
  BY <1>1, <1>4, <1>7 DEF WorldInv, InspectionFirst, ReviewOrder, Reported, SentBack
<1>9. EvidenceOfAttempts'
  BY <1>1, <1>3, <1>4, <1>7 DEF WorldInv, EvidenceOfAttempts
<1>10. BoxBound' /\ OneCapture' /\ AgentKept'
  BY <1>1, <1>4, <1>5, <1>7 DEF WorldInv, BoxBound, OneCapture, AgentKept
<1>11. CreatorForward
  BY <1>4, <1>7 DEF CreatorForward
<1>12. PICK r \in Process : /\ r.step = "coded" /\ r.item = implement
                            /\ proc' = [proc EXCEPT ![Runner] = r]
  BY <1>1, <1>2, GotoStep DEF RunInv, Steps
<1>13. UnfinishedStep(r)'
  BY <1>1, <1>4, <1>5, <1>7, <1>12 DEF RunnerOK, UnfinishedStep, ReworkDue
<1>14. RunnerOK(r)'
  BY <1>1, <1>2, <1>4, <1>5, <1>7, <1>12, <1>13, TwoOfEach DEF RunnerOK, UnfinishedStep,
     PickedStep, PickedSteps, InspectionStep, InspectSteps, CoordinatorSteps, CodingStep,
     CodingSteps, ProofStep, CaptureSteps, ReviewSteps
<1> QED
  BY <1>6, <1>7, <1>8, <1>9, <1>10, <1>11, <1>12, <1>14, RunnerGoes DEF WorldInv

\* The inspection proves the repository, with the agent of the mission back.
LEMMA InspectionPassedStep ==
  ASSUME RunInv, NEW p \in {Runner, Creator}, InspectionPassed(p)
  PROVE  RunInv'
<1> DEFINE of == IF p = Creator THEN "intake" ELSE "inspect"
<1>1. /\ RunnerOK(proc[Runner]) /\ CreatorOK(proc[Creator]) /\ proc[p].step = "restored"
      /\ DataTypeOK /\ WorldInv /\ ~Reviews(p)
      /\ UNCHANGED <<vars, mission, artifact, claimBox, box, agent, version, coding, historyVars>>
      /\ AddEvidence("proof", of) /\ of \in {"intake", "inspect"}
  BY TypeSplit DEF RunInv, InspectionPassed, Inspected, At, OnlyEvidence, sessionVars
<1>2. AgentOK
  BY <1>1 DEF RunnerOK, InspectionStep, CreatorOK
<1>3. /\ evidence' \in [proof: SUBSET {"intake", "inspect"},
                        turned: SUBSET (1..MaxAttempts[implement]),
                        failed: SUBSET (1..MaxAttempts[implement]),
                        reviewed: SUBSET (1..MaxAttempts[implement]),
                        judged: SUBSET (1..MaxAttempts[implement])]
      /\ evidence'.proof = evidence.proof \cup {of}
      /\ evidence'.turned = evidence.turned /\ evidence'.failed = evidence.failed
      /\ evidence'.reviewed = evidence.reviewed /\ evidence'.judged = evidence.judged
  BY <1>1, EvidenceAdded
<1>4. DataTypeOK'
  BY <1>1, <1>3 DEF DataTypeOK, historyVars
<1>5. /\ TicketShape' /\ WorkClaimed' /\ Number(implement)' = Number(implement)
      /\ \A n : HandedOver(n)' = HandedOver(n) /\ ReviewOf(n)' = ReviewOf(n)
      /\ Present' = Present
      /\ UNCHANGED <<plan, status, attempts, handoff, review, artifact, claimBox>>
      /\ AgentOK' /\ UNCHANGED <<lapses, stale>>
  BY <1>1, <1>2, TicketsStay DEF AgentOK, historyVars
<1>6. p = Runner => proc[p].item = inspect /\ status[inspect] = "in_progress"
  BY <1>1, TwoOfEach DEF RunnerOK, InspectionStep, CoordinatorSteps, Reviews, Item
<1>7. InspectionFirst'
  BY <1>1, <1>3, <1>5, <1>6, TwoOfEach DEF WorldInv, InspectionFirst
<1>8. ReviewOrder' /\ EvidenceOfAttempts' /\ BoxBound' /\ OneCapture' /\ AgentKept'
  BY <1>1, <1>3, <1>5 DEF WorldInv, ReviewOrder, Reported, SentBack, EvidenceOfAttempts,
     BoxBound, OneCapture, AgentKept
<1>9. CreatorForward
  BY <1>3, <1>5 DEF CreatorForward
<1>10. CASE p = Runner
  <2>1. PICK r \in Process : /\ r.step = "prove" /\ r.item = inspect
                             /\ proc' = [proc EXCEPT ![Runner] = r]
    <3>1. Goto(Runner, "prove")
      BY <1>10, TwoOfEach DEF InspectionPassed
    <3> QED
      BY <1>6, <1>10, <3>1, GotoStep DEF RunInv, Steps
  <2>2. UnfinishedStep(r)'
    BY <1>1, <1>3, <1>5, <1>10, <2>1 DEF RunnerOK, UnfinishedStep, ReworkDue
  <2>3. "inspect" \in evidence'.proof
    BY <1>3, <1>10, TwoOfEach
  <2>4. RunnerOK(r)'
    BY <1>5, <1>6, <1>10, <2>1, <2>2, <2>3, TwoOfEach DEF RunnerOK, UnfinishedStep,
       PickedStep, PickedSteps, InspectionStep, InspectSteps, CoordinatorSteps, CodingStep,
       CodingSteps, ProofStep, CaptureSteps, ReviewSteps
  <2> QED
    BY <1>4, <1>5, <1>7, <1>8, <1>9, <2>1, <2>4, RunnerGoes DEF WorldInv
<1>11. CASE p = Creator
  <2>1. PICK c \in Process : /\ c.step = "intake" /\ c.saw = proc[Creator].saw
                             /\ proc' = [proc EXCEPT ![Creator] = c]
    <3>1. Goto(Creator, "intake")
      BY <1>11 DEF InspectionPassed
    <3> QED
      BY <3>1, GotoStep DEF RunInv, Steps
  <2>2. CreatorOK(c)'
    BY <1>1, <1>3, <1>5, <1>11, <2>1 DEF CreatorOK, CoordinatorSteps
  <2>3. RunnerForward(proc[Runner])
    <3>1. version \in Nat /\ \A i \in Items : Quiet(i)
      BY <1>1, TwoOfEach, TicketsStay DEF DataTypeOK
    <3> QED
      BY <1>1, <1>3, <1>5, <1>11, <3>1 DEF RunnerForward
  <2> QED
    BY <1>4, <1>5, <1>7, <1>8, <2>1, <2>2, <2>3, CreatorGoes DEF WorldInv
<1> QED
  BY <1>10, <1>11

\* What is wrong with the capture is a finding, which is sent back next.
LEMMA CaptureFindingStep ==
  ASSUME RunInv, proc[Runner].step \in {"capture", "files"}, CaptureFinding,
         UNCHANGED <<artifact, historyVars>>, OnlyEvidence
  PROVE  RunInv'
<1>1. /\ RunnerOK(proc[Runner]) /\ DataTypeOK /\ WorldInv
      /\ UNCHANGED <<vars, mission, artifact, claimBox, box, agent, version, coding, historyVars>>
      /\ AddEvidence("failed", Number(implement)) /\ Goto(Runner, "sendback")
  BY TypeSplit DEF RunInv, CaptureFinding, OnlyEvidence, sessionVars
<1>2. /\ status[implement] = "proving" /\ proc[Runner].item = implement
      /\ ~HandedOver(Number(implement))
  BY <1>1 DEF RunnerOK, ProofStep, CaptureSteps
<1>3. /\ Number(implement) \in 1..Number(implement)
      /\ Number(implement) \in 1..MaxAttempts[implement]
  BY <1>1, <1>2, CurrentAttempt DEF Working
<1>4. /\ evidence' \in [proof: SUBSET {"intake", "inspect"},
                        turned: SUBSET (1..MaxAttempts[implement]),
                        failed: SUBSET (1..MaxAttempts[implement]),
                        reviewed: SUBSET (1..MaxAttempts[implement]),
                        judged: SUBSET (1..MaxAttempts[implement])]
      /\ evidence'.failed = evidence.failed \cup {Number(implement)}
      /\ evidence'.proof = evidence.proof /\ evidence'.turned = evidence.turned
      /\ evidence'.reviewed = evidence.reviewed /\ evidence'.judged = evidence.judged
  BY <1>1, <1>3, EvidenceAdded
<1>5. DataTypeOK'
  BY <1>1, <1>4 DEF DataTypeOK, historyVars
<1>6. /\ TicketShape' /\ WorkClaimed' /\ Number(implement)' = Number(implement)
      /\ \A n : HandedOver(n)' = HandedOver(n) /\ ReviewOf(n)' = ReviewOf(n)
      /\ Present' = Present
      /\ UNCHANGED <<plan, status, attempts, handoff, review, artifact, claimBox>>
      /\ AgentOK' = AgentOK /\ UNCHANGED <<lapses, stale>>
  BY <1>1, TicketsStay DEF AgentOK, historyVars
<1>7. InspectionFirst' /\ ReviewOrder' /\ BoxBound' /\ OneCapture' /\ AgentKept'
  BY <1>1, <1>4, <1>6 DEF WorldInv, InspectionFirst, ReviewOrder, Reported, SentBack, BoxBound,
     OneCapture, AgentKept
<1>8. EvidenceOfAttempts'
  BY <1>1, <1>2, <1>3, <1>4, <1>6 DEF WorldInv, EvidenceOfAttempts
<1>9. CreatorForward
  BY <1>4, <1>6 DEF CreatorForward
<1>10. PICK r \in Process : /\ r.step = "sendback" /\ r.item = implement
                            /\ proc' = [proc EXCEPT ![Runner] = r]
  BY <1>1, <1>2, GotoStep DEF RunInv, Steps
<1>11. status[inspect] # "proving"
  BY <1>1, <1>2 DEF WorldInv, InspectionFirst
<1>12. UnfinishedStep(r)'
  BY <1>6, <1>10, <1>11 DEF UnfinishedStep
<1>13. RunnerOK(r)'
  BY <1>2, <1>6, <1>10, <1>12, TwoOfEach DEF RunnerOK, UnfinishedStep, PickedStep,
     PickedSteps, InspectionStep, InspectSteps, CoordinatorSteps, CodingStep, CodingSteps,
     ProofStep, CaptureSteps, ReviewSteps
<1> QED
  BY <1>5, <1>6, <1>7, <1>8, <1>9, <1>10, <1>13, RunnerGoes DEF WorldInv

\* A capture that cannot be made now ends the run.
LEMMA CaptureRetryStep ==
  ASSUME RunInv, proc[Runner].step \in {"capture", "files"}, CaptureRetryable,
         UNCHANGED <<artifact, evidence, historyVars>>, OnlyEvidence
  PROVE  RunInv'
<1>1. OnlyMission /\ mission' = mission /\ Ends /\ LapsesGo
  BY LapseNoted, TypeSplit DEF OnlyMission, OnlyEvidence, CaptureRetryable, RunInv
<1>2. MissionGoes
  BY <1>1, TypeSplit DEF MissionGoes, RunInv, DataTypeOK
<1> QED
  BY <1>1, <1>2, RunnerEnds

\* What a capture has to keep: nothing of the attempt is handed over yet.
LEMMA CaptureWorld ==
  ASSUME DataTypeOK, WorldInv, status[implement] = "proving",
         ~HandedOver(Number(implement)),
         UNCHANGED <<vars, mission, evidence, claimBox, box, agent, version, coding, stale, faults>>,
         artifact' \in [attempt: 0..MaxAttempts[implement], diff: 0..MaxEdits,
                        files: 0..MaxEdits, shown: BOOLEAN],
         lapses \ {"orphan"} \subseteq lapses', lapses' \subseteq lapses \cup {"orphan"},
         OneCapture'
  PROVE  DataTypeOK' /\ WorldInv' /\ CreatorForward
<1>1. DataTypeOK'
  BY DEF DataTypeOK
<1>2. /\ TicketShape' /\ WorkClaimed' /\ Number(implement)' = Number(implement)
      /\ \A n : HandedOver(n)' = HandedOver(n) /\ ReviewOf(n)' = ReviewOf(n)
      /\ Present' = Present /\ UNCHANGED <<plan, status, handoff, review>>
      /\ AgentOK' = AgentOK
  BY TicketsStay DEF AgentOK
<1>3. InspectionFirst' /\ ReviewOrder' /\ BoxBound' /\ EvidenceOfAttempts' /\ AgentKept'
  BY <1>2 DEF WorldInv, InspectionFirst, ReviewOrder, BoxBound, EvidenceOfAttempts, AgentKept
<1>4. CreatorForward
  BY <1>2 DEF CreatorForward
<1> QED
  BY <1>1, <1>2, <1>3, <1>4 DEF WorldInv

\* The diff is captured in the sandbox the claim names.
LEMMA CaptureDiffStep ==
  ASSUME RunInv, CaptureDiff
  PROVE  RunInv'
<1>1. /\ RunnerOK(proc[Runner]) /\ proc[Runner].step = "capture" /\ DataTypeOK /\ WorldInv
      /\ OnlyEvidence
  BY TypeSplit DEF RunInv, CaptureDiff, At
<1>2. CASE CaptureFinding /\ UNCHANGED <<artifact, historyVars>>
  BY <1>1, <1>2, CaptureFindingStep
<1>3. CASE CaptureRetryable /\ UNCHANGED <<artifact, evidence, historyVars>>
  BY <1>1, <1>3, CaptureRetryStep
<1>4. CASE /\ ClaimMatchesSession /\ Measurable /\ ContentBearing
           /\ artifact' = NewArtifact
           /\ IF coding = {} THEN Forget({"orphan"}) ELSE Lapse("orphan")
           /\ Goto(Runner, "files") /\ UNCHANGED evidence
  <2>1. /\ status[implement] = "proving" /\ proc[Runner].item = implement
        /\ ~HandedOver(Number(implement))
    BY <1>1 DEF RunnerOK, ProofStep, CaptureSteps
  <2>2. UNCHANGED <<vars, mission, evidence, claimBox, box, agent, version, coding>>
    BY <1>1, <1>4 DEF OnlyEvidence, sessionVars
  <2>3. /\ Number(implement) \in 0..MaxAttempts[implement]
        /\ version \in 0..MaxEdits /\ 0 \in 0..MaxEdits
    BY <1>1, <2>1, CurrentAttempt, TwoOfEach DEF DataTypeOK, Working
  <2>4. /\ artifact' \in [attempt: 0..MaxAttempts[implement], diff: 0..MaxEdits,
                          files: 0..MaxEdits, shown: BOOLEAN]
        /\ artifact'.attempt = Number(implement) /\ artifact'.diff = version
        /\ artifact'.files = 0
    BY <1>4, <2>3 DEF NewArtifact, MeasuredDiff
  <2>5. /\ lapses \ {"orphan"} \subseteq lapses' /\ lapses' \subseteq lapses \cup {"orphan"}
        /\ coding # {} => "orphan" \in lapses'
        /\ UNCHANGED <<stale, faults>>
    BY <1>4 DEF Forget, Lapse
  <2>6. OneCapture'
    BY <2>4 DEF OneCapture
  <2>7. DataTypeOK' /\ WorldInv' /\ CreatorForward
    BY <1>1, <2>1, <2>2, <2>4, <2>5, <2>6, CaptureWorld
  <2>8. claimBox' /\ version' > 0 /\ version' = artifact'.diff
    BY <1>4, <2>2, <2>4 DEF ClaimMatchesSession, Measurable, ContentBearing
  <2>9. PICK r \in Process : /\ r.step = "files" /\ r.item = implement
                             /\ proc' = [proc EXCEPT ![Runner] = r]
    BY <1>4, <2>1, GotoStep DEF RunInv, Steps
  <2>10. /\ Number(implement)' = Number(implement) /\ status' = status
         /\ \A n : HandedOver(n)' = HandedOver(n)
    BY <1>1, <2>2, TicketsStay
  <2>11. UnfinishedStep(r)'
    BY <1>1, <2>2, <2>5, <2>9, <2>10 DEF RunnerOK, UnfinishedStep, ReworkDue
  <2>12. RunnerOK(r)'
    BY <2>1, <2>2, <2>4, <2>5, <2>8, <2>9, <2>10, <2>11, TwoOfEach DEF RunnerOK,
       UnfinishedStep, PickedStep, PickedSteps, InspectionStep, InspectSteps,
       CoordinatorSteps, CodingStep, CodingSteps, ProofStep, CaptureSteps, ReviewSteps
  <2> QED
    BY <2>7, <2>9, <2>12, RunnerGoes
<1> QED
  BY <1>2, <1>3, <1>4 DEF CaptureDiff

\* The files are captured after the diff, and nothing edits in between that it knows of.
LEMMA CaptureFilesStep ==
  ASSUME RunInv, CaptureFiles
  PROVE  RunInv'
<1>1. /\ RunnerOK(proc[Runner]) /\ proc[Runner].step = "files" /\ DataTypeOK /\ WorldInv
      /\ OnlyEvidence /\ UNCHANGED historyVars
  BY TypeSplit DEF RunInv, CaptureFiles, At
<1>2. CASE CaptureFinding /\ UNCHANGED artifact
  BY <1>1, <1>2, CaptureFindingStep
<1>3. CASE CaptureRetryable /\ UNCHANGED <<artifact, evidence>>
  BY <1>1, <1>3, CaptureRetryStep
<1>4. CASE /\ \E shown \in BOOLEAN : artifact' = [artifact EXCEPT !.files = version, !.shown = shown]
           /\ Goto(Runner, "handoff") /\ UNCHANGED evidence
  <2>1. /\ status[implement] = "proving" /\ proc[Runner].item = implement
        /\ ~HandedOver(Number(implement)) /\ claimBox
        /\ artifact.attempt = Number(implement) /\ version > 0
        /\ "orphan" \in lapses \/ artifact.diff = version
    BY <1>1 DEF RunnerOK, ProofStep, CaptureSteps
  <2>2. UNCHANGED <<vars, mission, evidence, claimBox, box, agent, version, coding, stale, faults, lapses>>
    BY <1>1, <1>4 DEF OnlyEvidence, sessionVars, historyVars
  <2>3. PICK shown \in BOOLEAN : artifact' = [artifact EXCEPT !.files = version, !.shown = shown]
    BY <1>4
  <2>4. /\ artifact' \in [attempt: 0..MaxAttempts[implement], diff: 0..MaxEdits,
                          files: 0..MaxEdits, shown: BOOLEAN]
        /\ artifact'.attempt = artifact.attempt /\ artifact'.diff = artifact.diff
        /\ artifact'.files = version
    <3> DEFINE A == [attempt: 0..MaxAttempts[implement], diff: 0..MaxEdits,
                     files: 0..MaxEdits, shown: BOOLEAN]
               a == [artifact EXCEPT !.files = version]
    <3>1. artifact \in A /\ version \in 0..MaxEdits
      BY <1>1 DEF DataTypeOK
    <3>2. a \in A /\ a.attempt = artifact.attempt /\ a.diff = artifact.diff /\ a.files = version
      BY <3>1
    <3>3. artifact' = [a EXCEPT !.shown = shown]
      BY <2>3
    <3> HIDE DEF a
    <3> QED
      BY <3>2, <3>3
  <2>5. OneCapture'
    BY <2>1, <2>2, <2>4 DEF OneCapture
  <2>6. DataTypeOK' /\ WorldInv' /\ CreatorForward
    BY <1>1, <2>1, <2>2, <2>4, <2>5, CaptureWorld
  <2>7. PICK r \in Process : /\ r.step = "handoff" /\ r.item = implement
                             /\ proc' = [proc EXCEPT ![Runner] = r]
    BY <1>4, <2>1, GotoStep DEF RunInv, Steps
  <2>8. /\ Number(implement)' = Number(implement) /\ status' = status
        /\ \A n : HandedOver(n)' = HandedOver(n)
    BY <1>1, <2>2, TicketsStay
  <2>9. UnfinishedStep(r)'
    BY <1>1, <2>2, <2>7, <2>8 DEF RunnerOK, UnfinishedStep, ReworkDue
  <2>10. RunnerOK(r)'
    BY <2>1, <2>2, <2>4, <2>7, <2>8, <2>9, TwoOfEach DEF RunnerOK, UnfinishedStep,
       PickedStep, PickedSteps, InspectionStep, InspectSteps, CoordinatorSteps, CodingStep,
       CodingSteps, ProofStep, CaptureSteps, ReviewSteps
  <2> QED
    BY <2>6, <2>7, <2>10, RunnerGoes
<1> QED
  BY <1>2, <1>3, <1>4 DEF CaptureFiles

-----------------------------------------------------------------------------
(* Others, and the creation, change the tickets.                           *)

\* What a run finds on an empty board was changed under it.
LEMMA EmptyBoard ==
  ASSUME Present = {}, NEW r, PickedStep(r), r.step \in Found
  PROVE  "race" \in lapses
<1>1. r.item \in Items
  BY DEF PickedStep, PickedSteps, Found
<1>2. status[r.item] = "absent"
  BY <1>1 DEF Present
<1> QED
  BY <1>1, <1>2 DEF PickedStep, Found, Runnable

\* What somebody's call notes for the run that it may interfere with.
LEMMA InterferesNoted ==
  ASSUME DataTypeOK, Interferes
  PROVE  /\ lapses \subseteq lapses' /\ lapses' \subseteq lapses \cup {"race"}
         /\ stale' \in BOOLEAN /\ (stale' => stale \/ "race" \in lapses')
         /\ proc[Runner].step \in Between => "race" \in lapses'
BY DEF DataTypeOK, Interferes, At, Between

\* What a change of the tickets by others keeps for the run.
LEMMA OthersForward ==
  ASSUME DataTypeOK, UNCHANGED <<mission, evidence, artifact, box, agent, version, coding>>,
         \A i \in Items : Quiet(i) \/ Stirred(i),
         status[inspect] = "done" /\ status[implement] = "absent" => status'[implement] = "absent",
         status[implement] \in Working => claimBox' = claimBox,
         lapses \subseteq lapses', stale' => stale \/ "race" \in lapses',
         NEW r, (\A i \in Items : Quiet(i)) \/ r.step \notin Found \/ "race" \in lapses'
  PROVE  RunnerForward(r)
<1>1. version \in Nat
  BY TwoOfEach DEF DataTypeOK
<1>2. AgentOK => AgentOK'
  BY DEF AgentOK
<1> QED
  BY <1>1, <1>2 DEF RunnerForward

\* What others change leaves nothing more unfinished.
LEMMA StirredUnfinished ==
  ASSUME \A i \in Items : Quiet(i) \/ Stirred(i), evidence' = evidence, lapses \subseteq lapses',
         NEW q, UnfinishedStep(q), q.step \notin {"sendback", "finish"}
  PROVE  \A r : UnfinishedStep(r)'
<1>1. ReworkDue' => ReworkDue
  BY TwoOfEach DEF ReworkDue, Quiet, Stirred, Working
<1>2. status'[inspect] = "proving" => status[inspect] = "proving"
  BY TwoOfEach DEF Quiet, Stirred
<1> QED
  BY <1>1, <1>2 DEF UnfinishedStep

\* A ticket that enters or leaves the queue.
LEMMA QueueWorld ==
  ASSUME DataTypeOK, WorldInv, NEW i \in Items, TicketShape', QueueMove(i),
         UNCHANGED <<evidence, artifact, claimBox, box, agent, version, coding>>,
         lapses \subseteq lapses'
  PROVE  /\ WorldInv' /\ CreatorForward
         /\ \A j \in Items : Quiet(j) \/ Stirred(j)
         /\ ~(status[inspect] = "done" /\ status[implement] = "absent")
            \/ status'[implement] = "absent"
<1>1. /\ \A j \in Items \ {i} : Quiet(j)
      /\ \A j \in Items : Number(j)' = Number(j)
      /\ UNCHANGED <<plan, handoff, review>>
      /\ \A n : HandedOver(n)' = HandedOver(n) /\ ReviewOf(n)' = ReviewOf(n)
      /\ status[i] \in {"backlog", "ready", "changes_requested"}
      /\ status'[i] \in {"backlog", "ready"}
  BY DEF QueueMove, Quiet, HandedOver, ReviewOf
<1>2. \A j \in Items : status'[j] \in Working \cup {"done", "absent", "blocked", "changes_requested"}
                         => Quiet(j)
  BY <1>1 DEF Working
<1>3. WorkClaimed'
  BY <1>1, <1>2 DEF WorldInv, WorkClaimed, Working, Quiet
<1>4. status[implement] # "absent" <=> status'[implement] # "absent"
  BY <1>1, <1>2, TwoOfEach DEF Quiet
<1>5. i = inspect => status[implement] = "absent"
  BY <1>1 DEF WorldInv, InspectionFirst
<1>6. InspectionFirst'
  BY <1>1, <1>2, <1>4, <1>5, TwoOfEach DEF WorldInv, InspectionFirst, Quiet
<1>7. ReviewOrder'
  BY <1>1, <1>2, TwoOfEach DEF WorldInv, ReviewOrder, Reported, SentBack, Quiet, Working
<1>8. EvidenceOfAttempts' /\ BoxBound' /\ OneCapture'
  BY <1>1, <1>2, TwoOfEach DEF WorldInv, EvidenceOfAttempts, BoxBound, OneCapture, Quiet, Working
<1>9. AgentOK => AgentOK'
  BY DEF AgentOK
<1>10. AgentKept'
  BY <1>1, <1>9, TwoOfEach DEF WorldInv, AgentKept, Quiet
<1>11. CreatorForward
  BY <1>1 DEF CreatorForward, Present
<1>12. \A j \in Items : Quiet(j) \/ Stirred(j)
  BY <1>1 DEF Stirred, Working
<1> QED
  BY <1>3, <1>4, <1>6, <1>7, <1>8, <1>10, <1>11, <1>12 DEF WorldInv

\* A human's decision on the board.
LEMMA HumanStep ==
  ASSUME RunInv, NEW i \in Items, Authorize(i) \/ Revoke(i)
  PROVE  RunInv'
<1>1. /\ DataTypeOK /\ WorldInv /\ Interferes
      /\ UNCHANGED <<mission, evidence, artifact, claimBox, box, agent, version, coding, proc, faults>>
  BY TypeSplit DEF RunInv, Authorize, Revoke, Others, sessionVars
<1>2. TicketShape' /\ QueueMove(i)
  BY <1>1, AuthorizeTicket, RevokeTicket DEF Authorize, Revoke, WorldInv
<1>3. /\ lapses \subseteq lapses' /\ lapses' \subseteq lapses \cup {"race"}
      /\ stale' \in BOOLEAN /\ (stale' => stale \/ "race" \in lapses')
      /\ proc[Runner].step \in Between => "race" \in lapses'
  BY <1>1, InterferesNoted
<1>4. DataTypeOK'
  BY <1>1, <1>3 DEF DataTypeOK
<1>5. /\ WorldInv' /\ CreatorForward /\ \A j \in Items : Quiet(j) \/ Stirred(j)
      /\ ~(status[inspect] = "done" /\ status[implement] = "absent")
         \/ status'[implement] = "absent"
  BY <1>1, <1>2, <1>3, QueueWorld
<1>6. RunnerForward(proc[Runner])
  BY <1>1, <1>3, <1>5, OthersForward DEF Found, Between
<1> QED
  BY <1>1, <1>4, <1>5, <1>6, OthersAct

\* A ticket that is claimed, in the sandbox that is known.
LEMMA ClaimWorld ==
  ASSUME DataTypeOK, WorldInv, NEW i \in Items, NEW o \in Owners, ClaimWorkItem(i, o),
         UNCHANGED <<evidence, artifact, box, agent, version, coding>>,
         claimBox' = IF i = implement THEN box = "known" ELSE claimBox,
         lapses \subseteq lapses'
  PROVE  /\ WorldInv' /\ CreatorForward /\ status'[i] = "in_progress" /\ Runnable(i)
         /\ \A j \in Items : Quiet(j) \/ Stirred(j)
         /\ status'[implement] = "absent" <=> status[implement] = "absent"
         /\ status[implement] \in Working => claimBox' = claimBox
<1>1. /\ TicketShape' /\ Runnable(i) /\ status'[i] = "in_progress" /\ status[i] = "ready"
      /\ claim'[i] # NoOne
      /\ Number(i)' = Number(i) + 1 /\ Number(i)' <= MaxAttempts[i]
      /\ UNCHANGED <<plan, handoff, review>>
      /\ \A j \in Items \ {i} : Quiet(j)
  BY ClaimTicket DEF WorldInv, Runnable
<1>2. \A j \in Items : Number(j) \in Nat /\ MaxAttempts[j] \in Nat
  BY NumberType, TwoOfEach DEF WorldInv
<1>3. WorkClaimed'
  BY <1>1, <1>2 DEF WorldInv, WorkClaimed, Quiet
<1>4. i = inspect => status[implement] = "absent"
  BY <1>1 DEF WorldInv, InspectionFirst
<1>5. InspectionFirst'
  BY <1>1, <1>4, TwoOfEach DEF WorldInv, InspectionFirst, Quiet
<1>6. ASSUME i = implement
      PROVE  ReviewOrder' /\ EvidenceOfAttempts' /\ BoxBound' /\ OneCapture' /\ AgentKept'
  <2>1. /\ handoff'[implement].attempt = handoff[implement].attempt
        /\ review'[implement].attempt = review[implement].attempt
        /\ review'[implement].outcome = review[implement].outcome
        /\ handoff[implement].attempt \in Nat /\ review[implement].attempt \in Nat
        /\ handoff[implement].attempt <= Number(implement)
        /\ review[implement].attempt <= Number(implement)
    BY <1>1, TwoOfEach DEF WorldInv, ReviewOrder, TicketShape, Handoff, RunReview
  <2>2. ~HandedOver(Number(implement))' /\ ReviewOf(Number(implement))' = "none"
    BY <1>1, <1>2, <1>6, <2>1 DEF HandedOver, ReviewOf
  <2>3. ReviewOrder'
    BY <1>1, <1>2, <1>6, <2>1, <2>2 DEF WorldInv, ReviewOrder
  <2>4. EvidenceOfAttempts'
    <3>1. 1..Number(implement) \subseteq 1..Number(implement)'
      BY <1>1, <1>2, <1>6
    <3>2. Number(implement)' \notin 1..Number(implement)
      BY <1>1, <1>2, <1>6
    <3> QED
      BY <3>1, <3>2 DEF WorldInv, EvidenceOfAttempts
  <2>5. BoxBound' /\ OneCapture' /\ AgentKept'
    BY <1>1, <1>6 DEF WorldInv, BoxBound, OneCapture, AgentKept, AgentOK
  <2> QED
    BY <2>3, <2>4, <2>5
<1>7. ASSUME i # implement
      PROVE  ReviewOrder' /\ EvidenceOfAttempts' /\ BoxBound' /\ OneCapture' /\ AgentKept'
  <2>1. /\ Quiet(implement) /\ claimBox' = claimBox
        /\ \A n : HandedOver(n)' = HandedOver(n) /\ ReviewOf(n)' = ReviewOf(n)
    BY <1>1, <1>7, TwoOfEach DEF Quiet, HandedOver, ReviewOf
  <2>2. ReviewOrder' /\ EvidenceOfAttempts' /\ BoxBound' /\ OneCapture'
    BY <1>1, <2>1 DEF WorldInv, ReviewOrder, Reported, SentBack, EvidenceOfAttempts,
       BoxBound, OneCapture, Quiet
  <2>3. AgentKept'
    BY <1>1, <2>1 DEF WorldInv, AgentKept, AgentOK, Quiet
  <2> QED
    BY <2>2, <2>3
<1>8. ReviewOrder' /\ EvidenceOfAttempts' /\ BoxBound' /\ OneCapture' /\ AgentKept'
  BY <1>6, <1>7
<1>9. CreatorForward
  BY <1>1 DEF CreatorForward, Present
<1>10. \A j \in Items : Quiet(j) \/ Stirred(j)
  BY <1>1 DEF Stirred, Working
<1>11. /\ status'[implement] = "absent" <=> status[implement] = "absent"
       /\ status[implement] \in Working => claimBox' = claimBox
  BY <1>1, TwoOfEach DEF Quiet, Working
<1> QED
  BY <1>1, <1>3, <1>5, <1>8, <1>9, <1>10, <1>11 DEF WorldInv

\* Another owner claims a ticket.
LEMMA ClaimPrimaryTicketStep ==
  ASSUME RunInv, NEW i \in Items, NEW o \in Rivals, ClaimPrimaryTicket(i, o)
  PROVE  RunInv'
<1>1. /\ DataTypeOK /\ WorldInv /\ Interferes /\ o \in Owners /\ ClaimWorkItem(i, o)
      /\ UNCHANGED <<mission, evidence, artifact, box, agent, version, coding, proc>>
      /\ claimBox' = IF i = implement THEN box = "known" ELSE claimBox
      /\ faults < MaxFaults /\ faults' = faults + 1
  BY TypeSplit, RunAssumption DEF RunInv, ClaimPrimaryTicket, Others, sessionVars
<1>2. /\ lapses \subseteq lapses' /\ lapses' \subseteq lapses \cup {"race"}
      /\ stale' \in BOOLEAN /\ (stale' => stale \/ "race" \in lapses')
      /\ proc[Runner].step \in Between => "race" \in lapses'
  BY <1>1, InterferesNoted
<1>3. faults' \in 0..MaxFaults
  BY <1>1, TwoOfEach DEF DataTypeOK
<1>4. DataTypeOK'
  <2>1. claimBox' \in BOOLEAN
    BY <1>1 DEF DataTypeOK
  <2> QED
    BY <1>1, <1>2, <1>3, <2>1 DEF DataTypeOK
<1>5. /\ WorldInv' /\ CreatorForward /\ \A j \in Items : Quiet(j) \/ Stirred(j)
      /\ status'[implement] = "absent" <=> status[implement] = "absent"
      /\ status[implement] \in Working => claimBox' = claimBox
  BY <1>1, <1>2, ClaimWorld
<1>6. RunnerForward(proc[Runner])
  BY <1>1, <1>2, <1>5, OthersForward DEF Found, Between
<1> QED
  BY <1>1, <1>4, <1>5, <1>6, OthersAct

\* The run claims the ticket that it found, unless somebody came first.
LEMMA ClaimReadyWorkItemStep ==
  ASSUME RunInv, ClaimReadyWorkItem
  PROVE  RunInv'
<1>1. /\ RunnerOK(proc[Runner]) /\ proc[Runner].step = "claiming" /\ DataTypeOK /\ WorldInv
      /\ UNCHANGED <<mission, evidence, artifact, box, agent, version, coding, faults, lapses>>
      /\ stale' = FALSE
  BY TypeSplit DEF RunInv, ClaimReadyWorkItem, At, sessionVars
<1>2. PICK i \in Items : /\ i = proc[Runner].item
                         /\ (Runnable(i) /\ ~stale) \/ "race" \in lapses
  BY <1>1 DEF RunnerOK, PickedStep, PickedSteps
<1>3. CASE Runnable(i) /\ ~stale
  <2>1. /\ ClaimWorkItem(i, Worker) /\ Worker \in Owners
        /\ claimBox' = IF i = implement THEN box = "known" ELSE claimBox
        /\ Goto(Runner, "bind")
    BY <1>2, <1>3, RunAssumption DEF ClaimReadyWorkItem, Item
  <2>2. claimBox' \in BOOLEAN
    BY <1>1, <2>1 DEF DataTypeOK
  <2>3. DataTypeOK'
    BY <1>1, <2>2 DEF DataTypeOK
  <2>4. /\ WorldInv' /\ CreatorForward /\ status'[i] = "in_progress"
        /\ \A j \in Items : Quiet(j) \/ Stirred(j)
    BY <1>1, <2>1, ClaimWorld
  <2>5. PICK r \in Process : /\ r.step = "bind" /\ r.item = i
                             /\ proc' = [proc EXCEPT ![Runner] = r]
    BY <1>2, <2>1, GotoStep DEF RunInv, Steps
  <2>6. UnfinishedStep(r)'
    BY <1>1, <2>4, StirredUnfinished DEF RunnerOK
  <2>7. RunnerOK(r)'
    BY <2>4, <2>5, <2>6 DEF RunnerOK, UnfinishedStep, PickedStep, PickedSteps,
       InspectionStep, InspectSteps, CoordinatorSteps, CodingStep, CodingSteps, ProofStep,
       CaptureSteps, ReviewSteps
  <2> QED
    BY <2>3, <2>4, <2>5, <2>7, RunnerGoes
<1>4. CASE ~(Runnable(i) /\ ~stale)
  <2>1. Fails /\ UNCHANGED <<vars, claimBox>> /\ "race" \in lapses
    BY <1>2, <1>4 DEF ClaimReadyWorkItem, Item
  <2>2. Cause'
    BY <1>1, <2>1 DEF Cause, Causes
  <2>3. MissionGoes
    BY <1>1, <2>1 DEF MissionGoes, OnlyMission, sessionVars, LapsesGo, DataTypeOK
  <2> QED
    BY <1>1, <2>1, <2>2, <2>3, RunnerFails
<1> QED
  BY <1>3, <1>4

\* A plan of the run adds ticket i, at most, to those it has.
GraphKept(i) ==
  /\ UNCHANGED <<auth, claim, attempts, handoff, review>>
  /\ \A j \in Items : \/ status'[j] = status[j]
                      \/ j = i /\ status[j] = "absent" /\ status'[j] \in {"backlog", "ready"}

\* What a plan keeps of the tickets, whichever it adds.
LEMMA GraphWorld ==
  ASSUME WorldInv, NEW i \in Items, GraphKept(i),
         UNCHANGED <<evidence, artifact, claimBox, box, coding>>,
         "orphan" \in lapses => "orphan" \in lapses'
  PROVE  /\ \A j \in Items : Quiet(j) \/ Stirred(j)
         /\ WorkClaimed' /\ ReviewOrder' /\ EvidenceOfAttempts' /\ BoxBound' /\ OneCapture'
<1>1. /\ \A j \in Items : Number(j)' = Number(j)
      /\ \A n : HandedOver(n)' = HandedOver(n) /\ ReviewOf(n)' = ReviewOf(n)
      /\ \A j \in Items : Quiet(j) \/ Stirred(j)
      /\ \A j \in Items : status'[j] # status[j] => status'[j] \in {"backlog", "ready"}
      /\ UNCHANGED <<claim, attempts, handoff, review>>
  BY DEF GraphKept, Number, HandedOver, ReviewOf, Quiet, Stirred, Working
<1>2. WorkClaimed'
  BY <1>1 DEF WorldInv, WorkClaimed, Working
<1>3. ReviewOrder'
  BY <1>1, TwoOfEach DEF WorldInv, ReviewOrder, Reported, SentBack
<1>4. EvidenceOfAttempts' /\ BoxBound' /\ OneCapture'
  BY <1>1, TwoOfEach DEF WorldInv, EvidenceOfAttempts, BoxBound, OneCapture
<1> QED
  BY <1>1, <1>2, <1>3, <1>4

\* The creation goes on to move a ticket to the backlog.
LEMMA BacklogStep ==
  ASSUME proc \in [{Runner, Creator} -> Process], NEW i \in Items,
         proc' = [proc EXCEPT ![Creator].step = "backlog", ![Creator].item = i]
  PROVE  \E c \in Process : /\ c.step = "backlog" /\ c.item = i
                            /\ proc' = [proc EXCEPT ![Creator] = c]
<1> DEFINE w == [proc[Creator] EXCEPT !.step = "backlog"]
           c == [w EXCEPT !.item = i]
<1>1. w \in Process /\ w.step = "backlog"
  BY DEF Process, Steps
<1>2. c \in Process /\ c.step = "backlog" /\ c.item = i
  BY <1>1 DEF Process
<1>3. proc' = [proc EXCEPT ![Creator] = c]
  OBVIOUS
<1> HIDE DEF c, w
<1> QED
  BY <1>2, <1>3

\* The preflight graph is planned on a board with no other ticket.
LEMMA PersistPreflightGraphStep ==
  ASSUME RunInv, PersistPreflightGraph
  PROVE  RunInv'
<1>1. /\ DataTypeOK /\ WorldInv /\ Interferes /\ PersistWorkGraph(PreflightGraph)
      /\ UNCHANGED <<mission, evidence, artifact, claimBox, box, agent, version, coding, faults>>
      /\ proc' = [proc EXCEPT ![Creator].step = "backlog", ![Creator].item = inspect]
      /\ proc \in [{Runner, Creator} -> Process]
  BY TypeSplit DEF RunInv, PersistPreflightGraph, sessionVars
<1>2. /\ lapses \subseteq lapses' /\ lapses' \subseteq lapses \cup {"race"}
      /\ stale' \in BOOLEAN /\ (stale' => stale \/ "race" \in lapses')
      /\ proc[Runner].step \in Between => "race" \in lapses'
  BY <1>1, InterferesNoted
<1>3. DataTypeOK'
  BY <1>1, <1>2 DEF DataTypeOK
<1>4. /\ TicketShape' /\ Present \subseteq {inspect} /\ plan'[inspect].role # "implementer"
      /\ UNCHANGED <<auth, claim, attempts, handoff, review>>
      /\ \A i \in Items : \/ status'[i] = status[i]
                          \/ i = inspect /\ status[i] = "absent" /\ status'[i] \in {"backlog", "ready"}
  BY <1>1, GraphTicket DEF WorldInv, PreflightGraph
<1>5. status[implement] = "absent" /\ status'[implement] = "absent"
  BY <1>4, TwoOfEach DEF Present
<1>6. GraphKept(inspect)
  BY <1>4 DEF GraphKept
<1>7. /\ \A j \in Items : Quiet(j) \/ Stirred(j)
      /\ WorkClaimed' /\ ReviewOrder' /\ EvidenceOfAttempts' /\ BoxBound' /\ OneCapture'
  BY <1>1, <1>2, <1>6, TwoOfEach, GraphWorld
<1>8. InspectionFirst'
  BY <1>1, <1>4, <1>5, TwoOfEach DEF WorldInv, InspectionFirst
<1>9. AgentKept'
  BY <1>1, <1>2, <1>5 DEF WorldInv, AgentKept, AgentOK
<1>10. RunnerForward(proc[Runner])
  BY <1>1, <1>2, <1>5, <1>7, OthersForward DEF Found, Between
<1>11. PICK c \in Process : /\ c.step = "backlog" /\ c.item = inspect
                           /\ proc' = [proc EXCEPT ![Creator] = c]
  BY <1>1, TwoOfEach, BacklogStep
<1>12. CreatorOK(c)'
  BY <1>11, TwoOfEach DEF CreatorOK, CoordinatorSteps
<1> QED
  BY <1>3, <1>4, <1>7, <1>8, <1>9, <1>10, <1>11, <1>12, CreatorGoes DEF WorldInv

\* The implementation alone is planned on the empty board of an intake.
LEMMA PersistIntakeGraphStep ==
  ASSUME RunInv, PersistIntakeGraph
  PROVE  RunInv'
<1>1. /\ DataTypeOK /\ WorldInv /\ RunnerOK(proc[Runner]) /\ proc[Creator].step = "intake"
      /\ UNCHANGED <<mission, evidence, artifact, claimBox, box, agent, version, coding, historyVars>>
      /\ proc \in [{Runner, Creator} -> Process]
  BY TypeSplit DEF RunInv, PersistIntakeGraph, At, OnlyTickets, sessionVars
<1>2. Present = {} /\ AgentOK /\ evidence.proof # {}
  BY <1>1 DEF RunInv, CreatorOK
<1>3. UNCHANGED <<stale, faults, lapses>> /\ DataTypeOK'
  BY <1>1 DEF DataTypeOK, historyVars
<1>4. CASE InspectionRejected /\ UNCHANGED vars
  <2>1. OnlyMission /\ mission' = mission /\ LapsesGo /\ CreationEnds(FALSE)
    BY <1>1, <1>4, LapseNoted DEF OnlyMission, InspectionRejected, sessionVars
  <2>2. MissionGoes
    BY <1>1, <2>1 DEF MissionGoes, DataTypeOK
  <2> QED
    BY <1>1, <1>3, <2>1, <2>2, CreatorStays
<1>5. CASE /\ PersistWorkGraph(ImplementationOnlyGraph)
           /\ proc' = [proc EXCEPT ![Creator].step = "backlog", ![Creator].item = implement]
  <2>1. /\ TicketShape' /\ plan'[inspect].role # "implementer"
        /\ UNCHANGED <<auth, claim, attempts, handoff, review>>
        /\ \A i \in Items : \/ status'[i] = status[i]
                            \/ i = implement /\ status[i] = "absent" /\ status'[i] \in {"backlog", "ready"}
    BY <1>1, <1>5, GraphTicket DEF WorldInv, ImplementationOnlyGraph
  <2>2. status[inspect] = "absent" /\ status'[inspect] = "absent" /\ status[implement] = "absent"
    BY <1>2, <2>1, TwoOfEach DEF Present
  <2>3. GraphKept(implement)
    BY <2>1 DEF GraphKept
  <2>4. /\ \A j \in Items : Quiet(j) \/ Stirred(j)
        /\ WorkClaimed' /\ ReviewOrder' /\ EvidenceOfAttempts' /\ BoxBound' /\ OneCapture'
    BY <1>1, <1>3, <2>3, TwoOfEach, GraphWorld
  <2>5. InspectionFirst'
    BY <1>1, <1>2, <2>1, <2>2, TwoOfEach DEF WorldInv, InspectionFirst
  <2>6. AgentKept'
    BY <1>1, <1>2, <1>3 DEF AgentKept, AgentOK
  <2>7. PICK r : r = proc[Runner]
    OBVIOUS
  <2>8. r.step \in Found => "race" \in lapses'
    BY <1>1, <1>2, <1>3, <2>7, EmptyBoard DEF RunnerOK
  <2>9. RunnerForward(proc[Runner])
    BY <1>1, <1>3, <2>2, <2>4, <2>7, <2>8, OthersForward
  <2>10. PICK c \in Process : /\ c.step = "backlog" /\ c.item = implement
                             /\ proc' = [proc EXCEPT ![Creator] = c]
    BY <1>1, <1>5, TwoOfEach, BacklogStep
  <2>11. CreatorOK(c)'
    BY <2>10, TwoOfEach DEF CreatorOK, CoordinatorSteps
  <2> QED
    BY <1>3, <2>1, <2>4, <2>5, <2>6, <2>9, <2>10, <2>11, CreatorGoes DEF WorldInv
<1> QED
  BY <1>4, <1>5 DEF PersistIntakeGraph

\* What became ready without an authorization goes back, or somebody moved it first.
LEMMA MoveToBacklogStep ==
  ASSUME RunInv, NEW p \in {Runner, Creator}, MoveToBacklog(p)
  PROVE  RunInv'
<1>1. /\ DataTypeOK /\ WorldInv /\ RunnerOK(proc[Runner]) /\ CreatorOK(proc[Creator])
      /\ proc[p].step = "backlog"
      /\ UNCHANGED <<mission, evidence, artifact, claimBox, box, agent, version, coding>>
      /\ proc \in [{Runner, Creator} -> Process]
  BY TypeSplit DEF RunInv, MoveToBacklog, At, sessionVars
<1>2. PICK i \in Items : i = Item(p)
  BY <1>1 DEF RunnerOK, PickedStep, PickedSteps, CreatorOK, Item
<1>3. faults' = faults
  BY DEF MoveToBacklog, historyVars
<1>4. /\ lapses \subseteq lapses' /\ lapses' \subseteq lapses \cup {"race"}
      /\ stale' \in BOOLEAN /\ (stale' => stale \/ "race" \in lapses')
      /\ p = Creator /\ proc[Runner].step \in Between => "race" \in lapses'
  <2>1. CASE p = Creator
    BY <1>1, <2>1, InterferesNoted DEF MoveToBacklog
  <2>2. CASE p = Runner
    BY <1>1, <2>2, TwoOfEach DEF MoveToBacklog, historyVars, DataTypeOK
  <2> QED
    BY <2>1, <2>2
<1>5. DataTypeOK'
  BY <1>1, <1>3, <1>4 DEF DataTypeOK
<1>6. CASE status[i] = "ready"
  <2>1. /\ TransitionWorkItem(i, "backlog")
        /\ IF proc[p].saw = "plan" THEN Goto(p, "planned") ELSE Done(p)
    BY <1>2, <1>6 DEF MoveToBacklog
  <2>2. TicketShape' /\ QueueMove(i)
    BY <1>1, <1>6, <2>1, RevokeTicket DEF WorldInv
  <2>3. /\ WorldInv' /\ CreatorForward /\ \A j \in Items : Quiet(j) \/ Stirred(j)
        /\ ~(status[inspect] = "done" /\ status[implement] = "absent")
           \/ status'[implement] = "absent"
    BY <1>1, <1>4, <2>2, QueueWorld
  <2>4. CASE p = Creator
    <3>1. RunnerForward(proc[Runner])
      BY <1>1, <1>4, <2>3, <2>4, OthersForward DEF Found, Between
    <3>2. CASE Goto(Creator, "planned")
      <4>1. PICK c \in Process : c.step = "planned" /\ proc' = [proc EXCEPT ![Creator] = c]
        BY <3>2, GotoStep DEF RunInv, Steps
      <4>2. CreatorOK(c)'
        BY <4>1 DEF CreatorOK, CoordinatorSteps
      <4> QED
        BY <1>5, <2>3, <3>1, <4>1, <4>2, CreatorGoes
    <3>3. CASE CreationEnds(TRUE)
      BY <1>5, <2>3, <3>1, <3>3, CreationEnded
    <3> QED
      BY <2>1, <2>4, <3>2, <3>3 DEF Done
  <2>5. CASE p = Runner
    <3>1. PICK r \in Process : r.step \in Plain /\ proc' = [proc EXCEPT ![Runner] = r]
      <4>1. CASE Goto(Runner, "planned")
        BY <4>1, GotoStep DEF RunInv, Steps, Plain
      <4>2. CASE Ends
        BY <4>2, EndStep
      <4> QED
        BY <2>1, <2>5, <4>1, <4>2, TwoOfEach DEF Done
    <3>2. UnfinishedStep(r)'
      BY <1>1, <1>4, <2>3, <2>5, StirredUnfinished DEF RunnerOK
    <3>3. RunnerOK(r)'
      BY <3>1, <3>2, PlainStep DEF Plain
    <3> QED
      BY <1>5, <2>3, <3>1, <3>3, RunnerGoes
  <2> QED
    BY <2>4, <2>5
<1>7. CASE status[i] # "ready"
  <2>1. Broken(p) /\ UNCHANGED vars
    BY <1>2, <1>7 DEF MoveToBacklog
  <2>2. LapsesGo
    BY <1>3, <1>4 DEF LapsesGo, Causes
  <2>3. MissionGoes
    BY <1>1, <2>1, <2>2 DEF MissionGoes, OnlyMission, sessionVars, DataTypeOK
  <2>4. CASE p = Creator
    <3>1. CreationEnds(FALSE)
      BY <2>1, <2>4 DEF Broken
    <3> QED
      BY <1>1, <1>4, <2>3, <3>1, CreatorStays
  <2>5. CASE p = Runner
    <3>1. Fails
      BY <2>1, <2>5, TwoOfEach DEF Broken
    <3>2. "race" \in lapses
      BY <1>1, <1>2, <1>7, <2>5 DEF RunnerOK, PickedStep, Item
    <3>3. Cause'
      BY <1>4, <3>2 DEF Cause, Causes
    <3> QED
      BY <1>1, <2>3, <2>5, <3>1, <3>3, RunnerFails
  <2> QED
    BY <2>4, <2>5
<1> QED
  BY <1>6, <1>7

-----------------------------------------------------------------------------
(* The run moves the ticket it works on.                                   *)

\* What every system transition of the run keeps.
LEMMA WorkMoves ==
  ASSUME DataTypeOK, WorldInv, OnlyTickets, NEW i \in Items, NEW t,
         NEW to \in {"proving", "done", "changes_requested", "blocked"},
         status[i] \in Working \/ to = "blocked", TransitionSystemWorkItem(i, t, to)
  PROVE  /\ DataTypeOK' /\ TicketShape' /\ WorkClaimed' /\ OneCapture' /\ CreatorForward
         /\ status' = [status EXCEPT ![i] = to] /\ status \in [Items -> RunStatuses]
         /\ status[i] \notin {"absent", "backlog", "done", "blocked"}
         /\ \A j \in Items : Number(j)' = Number(j)
         /\ \A n : HandedOver(n)' = HandedOver(n) /\ ReviewOf(n)' = ReviewOf(n)
         /\ AgentOK' = AgentOK
         /\ UNCHANGED <<plan, handoff, review, mission, evidence, artifact, claimBox, box, agent,
                        version, coding, lapses, stale>>
<1>1. /\ TicketShape' /\ status' = [status EXCEPT ![i] = to]
      /\ UNCHANGED <<plan, auth, claim, handoff, review>>
      /\ \A j \in Items : Number(j)' = Number(j)
  <2>1. to \in RunStatuses \cap AttemptStatuses
    BY DEF RunStatuses, AttemptStatuses, TicketStatuses
  <2> QED
    BY <2>1, SystemTicket DEF WorldInv
<1>2. /\ UNCHANGED <<mission, evidence, artifact, claimBox, box, agent, version, coding, lapses,
                     stale, faults>>
      /\ AgentOK' = AgentOK
  BY DEF OnlyTickets, sessionVars, historyVars, AgentOK
<1>3. DataTypeOK'
  BY <1>2 DEF DataTypeOK
<1>4. status \in [Items -> RunStatuses]
  BY DEF WorldInv, TicketShape
<1>5. /\ status[i] \notin {"absent", "backlog", "done", "blocked"}
      /\ to # "blocked" => claim[i] # NoOne
  <2>1. LegalSystemEdge(i, t, status[i], to) /\ (to # "blocked" => claim[i] # NoOne)
    BY DEF TransitionSystemWorkItem
  <2> QED
    BY <1>4, <2>1 DEF LegalSystemEdge, ExecutionEdge, RetryEdge, Working
<1>6. WorkClaimed'
  BY <1>1, <1>4, <1>5 DEF WorldInv, WorkClaimed, Working
<1>7. OneCapture'
  BY <1>2 DEF WorldInv, OneCapture
<1>8. CreatorForward
  BY <1>2, <1>5 DEF CreatorForward, Present
<1>9. \A n : HandedOver(n)' = HandedOver(n) /\ ReviewOf(n)' = ReviewOf(n)
  BY <1>1 DEF HandedOver, ReviewOf
<1> QED
  BY <1>1, <1>2, <1>3, <1>4, <1>5, <1>6, <1>7, <1>8, <1>9

\* The run of the inspection moves on: nothing else is on the board.
LEMMA InspectionMoves ==
  ASSUME RunInv, OnlyTickets, NEW to \in {"proving", "done"}, NEW t,
         proc[Runner].item = inspect, status[inspect] \in {"in_progress", "proving"},
         "inspect" \in evidence.proof, TransitionSystemWorkItem(inspect, t, to),
         NEW s \in {"finish", "plan"}, Goto(Runner, s), s = "finish" <=> to = "proving"
  PROVE  RunInv'
<1>1. DataTypeOK /\ WorldInv
  BY TypeSplit DEF RunInv
<1>2. /\ DataTypeOK' /\ TicketShape' /\ WorkClaimed' /\ OneCapture' /\ CreatorForward
      /\ status' = [status EXCEPT ![inspect] = to] /\ status \in [Items -> RunStatuses]
      /\ Number(implement)' = Number(implement)
      /\ \A n : HandedOver(n)' = HandedOver(n) /\ ReviewOf(n)' = ReviewOf(n)
      /\ AgentOK' = AgentOK
      /\ UNCHANGED <<plan, handoff, review, mission, evidence, artifact, claimBox, box, agent,
                     version, coding, lapses, stale>>
  BY <1>1, WorkMoves, TwoOfEach DEF Working
<1>3. /\ status[implement] = "absent" /\ status'[implement] = "absent"
      /\ status'[inspect] = to
  BY <1>1, <1>2, TwoOfEach DEF WorldInv, InspectionFirst
<1>4. InspectionFirst'
  BY <1>1, <1>2, <1>3 DEF WorldInv, InspectionFirst
<1>5. ReviewOrder' /\ EvidenceOfAttempts' /\ BoxBound' /\ AgentKept'
  BY <1>1, <1>2, <1>3 DEF WorldInv, ReviewOrder, EvidenceOfAttempts, BoxBound, AgentKept
<1>6. PICK r \in Process : /\ r.step = s /\ r.item = inspect
                           /\ proc' = [proc EXCEPT ![Runner] = r]
  BY GotoStep DEF RunInv, Steps
<1>7. UnfinishedStep(r)'
  BY <1>3, <1>6 DEF UnfinishedStep, ReworkDue
<1>8. RunnerOK(r)'
  BY <1>2, <1>3, <1>6, <1>7, TwoOfEach DEF RunnerOK, UnfinishedStep, PickedStep,
     PickedSteps, InspectionStep, InspectSteps, CoordinatorSteps, CodingStep, CodingSteps,
     ProofStep, CaptureSteps, ReviewSteps
<1> QED
  BY <1>2, <1>4, <1>5, <1>6, <1>8, RunnerGoes DEF WorldInv

\* The inspection is proved and done.
LEMMA InspectionTicketStep ==
  ASSUME RunInv, ProveInspection \/ FinishInspection
  PROVE  RunInv'
<1>1. RunnerOK(proc[Runner]) /\ DataTypeOK /\ WorldInv
  BY TypeSplit DEF RunInv
<1>2. CASE ProveInspection
  <2>1. /\ proc[Runner].item = inspect /\ status[inspect] = "in_progress"
        /\ "inspect" \in evidence.proof
    BY <1>1, <1>2 DEF RunnerOK, InspectionStep, InspectSteps, ProveInspection, At
  <2>2. Moves(inspect, "execution", "proving")
    BY <1>1, <2>1, TwoOfEach DEF Moves, LegalSystemEdge, ExecutionEdge, WorldInv, WorkClaimed, Working
  <2>3. /\ TransitionSystemWorkItem(inspect, "execution", "proving") /\ Goto(Runner, "finish")
        /\ OnlyTickets
    BY <1>2, <2>1, <2>2 DEF ProveInspection, Advance, Item
  <2> QED
    BY <2>1, <2>3, InspectionMoves
<1>3. CASE FinishInspection
  <2>1. /\ proc[Runner].item = inspect /\ status[inspect] = "proving"
        /\ "inspect" \in evidence.proof
    BY <1>1, <1>3 DEF RunnerOK, InspectionStep, InspectSteps, FinishInspection, At
  <2>2. Moves(inspect, "proof", "done")
    BY <1>1, <2>1, TwoOfEach DEF Moves, LegalSystemEdge, DoneByProof, Implementer, WorldInv,
       InspectionFirst, WorkClaimed, Working
  <2>3. /\ TransitionSystemWorkItem(inspect, "proof", "done") /\ Goto(Runner, "plan")
        /\ OnlyTickets
    BY <1>3, <2>1, <2>2 DEF FinishInspection, Advance, Item
  <2> QED
    BY <2>1, <2>3, InspectionMoves
<1> QED
  BY <1>2, <1>3

\* The implementation goes to review, without a handoff or a finding of its attempt.
LEMMA ProveImplementationStep ==
  ASSUME RunInv, ProveImplementation
  PROVE  RunInv'
<1>1. RunnerOK(proc[Runner]) /\ DataTypeOK /\ WorldInv /\ proc[Runner].step = "proved"
  BY TypeSplit DEF RunInv, ProveImplementation, At
<1>2. /\ proc[Runner].item = implement /\ status[implement] = "in_progress"
      /\ box = "known" => claimBox
  BY <1>1 DEF RunnerOK, CodingStep, CodingSteps
<1>3. Moves(implement, "execution", "proving")
  BY <1>1, <1>2, TwoOfEach DEF Moves, LegalSystemEdge, ExecutionEdge, WorldInv, WorkClaimed, Working
<1>4. /\ TransitionSystemWorkItem(implement, "execution", "proving") /\ Goto(Runner, "recover")
      /\ OnlyTickets
  BY <1>2, <1>3 DEF ProveImplementation, Advance, Item
<1>5. /\ DataTypeOK' /\ TicketShape' /\ WorkClaimed' /\ OneCapture' /\ CreatorForward
      /\ status' = [status EXCEPT ![implement] = "proving"] /\ status \in [Items -> RunStatuses]
      /\ Number(implement)' = Number(implement)
      /\ \A n : HandedOver(n)' = HandedOver(n) /\ ReviewOf(n)' = ReviewOf(n)
      /\ AgentOK' = AgentOK
      /\ UNCHANGED <<plan, handoff, review, mission, evidence, artifact, claimBox, box, agent,
                     version, coding, lapses, stale>>
  BY <1>1, <1>2, <1>4, WorkMoves, TwoOfEach DEF Working
<1>6. status'[implement] = "proving" /\ status'[inspect] = status[inspect]
  BY <1>5, TwoOfEach
<1>7. InspectionFirst'
  BY <1>1, <1>2, <1>5, <1>6 DEF WorldInv, InspectionFirst
<1>8. ReviewOrder' /\ EvidenceOfAttempts' /\ BoxBound' /\ AgentKept'
  BY <1>1, <1>2, <1>5, <1>6 DEF WorldInv, ReviewOrder, EvidenceOfAttempts, BoxBound, AgentKept
<1>9. PICK r \in Process : /\ r.step = "recover" /\ r.item = implement
                           /\ proc' = [proc EXCEPT ![Runner] = r]
  BY <1>2, <1>4, GotoStep DEF RunInv, Steps
<1>10. status[inspect] # "proving" /\ Number(implement) \notin evidence.failed
  BY <1>1, <1>2 DEF WorldInv, InspectionFirst, EvidenceOfAttempts
<1>11. UnfinishedStep(r)'
  BY <1>5, <1>6, <1>10 DEF UnfinishedStep, ReworkDue
<1>12. RunnerOK(r)'
  BY <1>5, <1>6, <1>9, <1>11, TwoOfEach DEF RunnerOK, UnfinishedStep, PickedStep,
     PickedSteps, InspectionStep, InspectSteps, CoordinatorSteps, CodingStep, CodingSteps,
     ProofStep, CaptureSteps, ReviewSteps
<1> QED
  BY <1>5, <1>7, <1>8, <1>9, <1>12, RunnerGoes DEF WorldInv

\* The planned graph is that of the inspection and of the implementation.
LEMMA PersistInspectedGraphStep ==
  ASSUME RunInv, PersistInspectedGraph
  PROVE  RunInv'
<1>1. /\ RunnerOK(proc[Runner]) /\ DataTypeOK /\ WorldInv /\ proc[Runner].step = "plan"
      /\ UNCHANGED <<mission, evidence, artifact, claimBox, box, agent, version, coding>>
  BY TypeSplit DEF RunInv, PersistInspectedGraph, At, sessionVars
<1>2. /\ status[inspect] = "done" /\ status[implement] = "absent" /\ "inspect" \in evidence.proof
  BY <1>1 DEF RunnerOK, InspectionStep
<1>3. CASE PlanningFails /\ UNCHANGED vars
  <2>1. LapsesGo /\ Cause' /\ Fails
    BY <1>1, <1>3, LapseNoted, TwoOfEach DEF PlanningFails, RemoteFailure, Broken, Causes
  <2>2. MissionGoes
    BY <1>1, <1>3, <2>1 DEF MissionGoes, DataTypeOK, OnlyMission, sessionVars
  <2> QED
    BY <1>1, <2>1, <2>2, RunnerFails
<1>4. CASE PersistWorkGraph(PlannedGraph) /\ Goto(Runner, "tidy") /\ UNCHANGED historyVars
  <2>1. UNCHANGED <<stale, faults, lapses>> /\ DataTypeOK' /\ AgentOK' = AgentOK
    BY <1>1, <1>4 DEF DataTypeOK, historyVars, AgentOK
  <2>2. /\ TicketShape' /\ plan'[inspect].role # "implementer"
        /\ UNCHANGED <<auth, claim, attempts, handoff, review>>
        /\ \A i \in Items : \/ status'[i] = status[i]
                            \/ status[i] = "absent" /\ status'[i] \in {"backlog", "ready"}
    BY <1>1, <1>4, GraphTicket DEF WorldInv
  <2>3. /\ status'[inspect] = "done"
        /\ status'[implement] \in {"absent", "backlog", "ready"}
    BY <1>2, <2>2, TwoOfEach
  <2>4. GraphKept(implement)
    BY <1>2, <2>2, TwoOfEach DEF GraphKept
  <2>5. /\ \A j \in Items : Quiet(j) \/ Stirred(j)
        /\ WorkClaimed' /\ ReviewOrder' /\ EvidenceOfAttempts' /\ BoxBound' /\ OneCapture'
    BY <1>1, <2>1, <2>4, TwoOfEach, GraphWorld
  <2>6. InspectionFirst'
    BY <1>1, <1>2, <2>2, <2>3 DEF WorldInv, InspectionFirst
  <2>7. AgentKept'
    BY <1>1, <1>2, <2>1, <2>3 DEF WorldInv, AgentKept
  <2>8. CreatorForward
    BY <1>2, TwoOfEach, <1>1 DEF CreatorForward, Present
  <2>9. PICK r \in Process : r.step = "tidy" /\ proc' = [proc EXCEPT ![Runner] = r]
    BY <1>4, GotoStep DEF RunInv, Steps
  <2>10. UnfinishedStep(r)'
    BY <1>1, <2>1, <2>5, StirredUnfinished DEF RunnerOK
  <2>11. RunnerOK(r)'
    BY <2>9, <2>10, PlainStep DEF Plain
  <2> QED
    BY <2>1, <2>2, <2>5, <2>6, <2>7, <2>8, <2>9, <2>11, RunnerGoes DEF WorldInv
<1> QED
  BY <1>3, <1>4 DEF PersistInspectedGraph

\* What was found wrong is sent back for a rework.
LEMMA RequestChangesStep ==
  ASSUME RunInv, RequestChanges
  PROVE  RunInv'
<1>1. /\ RunnerOK(proc[Runner]) /\ DataTypeOK /\ WorldInv /\ proc[Runner].step = "sendback"
      /\ TransitionSystemWorkItem(implement, "proof", "changes_requested") /\ OnlyTickets /\ Ends
  BY TypeSplit DEF RunInv, RequestChanges, At
<1>2. status[implement] = "proving" /\ ~HandedOver(Number(implement))
  BY <1>1 DEF RunnerOK, ProofStep, CaptureSteps
<1>3. /\ DataTypeOK' /\ TicketShape' /\ WorkClaimed' /\ OneCapture' /\ CreatorForward
      /\ status' = [status EXCEPT ![implement] = "changes_requested"]
      /\ status \in [Items -> RunStatuses]
      /\ Number(implement)' = Number(implement)
      /\ \A n : HandedOver(n)' = HandedOver(n) /\ ReviewOf(n)' = ReviewOf(n)
      /\ AgentOK' = AgentOK
      /\ UNCHANGED <<plan, handoff, review, mission, evidence, artifact, claimBox, box, agent,
                     version, coding, lapses, stale>>
  BY <1>1, <1>2, WorkMoves, TwoOfEach DEF Working
<1>4. status'[implement] = "changes_requested" /\ status'[inspect] = status[inspect]
  BY <1>3, TwoOfEach
<1>5. InspectionFirst'
  BY <1>1, <1>2, <1>3, <1>4 DEF WorldInv, InspectionFirst
<1>6. ReviewOrder' /\ EvidenceOfAttempts' /\ BoxBound' /\ AgentKept'
  BY <1>1, <1>2, <1>3, <1>4 DEF WorldInv, ReviewOrder, EvidenceOfAttempts, BoxBound, AgentKept
<1>7. PICK r \in Process : r.step \in Plain /\ proc' = [proc EXCEPT ![Runner] = r]
  BY <1>1, EndStep
<1>8. UnfinishedStep(r)'
  BY <1>1, <1>3, <1>4 DEF RunnerOK, UnfinishedStep, ReworkDue
<1>9. RunnerOK(r)'
  BY <1>7, <1>8, PlainStep DEF Plain
<1> QED
  BY <1>3, <1>5, <1>6, <1>7, <1>9, RunnerGoes DEF WorldInv

\* A ticket is blocked, for the cause that ended its run.
LEMMA BlockTicketStep ==
  ASSUME RunInv, BlockTicket
  PROVE  RunInv'
<1>1. /\ RunnerOK(proc[Runner]) /\ DataTypeOK /\ WorldInv /\ proc[Runner].step = "blockTicket"
      /\ OnlyTickets /\ Goto(Runner, "blockMission")
  BY TypeSplit DEF RunInv, BlockTicket, At
<1>2. PICK i \in Items : i = proc[Runner].item /\ (Cause \/ mission = "blocked")
  BY <1>1 DEF RunnerOK, PickedStep, PickedSteps
<1>3. TransitionSystemWorkItem(i, "failure", "blocked")
  BY <1>2 DEF BlockTicket, Item
<1>4. /\ DataTypeOK' /\ TicketShape' /\ WorkClaimed' /\ OneCapture' /\ CreatorForward
      /\ status' = [status EXCEPT ![i] = "blocked"] /\ status \in [Items -> RunStatuses]
      /\ status[i] \notin {"absent", "backlog", "done", "blocked"}
      /\ Number(implement)' = Number(implement)
      /\ \A n : HandedOver(n)' = HandedOver(n) /\ ReviewOf(n)' = ReviewOf(n)
      /\ AgentOK' = AgentOK
      /\ UNCHANGED <<plan, handoff, review, mission, evidence, artifact, claimBox, box, agent,
                     version, coding, lapses, stale>>
  BY <1>1, <1>3, WorkMoves, TwoOfEach
<1>5. /\ \A j \in Items : status'[j] = status[j] \/ (j = i /\ status'[j] = "blocked")
      /\ i = inspect => status[implement] = "absent"
  BY <1>1, <1>4 DEF WorldInv, InspectionFirst
<1>6. InspectionFirst'
  BY <1>1, <1>4, <1>5, TwoOfEach DEF WorldInv, InspectionFirst
<1>7. ReviewOrder' /\ EvidenceOfAttempts' /\ BoxBound'
  BY <1>1, <1>4, <1>5, TwoOfEach DEF WorldInv, ReviewOrder, Reported, EvidenceOfAttempts, BoxBound
<1>8. AgentKept'
  BY <1>1, <1>4, <1>5, TwoOfEach DEF WorldInv, AgentKept
<1>9. PICK r \in Process : /\ r.step = "blockMission" /\ r.item = i
                           /\ proc' = [proc EXCEPT ![Runner] = r]
  BY <1>1, <1>2, GotoStep DEF RunInv, Steps
<1>10. UnfinishedStep(r)'
  BY <1>1, <1>4, <1>5, TwoOfEach DEF RunnerOK, UnfinishedStep, ReworkDue
<1>11. Cause' \/ mission' = "blocked"
  BY <1>2, <1>4 DEF Cause
<1>12. RunnerOK(r)'
  BY <1>9, <1>10, <1>11 DEF RunnerOK, UnfinishedStep, PickedStep, PickedSteps,
     InspectionStep, InspectSteps, CoordinatorSteps, CodingStep, CodingSteps, ProofStep,
     CaptureSteps, ReviewSteps
<1> QED
  BY <1>4, <1>6, <1>7, <1>8, <1>9, <1>12, RunnerGoes DEF WorldInv

-----------------------------------------------------------------------------
(* The handoff and its review.                                             *)

\* The captured work is handed over.
LEMMA RecordImplementationHandoffStep ==
  ASSUME RunInv, RecordImplementationHandoff
  PROVE  RunInv'
<1>1. /\ RunnerOK(proc[Runner]) /\ DataTypeOK /\ WorldInv /\ proc[Runner].step = "handoff"
      /\ RecordHandoff(implement, 0, TRUE) /\ Goto(Runner, "judge")
      /\ UNCHANGED <<mission, evidence, artifact, claimBox, box, agent, version, coding, stale,
                     faults, lapses>>
  BY TypeSplit DEF RunInv, RecordImplementationHandoff, At, OnlyTickets, sessionVars, historyVars
<1>2. /\ status[implement] = "proving" /\ proc[Runner].item = implement
      /\ ~HandedOver(Number(implement)) /\ claimBox
      /\ artifact.attempt = Number(implement) /\ artifact.files > 0
  BY <1>1 DEF RunnerOK, ProofStep, CaptureSteps
<1>3. /\ TicketShape' /\ handoff'[implement].attempt = Number(implement)
      /\ handoff'[implement].done
      /\ UNCHANGED <<plan, status, auth, claim, review>>
      /\ \A j \in Items : Number(j)' = Number(j)
  BY <1>1, HandoffTicket, TwoOfEach DEF WorldInv
<1>4. /\ Number(implement)' = Number(implement) /\ Number(implement) \in Nat
      /\ ReviewOf(Number(implement))' = ReviewOf(Number(implement))
      /\ HandedOver(Number(implement))' /\ Reported(Number(implement))'
      /\ AgentOK' = AgentOK
  BY <1>1, <1>2, <1>3, NumberType, TwoOfEach
  DEF ReviewOf, HandedOver, Reported, AgentOK, WorldInv
<1>5. DataTypeOK'
  BY <1>1 DEF DataTypeOK
<1>6. WorkClaimed' /\ InspectionFirst'
  BY <1>1, <1>3 DEF WorldInv, WorkClaimed, InspectionFirst
<1>7. ReviewOrder'
  BY <1>1, <1>2, <1>3, <1>4 DEF WorldInv, ReviewOrder
<1>8. EvidenceOfAttempts' /\ BoxBound' /\ OneCapture'
  BY <1>1, <1>3, <1>4 DEF WorldInv, EvidenceOfAttempts, BoxBound, OneCapture
<1>9. AgentOK /\ AgentKept'
  BY <1>1, <1>2, <1>4 DEF WorldInv, AgentKept
<1>10. CreatorForward
  BY <1>1, <1>3, <1>4 DEF CreatorForward, Present
<1>11. PICK r \in Process : /\ r.step = "judge" /\ r.item = implement
                            /\ proc' = [proc EXCEPT ![Runner] = r]
  BY <1>1, <1>2, GotoStep DEF RunInv, Steps
<1>12. UnfinishedStep(r)'
  BY <1>1, <1>3, <1>4 DEF RunnerOK, UnfinishedStep, ReworkDue
<1>13. RunnerOK(r)'
  BY <1>2, <1>3, <1>4, <1>9, <1>11, <1>12, TwoOfEach DEF RunnerOK, UnfinishedStep,
     PickedStep, PickedSteps, InspectionStep, InspectSteps, CoordinatorSteps, CodingStep,
     CodingSteps, ProofStep, CaptureSteps, ReviewSteps
<1> QED
  BY <1>3, <1>5, <1>6, <1>7, <1>8, <1>9, <1>10, <1>11, <1>13, RunnerGoes DEF WorldInv

\* What a review of the handed over attempt leaves, by whoever it is made.
LEMMA ReviewWorld ==
  ASSUME DataTypeOK, DataTypeOK', WorldInv,
         status[implement] = "proving", HandedOver(Number(implement)), AgentOK,
         NEW reviewer \in {Verifier, Waiver},
         NEW outcome \in {"accepted", "changes_requested", "blocked"},
         RecordReview(implement, reviewer, outcome),
         UNCHANGED <<artifact, claimBox, box, agent, version, coding>>,
         lapses \subseteq lapses', evidence'.proof = evidence.proof,
         evidence'.turned = evidence.turned, evidence'.failed = evidence.failed,
         evidence.reviewed \subseteq evidence'.reviewed,
         evidence'.reviewed \subseteq evidence.reviewed \cup {Number(implement)},
         outcome = "changes_requested" => Number(implement) \in evidence'.reviewed,
         evidence.judged \subseteq evidence'.judged,
         evidence'.judged \subseteq evidence.judged \cup {Number(implement)},
         outcome = "accepted" => \/ Number(implement) \in evidence'.judged
                                 \/ /\ Number(implement) - 1 \in 1..Number(implement)
                                    /\ Number(implement) - 1 \in evidence'.reviewed
                                    /\ SentBack(Number(implement) - 1)
  PROVE  /\ WorldInv' /\ CreatorForward /\ AgentOK'
         /\ outcome = "accepted" => status'[implement] = "awaiting_approval"
         /\ outcome # "accepted" => status'[implement] = outcome
         /\ \A q : UnfinishedStep(q) /\ q.step \notin {"sendback", "finish"}
                     => \A r : UnfinishedStep(r)'
<1>1. /\ TicketShape'
      /\ outcome = "accepted" => status'[implement] = "awaiting_approval"
      /\ outcome # "accepted" => status'[implement] = outcome
      /\ review'[implement].attempt = Number(implement) /\ review'[implement].outcome = outcome
      /\ UNCHANGED <<plan, auth, claim, handoff>>
      /\ \A j \in Items : Number(j)' = Number(j)
      /\ \A k \in 1..(Number(implement) - 1) : attempts'[implement][k] = attempts[implement][k]
      /\ \A j \in Items \ {implement} : Quiet(j)
  BY ReviewTicket, TwoOfEach DEF WorldInv
<1>2. /\ Number(implement)' = Number(implement) /\ Number(implement) \in Nat
      /\ \A n : HandedOver(n)' = HandedOver(n) /\ Reported(n)' = Reported(n)
      /\ Number(implement) \in 1..Number(implement)
      /\ status'[inspect] = status[inspect]
  BY <1>1, CurrentAttempt, TwoOfEach DEF HandedOver, Reported, Working, Quiet
<1>3. AgentOK'
  BY DEF AgentOK
<1>4. WorkClaimed'
  BY <1>1, TwoOfEach DEF WorldInv, WorkClaimed, Quiet, Working
<1>5. InspectionFirst'
  BY <1>1, <1>2 DEF WorldInv, InspectionFirst
<1>6. ReviewOrder'
  <2>1. handoff'[implement].attempt <= Number(implement)' /\ review'[implement].attempt <= Number(implement)'
    BY <1>1, <1>2 DEF WorldInv, ReviewOrder
  <2>2. Reported(Number(implement))
    BY DEF WorldInv, ReviewOrder
  <2>3. outcome = "accepted" =>
          \/ Number(implement) \in evidence'.judged
          \/ /\ Number(implement) - 1 \in evidence'.reviewed
             /\ SentBack(Number(implement) - 1)'
    <3>1. SUFFICES ASSUME Number(implement) - 1 \in 1..Number(implement),
                          SentBack(Number(implement) - 1)
                   PROVE  SentBack(Number(implement) - 1)'
      OBVIOUS
    <3>2. Number(implement) - 1 \in 1..(Number(implement) - 1)
      BY <1>2, <3>1
    <3> QED
      BY <1>1, <1>2, <3>1, <3>2 DEF SentBack
  <2> QED
    BY <1>1, <1>2, <2>1, <2>2, <2>3 DEF ReviewOrder
<1>7. EvidenceOfAttempts' /\ BoxBound' /\ OneCapture'
  BY <1>1, <1>2 DEF WorldInv, EvidenceOfAttempts, BoxBound, OneCapture
<1>8. AgentKept'
  BY <1>3 DEF AgentKept
<1>9. CreatorForward
  BY <1>1, <1>3, TwoOfEach DEF CreatorForward, Present
<1>10. ASSUME NEW q, UnfinishedStep(q), q.step \notin {"sendback", "finish"}, NEW r
       PROVE  UnfinishedStep(r)'
  BY <1>1, <1>2, <1>10 DEF UnfinishedStep, ReworkDue
<1> QED
  BY <1>1, <1>3, <1>4, <1>5, <1>6, <1>7, <1>8, <1>9, <1>10 DEF WorldInv

\* A rework that a human asked for needs no other review; another one is reviewed.
LEMMA JudgeImplementationStep ==
  ASSUME RunInv, JudgeImplementation
  PROVE  RunInv'
<1>1. /\ RunnerOK(proc[Runner]) /\ DataTypeOK /\ WorldInv /\ proc[Runner].step = "judge"
      /\ UNCHANGED <<mission, evidence, artifact, claimBox, box, agent, version, coding>>
  BY TypeSplit DEF RunInv, JudgeImplementation, Unreviewable, At, sessionVars
<1>2. /\ status[implement] = "proving" /\ proc[Runner].item = implement
      /\ HandedOver(Number(implement)) /\ AgentOK
  BY <1>1 DEF RunnerOK, ProofStep, ReviewSteps
<1>3. CASE /\ Waived(Number(implement)) /\ UNCHANGED historyVars
           /\ RecordReview(implement, Waiver, "accepted") /\ Goto(Runner, "approval")
  <2>1. UNCHANGED <<stale, faults, lapses>> /\ DataTypeOK'
    BY <1>1, <1>3 DEF historyVars, DataTypeOK
  <2>2. /\ Number(implement) - 1 \in evidence.reviewed /\ SentBack(Number(implement) - 1)
        /\ Number(implement) - 1 \in 1..Number(implement)
    <3>1. /\ Number(implement) - 1 \in evidence.reviewed /\ SentBack(Number(implement) - 1)
      BY <1>1, <1>3 DEF Waived, ReviewOf, WorldInv, ReviewOrder
    <3>2. Number(implement) \in Nat /\ Number(implement) > 1
      BY <1>1, <1>2, <1>3, CurrentAttempt DEF Waived, Working
    <3> QED
      BY <3>1, <3>2
  <2>3. /\ WorldInv' /\ CreatorForward /\ status'[implement] = "awaiting_approval"
        /\ \A q : UnfinishedStep(q) /\ q.step \notin {"sendback", "finish"}
                    => \A r : UnfinishedStep(r)'
    BY <1>1, <1>2, <1>3, <2>1, <2>2, ReviewWorld
  <2>4. PICK r \in Process : /\ r.step = "approval" /\ r.item = implement
                             /\ proc' = [proc EXCEPT ![Runner] = r]
    BY <1>2, <1>3, GotoStep DEF RunInv, Steps
  <2>5. UnfinishedStep(r)'
    BY <1>1, <2>3 DEF RunnerOK
  <2>6. RunnerOK(r)'
    BY <2>3, <2>4, <2>5, TwoOfEach DEF RunnerOK, UnfinishedStep, PickedStep, PickedSteps,
       InspectionStep, InspectSteps, CoordinatorSteps, CodingStep, CodingSteps, ProofStep,
       CaptureSteps, ReviewSteps
  <2> QED
    BY <2>1, <2>3, <2>4, <2>6, RunnerGoes
<1>4. CASE /\ proc' = [proc EXCEPT ![Runner].step = "review", ![Runner].ok = TRUE]
           /\ UNCHANGED <<vars, historyVars>>
  <2>1. OnlyMission /\ mission' = mission /\ LapsesGo
    BY <1>1, <1>4, LapseNoted DEF OnlyMission, sessionVars
  <2>2. MissionGoes
    BY <1>1, <2>1 DEF MissionGoes, DataTypeOK
  <2> DEFINE w == [proc[Runner] EXCEPT !.step = "review"]
             r == [w EXCEPT !.ok = TRUE]
  <2>3. proc[Runner] \in Process /\ proc \in [{Runner, Creator} -> Process]
    BY TypeSplit DEF RunInv
  <2>4. w \in Process /\ w.step = "review" /\ w.item = implement
    BY <1>2, <2>3 DEF Process, Steps
  <2>5. r \in Process /\ r.step = "review" /\ r.item = implement
    BY <2>4 DEF Process
  <2>6. proc' = [proc EXCEPT ![Runner] = r]
    BY <1>4, <2>3
  <2> HIDE DEF r, w
  <2>7. UnfinishedStep(r)
    BY <1>1 DEF RunnerOK, UnfinishedStep
  <2>8. RunnerOK(r)
    BY <1>2, <2>5, <2>7, TwoOfEach DEF RunnerOK, UnfinishedStep, PickedStep, PickedSteps,
       InspectionStep, InspectSteps, CoordinatorSteps, CodingStep, CodingSteps, ProofStep,
       CaptureSteps, ReviewSteps
  <2> QED
    BY <1>4, <2>1, <2>2, <2>5, <2>6, <2>8, RunnerStays DEF historyVars
<1>5. CASE Unreviewable("judge") /\ UNCHANGED vars
  <2>1. OnlyMission /\ mission' = mission /\ LapsesGo /\ Cause' /\ Fails
    BY <1>1, <1>5, LapseNoted DEF OnlyMission, sessionVars, Unreviewable, Causes
  <2>2. MissionGoes
    BY <1>1, <2>1 DEF MissionGoes, DataTypeOK
  <2> QED
    BY <1>1, <2>1, <2>2, RunnerFails
<1> QED
  BY <1>3, <1>4, <1>5 DEF JudgeImplementation

\* The review decides what becomes of the attempt.
LEMMA ReviewImplementationStep ==
  ASSUME RunInv, ReviewImplementation
  PROVE  RunInv'
<1>1. /\ RunnerOK(proc[Runner]) /\ DataTypeOK /\ WorldInv /\ proc[Runner].step = "restored"
      /\ UNCHANGED <<mission, artifact, claimBox, box, agent, version, coding>>
      /\ proc[Runner].item = implement
  BY TypeSplit DEF RunInv, ReviewImplementation, At, sessionVars, Reviews, Item
<1>2. /\ status[implement] = "proving" /\ HandedOver(Number(implement)) /\ AgentOK
  BY <1>1 DEF RunnerOK, ProofStep, InspectionStep, CoordinatorSteps
<1>3. PICK outcome \in {"accepted", "changes_requested", "blocked"} :
        /\ RecordReview(implement, Verifier, outcome)
        /\ outcome = "accepted" => proc[Runner].ok
        /\ evidence' = [evidence EXCEPT
             !.reviewed = @ \cup {Number(implement)},
             !.judged = IF proc[Runner].ok THEN @ \cup {Number(implement)} ELSE @]
        /\ IF outcome = "accepted" THEN Goto(Runner, "approval") /\ UNCHANGED historyVars
           ELSE IF outcome = "blocked" /\ proc[Runner].saw # "resumed" THEN Fails /\ Lapse("verdict")
           ELSE Ends /\ UNCHANGED historyVars
  BY DEF ReviewImplementation, Verdicts, Decisions
<1>4. Number(implement) \in 1..MaxAttempts[implement]
  BY <1>1, <1>2, CurrentAttempt DEF Working
<1>5. /\ evidence' \in [proof: SUBSET {"intake", "inspect"},
                        turned: SUBSET (1..MaxAttempts[implement]),
                        failed: SUBSET (1..MaxAttempts[implement]),
                        reviewed: SUBSET (1..MaxAttempts[implement]),
                        judged: SUBSET (1..MaxAttempts[implement])]
      /\ evidence'.reviewed = evidence.reviewed \cup {Number(implement)}
      /\ evidence'.judged = IF proc[Runner].ok THEN evidence.judged \cup {Number(implement)}
                            ELSE evidence.judged
      /\ evidence'.proof = evidence.proof /\ evidence'.turned = evidence.turned
      /\ evidence'.failed = evidence.failed
  BY <1>1, <1>3, <1>4 DEF DataTypeOK
<1>6. /\ lapses \subseteq lapses' /\ stale' = stale /\ LapsesGo
      /\ outcome = "blocked" /\ proc[Runner].saw # "resumed" => Cause'
  BY <1>1, <1>3, LapseNoted DEF Causes
<1>7. DataTypeOK'
  BY <1>1, <1>5, <1>6 DEF DataTypeOK, LapsesGo, Causes
<1>8. /\ WorldInv' /\ CreatorForward
      /\ outcome = "accepted" => status'[implement] = "awaiting_approval"
      /\ \A q : UnfinishedStep(q) /\ q.step \notin {"sendback", "finish"}
                  => \A r : UnfinishedStep(r)'
  BY <1>1, <1>2, <1>3, <1>5, <1>6, <1>7, ReviewWorld
<1>9. PICK q : q = proc[Runner] /\ UnfinishedStep(q) /\ q.step \notin {"sendback", "finish"}
  BY <1>1 DEF RunnerOK
<1>10. \A r : UnfinishedStep(r)'
  BY <1>8, <1>9
<1>11. CASE outcome = "accepted"
  <2>1. PICK r \in Process : /\ r.step = "approval" /\ r.item = implement
                             /\ proc' = [proc EXCEPT ![Runner] = r]
    BY <1>1, <1>3, <1>11, GotoStep DEF RunInv, Steps
  <2>2. RunnerOK(r)'
    BY <1>8, <1>10, <1>11, <2>1, TwoOfEach DEF RunnerOK, UnfinishedStep, PickedStep,
       PickedSteps, InspectionStep, InspectSteps, CoordinatorSteps, CodingStep,
       CodingSteps, ProofStep, CaptureSteps, ReviewSteps
  <2> QED
    BY <1>7, <1>8, <2>1, <2>2, RunnerGoes
<1>12. CASE outcome # "accepted"
  <2>1. PICK r \in Process : /\ r.step \in Plain \/ (r.step = "block" /\ Cause')
                             /\ proc' = [proc EXCEPT ![Runner] = r]
    <3>1. CASE Ends
      BY <3>1, EndStep
    <3>2. CASE Fails /\ Cause'
      BY <3>2, EndStep
    <3> QED
      BY <1>3, <1>6, <1>12, <3>1, <3>2
  <2>2. RunnerOK(r)'
    BY <1>10, <2>1, PlainStep DEF Plain
  <2> QED
    BY <1>7, <1>8, <2>1, <2>2, RunnerGoes
<1> QED
  BY <1>11, <1>12

\* What is orphaned is nobody's.
LEMMA OrphansOnly ==
  ASSUME Orphaned, NEW t \in coding', coding \subseteq Turn
  PROVE  t.by # Runner
<1>1. PICK u \in coding : t = [u EXCEPT !.by = Nobody]
  BY DEF Orphaned
<1>2. t.by = Nobody
  BY <1>1 DEF Turn
<1> QED
  BY <1>2, TwoOfEach

-----------------------------------------------------------------------------
(* The invariant.                                                          *)

\* The board is empty and nothing is under way.
LEMMA RunInitial == RunInit => RunInv
<1> SUFFICES ASSUME RunInit PROVE RunInv
  OBVIOUS
<1>1. /\ mission = "none" /\ claimBox = FALSE /\ box = "none" /\ agent = MissionAgent
      /\ evidence = [proof |-> {}, turned |-> {}, failed |-> {}, reviewed |-> {},
                     judged |-> {}]
      /\ artifact = [attempt |-> 0, diff |-> 0, files |-> 0, shown |-> FALSE]
      /\ version = 0 /\ coding = {} /\ stale = FALSE /\ faults = 0 /\ lapses = {}
      /\ proc = [p \in {Runner, Creator} |-> Idle]
  BY DEF RunInit
<1>2. /\ \A i \in Items : /\ status[i] = "absent" /\ attempts[i] = <<>> /\ plan[i] = NoPlan
                          /\ handoff[i].attempt = 0 /\ ~handoff[i].done
                          /\ review[i].attempt = 0 /\ review[i].outcome = "none"
      /\ Present = {}
  BY DEF RunInit, Init, Present
<1>3. TicketShape
  <2>1. NoPlan \in Plan
    BY DEF NoPlan, Plan
  <2>2. \A i \in Items : /\ [thread |-> 0, owner |-> NoOne, status |-> "none"] \in Delegation
                         /\ [id |-> 0, attempt |-> 0, thread |-> 0, done |-> FALSE] \in Handoff
                         /\ [handoff |-> 0, attempt |-> 0, reviewer |-> NoOne,
                             outcome |-> "none"] \in RunReview
    BY DEF Delegation, Handoff, RunReview
  <2>3. <<>> \in Seq(Attempt)
    BY EmptySeq
  <2>4. /\ plan \in [Items -> Plan] /\ status \in [Items -> RunStatuses]
        /\ auth \in [Items -> Nat] /\ granted \in [Items -> Nat]
        /\ claim \in [Items -> Owners \cup {NoOne}] /\ requested \in [Items -> SUBSET Nat]
    BY <2>1 DEF RunInit, Init, RunStatuses
  <2>5. attempts \in [Items -> Seq(Attempt)]
    BY <2>3 DEF RunInit, Init
  <2>6. delegation \in [Items -> Delegation] /\ handoff \in [Items -> Handoff]
        /\ review \in [Items -> RunReview]
    BY <2>2 DEF RunInit, Init
  <2> QED
    BY <2>4, <2>5, <2>6 DEF TicketShape
<1>4. DataTypeOK
  <2>1. 0 \in 0..MaxAttempts[implement] /\ 0 \in 0..MaxEdits /\ 0 \in 0..MaxFaults
    BY TwoOfEach
  <2>2. artifact \in [attempt: 0..MaxAttempts[implement], diff: 0..MaxEdits,
                     files: 0..MaxEdits, shown: BOOLEAN]
    BY <1>1, <2>1
  <2> QED
    BY <1>1, <2>1, <2>2 DEF DataTypeOK
<1>5. \A i \in Items : Number(i) = 0
  BY <1>2, <1>3, NumberType
<1>6. WorkClaimed
  <2>1. \A i \in Items : MaxAttempts[i] \in Nat
    BY TwoOfEach
  <2>2. ASSUME NEW i \in Items PROVE Number(i) <= MaxAttempts[i]
    <3>1. Number(i) = 0 /\ MaxAttempts[i] \in Nat
      BY <1>5, <2>1
    <3> QED
      BY <3>1
  <2> QED
    BY <1>2, <2>2 DEF WorkClaimed, Working
<1>7. InspectionFirst
  BY <1>1, <1>2, TwoOfEach DEF InspectionFirst, NoPlan
<1>8. ReviewOrder
  BY <1>2, <1>5, TwoOfEach DEF ReviewOrder
<1>9. EvidenceOfAttempts /\ BoxBound /\ OneCapture /\ AgentKept
  BY <1>1, <1>2, <1>5, TwoOfEach DEF EvidenceOfAttempts, BoxBound, OneCapture, AgentKept, AgentOK
<1>10. proc \in [{Runner, Creator} -> Process] /\ proc[Runner] = Idle /\ proc[Creator] = Idle
  BY <1>1, IdleStep
<1>11. UnfinishedStep(Idle)
  BY <1>2, TwoOfEach DEF UnfinishedStep, ReworkDue
<1>12. RunnerOK(Idle)
  BY <1>11, IdleStep, PlainStep DEF Plain
<1> QED
  BY <1>3, <1>4, <1>6, <1>7, <1>8, <1>9, <1>10, <1>12, IdleStep, TypeSplit DEF RunInv, WorldInv

\* Every step of the creation.
LEMMA CreateStep ==
  ASSUME RunInv, Create
  PROVE  RunInv'
BY FindMissionStep, CreateDraftStep, PersistPreflightGraphStep, PersistIntakeGraphStep,
   FinishPlanningStep
DEF Create

\* Every step of the run.
LEMMA RunStep ==
  ASSUME RunInv, Run
  PROVE  RunInv'
<1>1. CASE \/ NextQueueWorkItem \/ PrepareMissionForExecution \/ Dispatch
           \/ ClaimForExecution \/ ClaimReadyWorkItem \/ BindExecution
  BY <1>1, NextQueueWorkItemStep, PrepareMissionStep, DispatchStep, ClaimForExecutionStep,
     ClaimReadyWorkItemStep, BindExecutionStep
<1>2. CASE \/ ExecuteRepositoryInspection \/ ProveInspection \/ FinishInspection
           \/ PersistInspectedGraph \/ ExecuteImplementation
  BY <1>2, ExecuteStep, InspectionTicketStep, PersistInspectedGraphStep
<1>3. CASE \/ StartTurn \/ AttachSandbox \/ AttachExecution \/ RequirePassedTurn
           \/ ProveImplementation \/ RecoverCheckpoint
  BY <1>3, StartTurnStep, AttachStep, RequirePassedTurnStep, ProveImplementationStep,
     RecoverCheckpointStep
<1>4. CASE \/ CaptureDiff \/ CaptureFiles \/ RequestChanges \/ RecordImplementationHandoff
           \/ JudgeImplementation \/ GetReviewContext \/ ReviewImplementation
  BY <1>4, CaptureDiffStep, CaptureFilesStep, RequestChangesStep, RecordImplementationHandoffStep,
     JudgeImplementationStep, GetReviewContextStep, ReviewImplementationStep
<1>5. CASE EnsureApproval \/ BlockActiveWork \/ BlockTicket \/ BlockMission
  BY <1>5, EnsureApprovalStep, BlockActiveWorkStep, BlockTicketStep, BlockMissionStep
<1> QED
  BY <1>1, <1>2, <1>3, <1>4, <1>5 DEF Run

\* Every step of a process that was started.
LEMMA ContinueStep ==
  ASSUME RunInv, NEW p \in {Runner, Creator}, Continue(p)
  PROVE  RunInv'
<1>1. CASE p = Creator /\ Create
  BY <1>1, CreateStep
<1>2. CASE p = Runner /\ Run
  BY <1>2, RunStep
<1>3. CASE EnsureWorkItems(p) \/ MoveToBacklog(p)
  BY <1>3, EnsureWorkItemsStep, MoveToBacklogStep
<1>4. CASE BoundAgent(p) \/ CoordinatorTurn(p) \/ RestoreAgent(p)
  BY <1>4, BoundAgentStep, CoordinatorTurnStep, RestoreAgentStep
<1>5. CASE InspectionPassed(p) \/ InspectionFailed(p)
  BY <1>5, InspectionPassedStep, InspectionFailedStep
<1> QED
  BY <1>1, <1>2, <1>3, <1>4, <1>5 DEF Continue

\* A step that changes nothing.
LEMMA StutterStep ==
  ASSUME RunInv, UNCHANGED runVars
  PROVE  RunInv'
<1>1. /\ UNCHANGED <<vars, mission, evidence, artifact, claimBox, box, agent, version, coding,
                     proc, stale, faults, lapses>>
  BY DEF runVars, sessionVars, historyVars
<1>2. DataTypeOK /\ DataTypeOK'
  BY <1>1, TypeSplit DEF RunInv, DataTypeOK
<1>3. MissionGoes
  BY <1>1, <1>2 DEF MissionGoes, OnlyMission, LapsesGo, sessionVars, DataTypeOK
<1>4. WorldInv' /\ CreatorForward
  BY <1>2, <1>3, SameWorld DEF RunInv
<1>5. RunnerForward(proc[Runner])
  BY <1>1, <1>2, <1>3, ForwardHere
<1> QED
  BY <1>1, <1>2, <1>4, <1>5, OthersAct

\* Every step keeps the invariant.
LEMMA RunInductive == RunInv /\ [RunNext]_runVars => RunInv'
<1> SUFFICES ASSUME RunInv, [RunNext]_runVars PROVE RunInv'
  OBVIOUS
<1>1. CASE \E kind \in {"open", "plan"} : CreateMission(kind)
  BY <1>1, CreateMissionStep DEF CreateMission
<1>2. CASE RunPrimaryMission
  BY <1>2, RunPrimaryMissionStep
<1>3. CASE \E p \in {Runner, Creator} : Continue(p)
  BY <1>3, ContinueStep
<1>4. CASE \E t \in coding : MakeSandbox(t) \/ Edit(t) \/ OrphanEnds(t)
  BY <1>4, TurnWorksStep
<1>5. CASE CodingTurn
  BY <1>5, TurnEndsStep DEF CodingTurn
<1>6. CASE StreamBreaks
  BY <1>6, StreamBreaksStep
<1>7. CASE \E i \in Items : Authorize(i) \/ Revoke(i) \/ (\E o \in Rivals : ClaimPrimaryTicket(i, o))
  BY <1>7, HumanStep, ClaimPrimaryTicketStep
<1>8. CASE Crash
  BY <1>8, CrashStep
<1>9. CASE UNCHANGED runVars
  BY <1>9, StutterStep
<1> QED
  BY <1>1, <1>2, <1>3, <1>4, <1>5, <1>6, <1>7, <1>8, <1>9 DEF RunNext

\* The invariant holds of every run of the controller.
LEMMA RunInvariant == RunSpec => []RunInv
BY RunInitial, RunInductive, PTL DEF RunSpec

-----------------------------------------------------------------------------
(* What the steps do to the mission and to the turns.                      *)

\* The mission is only blocked where an inspection failed or a run gave up.
LEMMA MissionMoves ==
  ASSUME RunNext
  PROVE  \/ mission' = mission \/ mission' # "blocked" \/ BlockMission
         \/ \E p \in {Runner, Creator} : InspectionFailed(p)
<1>1. CASE \/ \E kind \in {"open", "plan"} : CreateMission(kind)
           \/ RunPrimaryMission
  BY <1>1 DEF CreateMission, RunPrimaryMission, Local, Store
<1>2. CASE \E p \in {Runner, Creator} : Continue(p)
  <2>1. PICK p \in {Runner, Creator} : Continue(p)
    BY <1>2
  <2>2. CASE Create
    BY <2>2 DEF Create, FindMission, ResolveSession, CreateDraft, PersistPreflightGraph,
       PersistIntakeGraph, FinishPlanning, Local, Store, OnlyTickets
  <2>3. CASE Run
    <3>1. CASE \/ NextQueueWorkItem \/ PrepareMissionForExecution \/ Dispatch
               \/ ClaimForExecution \/ ClaimReadyWorkItem \/ BindExecution
               \/ ExecuteRepositoryInspection \/ ProveInspection \/ FinishInspection
               \/ PersistInspectedGraph \/ ExecuteImplementation
      BY <3>1 DEF NextQueueWorkItem, PrepareMissionForExecution, Prepared, Dispatch,
         ClaimForExecution, ClaimReadyWorkItem, BindExecution, ExecuteRepositoryInspection,
         ProveInspection, FinishInspection, Advance, PersistInspectedGraph, ExecuteImplementation,
         Local, Store, OnlyTickets
    <3>2. CASE \/ StartTurn \/ AttachSandbox \/ AttachExecution \/ RequirePassedTurn
               \/ ProveImplementation \/ RecoverCheckpoint \/ CaptureDiff \/ CaptureFiles
               \/ RequestChanges \/ RecordImplementationHandoff \/ JudgeImplementation
               \/ GetReviewContext \/ ReviewImplementation
      BY <3>2 DEF StartTurn, AttachSandbox, AttachExecution, RequirePassedTurn,
         ProveImplementation, Advance, RecoverCheckpoint, CaptureDiff, CaptureFiles,
         RequestChanges, RecordImplementationHandoff, JudgeImplementation, GetReviewContext,
         ReviewImplementation, Local, Store, OnlyTickets, OnlyEvidence
    <3>3. CASE EnsureApproval \/ BlockActiveWork \/ BlockTicket \/ BlockMission
      BY <3>3 DEF EnsureApproval, BlockActiveWork, BlockTicket, Local, Store, OnlyTickets
    <3> QED
      BY <2>3, <3>1, <3>2, <3>3 DEF Run
  <2>4. CASE \/ EnsureWorkItems(p) \/ MoveToBacklog(p) \/ BoundAgent(p) \/ CoordinatorTurn(p)
             \/ RestoreAgent(p) \/ InspectionPassed(p)
    BY <2>4 DEF EnsureWorkItems, MoveToBacklog, BoundAgent, CoordinatorTurn, RestoreAgent,
       InspectionPassed, Local, Store, OnlyEvidence
  <2> QED
    BY <2>1, <2>2, <2>3, <2>4 DEF Continue
<1>3. CASE \/ \E t \in coding : MakeSandbox(t) \/ Edit(t) \/ OrphanEnds(t)
           \/ CodingTurn \/ StreamBreaks \/ Crash
  BY <1>3 DEF MakeSandbox, Edit, OrphanEnds, CodingTurn, TurnEnds, StreamBreaks, Crash, Store
<1>4. CASE \E i \in Items : Authorize(i) \/ Revoke(i) \/ (\E o \in Rivals : ClaimPrimaryTicket(i, o))
  BY <1>4 DEF Authorize, Revoke, ClaimPrimaryTicket, Others
<1> QED
  BY <1>1, <1>2, <1>3, <1>4 DEF RunNext

\* A turn that nobody followed before is one that the run starts, or nobody's any more.
LEMMA TurnMoves ==
  ASSUME coding \subseteq Turn, RunNext, NEW t \in coding' \ coding, t.by = Runner
  PROVE  StartTurn
<1>1. CASE \/ \E kind \in {"open", "plan"} : CreateMission(kind)
           \/ RunPrimaryMission
  BY <1>1 DEF CreateMission, RunPrimaryMission, Local, sessionVars
<1>2. CASE \E p \in {Runner, Creator} : Continue(p)
  <2>1. PICK p \in {Runner, Creator} : Continue(p)
    BY <1>2
  <2>2. CASE Create
    BY <2>2 DEF Create, FindMission, ResolveSession, CreateDraft, PersistPreflightGraph,
       PersistIntakeGraph, FinishPlanning, Local, OnlyMission, sessionVars, OnlyTickets
  <2>3. CASE Run
    <3>1. CASE \/ NextQueueWorkItem \/ PrepareMissionForExecution \/ Dispatch
               \/ ClaimForExecution \/ ClaimReadyWorkItem \/ BindExecution
               \/ ExecuteRepositoryInspection \/ ProveInspection \/ FinishInspection
               \/ PersistInspectedGraph \/ ExecuteImplementation
      BY <3>1 DEF NextQueueWorkItem, PrepareMissionForExecution, Dispatch,
         ClaimForExecution, ClaimReadyWorkItem, BindExecution, ExecuteRepositoryInspection,
         ProveInspection, FinishInspection, Advance, PersistInspectedGraph, ExecuteImplementation,
         Local, OnlyMission, sessionVars, OnlyTickets
    <3>2. CASE \/ AttachSandbox \/ AttachExecution \/ RequirePassedTurn
               \/ ProveImplementation \/ RecoverCheckpoint \/ CaptureDiff \/ CaptureFiles
               \/ RequestChanges \/ RecordImplementationHandoff \/ JudgeImplementation
               \/ GetReviewContext \/ ReviewImplementation
      BY <3>2 DEF AttachSandbox, AttachExecution, RequirePassedTurn,
         ProveImplementation, Advance, RecoverCheckpoint, CaptureDiff, CaptureFiles,
         RequestChanges, RecordImplementationHandoff, JudgeImplementation, GetReviewContext,
         ReviewImplementation, Local, sessionVars, OnlyTickets, OnlyEvidence
    <3>3. CASE EnsureApproval \/ BlockActiveWork \/ BlockTicket \/ BlockMission
      BY <3>3 DEF EnsureApproval, BlockActiveWork, BlockTicket, BlockMission, Local, OnlyMission,
         sessionVars, OnlyTickets
    <3> QED
      BY <2>3, <3>1, <3>2, <3>3 DEF Run
  <2>4. CASE \/ EnsureWorkItems(p) \/ MoveToBacklog(p) \/ BoundAgent(p) \/ CoordinatorTurn(p)
             \/ RestoreAgent(p) \/ InspectionPassed(p) \/ InspectionFailed(p)
    BY <2>4 DEF EnsureWorkItems, MoveToBacklog, BoundAgent, CoordinatorTurn, RestoreAgent,
       InspectionPassed, InspectionFailed, Local, OnlyMission, sessionVars, OnlyEvidence
  <2> QED
    BY <2>1, <2>2, <2>3, <2>4 DEF Continue
<1>3. CASE \/ \E u \in coding : MakeSandbox(u) \/ Edit(u) \/ OrphanEnds(u)
           \/ CodingTurn
  BY <1>3 DEF MakeSandbox, Edit, OrphanEnds, CodingTurn, TurnEnds
<1>4. CASE StreamBreaks \/ Crash
  <2>1. Orphaned
    BY <1>4 DEF StreamBreaks, Crash
  <2> QED
    BY <2>1, OrphansOnly
<1>5. CASE \E i \in Items : Authorize(i) \/ Revoke(i) \/ (\E o \in Rivals : ClaimPrimaryTicket(i, o))
  BY <1>5 DEF Authorize, Revoke, ClaimPrimaryTicket, Others, sessionVars
<1> QED
  BY <1>1, <1>2, <1>3, <1>4, <1>5 DEF RunNext

-----------------------------------------------------------------------------
(* The theorems.                                                           *)

\* The state of the controller, of the session and of what is recorded keeps its types.
THEOREM RunTypes == RunSpec => []RunTypeOK
<1>1. RunInv => RunTypeOK
  BY DEF RunInv
<1> QED
  BY <1>1, RunInvariant, PTL

\* captureImplementationArtifact: what is captured comes from the sandbox that the claim
\* of the ticket names, and a mission whose sandbox is known never meets another one.
THEOREM CaptureSandbox == RunSpec => []CaptureMeetsItsSandbox
<1>1. RunInv => CaptureMeetsItsSandbox
  <2> SUFFICES ASSUME RunInv, At(Runner, "capture") PROVE claimBox = (box = "known")
    BY DEF CaptureMeetsItsSandbox
  <2>1. status[implement] = "proving"
    BY DEF RunInv, RunnerOK, ProofStep, CaptureSteps, At
  <2>2. claimBox <=> box = "known"
    BY <2>1 DEF RunInv, WorldInv, BoxBound
  <2>3. claimBox \in BOOLEAN
    BY DEF RunInv, RunTypeOK
  <2> QED
    BY <2>2, <2>3
<1> QED
  BY <1>1, RunInvariant, PTL

\* The handoff of an attempt shows one state of the sandbox: the files are those that the
\* diff was measured of, unless a turn that nobody follows may still edit.
THEOREM CaptureIsOneState == RunSpec => []ArtifactIsOneState
<1>1. RunInv => ArtifactIsOneState
  BY DEF RunInv, WorldInv, OneCapture, ArtifactIsOneState
<1> QED
  BY <1>1, RunInvariant, PTL

\* executeProofAndReview: what awaits a human's approval had a review made of this very
\* attempt, or a human authorized this rework after a recorded review had asked for it.
THEOREM ApprovalNeedsReviewOrWaiver == RunSpec => []AcceptedByReviewOrWaiver
<1>1. RunInv => AcceptedByReviewOrWaiver
  BY DEF RunInv, WorldInv, ReviewOrder, AcceptedByReviewOrWaiver
<1> QED
  BY <1>1, RunInvariant, PTL

\* The catch of executePrimaryMission: the mission is only blocked for a cause.
THEOREM MissionBlockedForCause == RunSpec => BlockedForCause
<1>1. ASSUME RunInv, [RunNext]_runVars, mission # "blocked", mission' = "blocked"
      PROVE  (lapses \cup lapses') \cap (Causes \cup {"proving", "sentback"}) # {}
  <2>1. RunNext
    BY <1>1 DEF runVars
  <2>2. CASE BlockMission
    <3>1. Cause
      BY <1>1, <2>2 DEF RunInv, RunnerOK, PickedStep, BlockMission, At
    <3> QED
      BY <3>1 DEF Cause
  <2>3. CASE \E p \in {Runner, Creator} : InspectionFailed(p)
    <3>1. "remote" \in lapses'
      BY <2>3 DEF InspectionFailed, RemoteFailure, Lapse
    <3> QED
      BY <3>1 DEF Causes
  <2> QED
    BY <1>1, <2>1, <2>2, <2>3, MissionMoves
<1> QED
  BY <1>1, RunInvariant, PTL DEF RunSpec, BlockedForCause

\* updateSessionAgent: coding starts with the agent of the mission, unless it could not be
\* restored after a turn of the coordinator.
THEOREM CodingStartsUnrestricted == RunSpec => CodingAgentUnrestricted
<1>1. ASSUME RunInv, [RunNext]_runVars
      PROVE  \A t \in coding' \ coding : t.by = Runner => t.able \/ "restore" \in lapses
  <2> SUFFICES ASSUME NEW t \in coding' \ coding, t.by = Runner
               PROVE  t.able \/ "restore" \in lapses
    OBVIOUS
  <2>1. StartTurn
    BY <1>1, TurnMoves DEF runVars, sessionVars, RunInv, RunTypeOK
  <2>2. t.able = (agent = MissionAgent)
    BY <2>1 DEF StartTurn
  <2>3. status[implement] = "in_progress"
    BY <1>1, <2>1 DEF RunInv, RunnerOK, CodingStep, CodingSteps, StartTurn, At
  <2>4. AgentOK
    BY <1>1, <2>3 DEF RunInv, WorldInv, AgentKept
  <2> QED
    BY <2>2, <2>4 DEF AgentOK
<1> QED
  BY <1>1, RunInvariant, PTL DEF RunSpec, CodingAgentUnrestricted

-----------------------------------------------------------------------------
(* A run, and a creation, come to their end in a bounded number of steps.  *)

\* How far a step is from the end: what blocks the mission, the inspection or the review,
\* the coding, what the run does before, and the creation.
StepRank ==
  [idle |-> 0, planned |-> 1, blockMission |-> 1, blockTicket |-> 2, block |-> 3,
   approval |-> 4, sendback |-> 4, backlog |-> 4, graph |-> 5, intake |-> 5, tidy |-> 6,
   plan |-> 7, finish |-> 8, prove |-> 9, restored |-> 10, restore |-> 11, last |-> 12,
   again |-> 13, looking |-> 14, bound |-> 15, inspect |-> 16, review |-> 16, judge |-> 17,
   handoff |-> 18, files |-> 19, capture |-> 20, recover |-> 21, proved |-> 22, coded |-> 23,
   coding |-> 24, attach |-> 25, start |-> 27, implement |-> 28, bind |-> 29, claiming |-> 30,
   claim |-> 31, prepare |-> 32, pick |-> 35, opening |-> 36, create |-> 37, session |-> 38,
   find |-> 39]

\* A sandbox may still be attached while coding, and the mission is prepared step by step.
Ahead(step) ==
  IF step = "coding" THEN IF box = "known" THEN 0 ELSE 2
  ELSE IF step # "prepare" THEN 0
  ELSE IF mission \in {"none", "draft"} THEN 2
  ELSE IF mission = "planning" THEN 1 ELSE 0

Rank(p) == StepRank[proc[p].step] + Ahead(proc[p].step)

\* A process that started is not thrown back by anything, and every step that is its own or
\* moves it brings it nearer to its end; one that starts has 39 steps at most before it.
Nearer(p) ==
  IF At(p, "idle") THEN Rank(p)' <= 39
  ELSE Rank(p)' <= Rank(p) /\ (Continue(p) \/ proc'[p] # proc[p] => Rank(p)' < Rank(p))

\* Whatever happens around them, a run and a creation do not go round in circles.
RunsAreBounded == [][\A p \in {Runner, Creator} : Nearer(p)]_runVars

\* Ranks are numbers within the bound.
LEMMA RankType ==
  ASSUME NEW s \in Steps
  PROVE  /\ StepRank[s] \in 0..39 /\ Ahead(s) \in 0..2 /\ Ahead(s)' \in 0..2
         /\ s \notin {"coding", "prepare"} => Ahead(s) = 0 /\ Ahead(s)' = 0
         /\ s \in {"coding", "prepare"} => StepRank[s] <= 32
         /\ s # "idle" => StepRank[s] >= 1
<1>1. /\ StepRank[s] \in 0..39
      /\ s \in {"coding", "prepare"} => StepRank[s] <= 32
      /\ s # "idle" => StepRank[s] >= 1
  BY DEF StepRank, Steps
<1>2. /\ Ahead(s) \in 0..2 /\ Ahead(s)' \in 0..2
      /\ s \notin {"coding", "prepare"} => Ahead(s) = 0 /\ Ahead(s)' = 0
  BY DEF Ahead
<1> QED
  BY <1>1, <1>2

-----------------------------------------------------------------------------
(* Nothing moves the mission or the sandbox back.                          *)

MissionAhead ==
  \/ mission' = mission \/ mission' \notin {"none", "draft", "planning"}
  \/ mission = "none" /\ mission' = "draft"
  \/ mission = "draft" /\ mission' = "planning"
BoxAhead == box = "known" => box' = "known"

\* No step moves the mission back to its draft or its planning.
LEMMA MissionNotBack ==
  ASSUME RunNext
  PROVE  MissionAhead
<1> USE DEF MissionAhead
<1>1. CASE \/ \E kind \in {"open", "plan"} : CreateMission(kind)
           \/ RunPrimaryMission
  BY <1>1 DEF CreateMission, RunPrimaryMission, Local, Store
<1>2. CASE \E p \in {Runner, Creator} : Continue(p)
  <2>1. PICK p \in {Runner, Creator} : Continue(p)
    BY <1>2
  <2>2. CASE Create
    BY <2>2 DEF Create, FindMission, ResolveSession, CreateDraft, PersistPreflightGraph,
       PersistIntakeGraph, FinishPlanning, Local, Store, OnlyTickets
  <2>3. CASE Run
    <3>1. CASE \/ NextQueueWorkItem \/ PrepareMissionForExecution \/ Dispatch
               \/ ClaimForExecution \/ ClaimReadyWorkItem \/ BindExecution
               \/ ExecuteRepositoryInspection \/ ProveInspection \/ FinishInspection
               \/ PersistInspectedGraph \/ ExecuteImplementation
      BY <3>1 DEF NextQueueWorkItem, PrepareMissionForExecution, Prepared, Dispatch,
         ClaimForExecution, ClaimReadyWorkItem, BindExecution, ExecuteRepositoryInspection,
         ProveInspection, FinishInspection, Advance, PersistInspectedGraph, ExecuteImplementation,
         Local, Store, OnlyTickets
    <3>2. CASE \/ StartTurn \/ AttachSandbox \/ AttachExecution \/ RequirePassedTurn
               \/ ProveImplementation \/ RecoverCheckpoint \/ CaptureDiff \/ CaptureFiles
               \/ RequestChanges \/ RecordImplementationHandoff \/ JudgeImplementation
               \/ GetReviewContext \/ ReviewImplementation
      BY <3>2 DEF StartTurn, AttachSandbox, AttachExecution, RequirePassedTurn,
         ProveImplementation, Advance, RecoverCheckpoint, CaptureDiff, CaptureFiles,
         RequestChanges, RecordImplementationHandoff, JudgeImplementation, GetReviewContext,
         ReviewImplementation, Local, Store, OnlyTickets, OnlyEvidence
    <3>3. CASE EnsureApproval \/ BlockActiveWork \/ BlockTicket \/ BlockMission
      BY <3>3 DEF EnsureApproval, BlockActiveWork, BlockTicket, BlockMission, Local, Store,
         OnlyTickets
    <3> QED
      BY <2>3, <3>1, <3>2, <3>3 DEF Run
  <2>4. CASE \/ EnsureWorkItems(p) \/ MoveToBacklog(p) \/ BoundAgent(p) \/ CoordinatorTurn(p)
             \/ RestoreAgent(p) \/ InspectionPassed(p) \/ InspectionFailed(p)
    BY <2>4 DEF EnsureWorkItems, MoveToBacklog, BoundAgent, CoordinatorTurn, RestoreAgent,
       InspectionPassed, InspectionFailed, Local, Store, OnlyEvidence
  <2> QED
    BY <2>1, <2>2, <2>3, <2>4 DEF Continue
<1>3. CASE \/ \E t \in coding : MakeSandbox(t) \/ Edit(t) \/ OrphanEnds(t)
           \/ CodingTurn \/ StreamBreaks \/ Crash
  BY <1>3 DEF MakeSandbox, Edit, OrphanEnds, CodingTurn, TurnEnds, StreamBreaks, Crash, Store
<1>4. CASE \E i \in Items : Authorize(i) \/ Revoke(i) \/ (\E o \in Rivals : ClaimPrimaryTicket(i, o))
  BY <1>4 DEF Authorize, Revoke, ClaimPrimaryTicket, Others
<1> QED
  BY <1>1, <1>2, <1>3, <1>4 DEF RunNext

\* A sandbox that the mission knows stays known.
LEMMA SandboxNotLost ==
  ASSUME RunNext
  PROVE  BoxAhead
<1> USE DEF BoxAhead
<1>1. CASE \/ \E kind \in {"open", "plan"} : CreateMission(kind)
           \/ RunPrimaryMission
  BY <1>1 DEF CreateMission, RunPrimaryMission, Local, sessionVars
<1>2. CASE \E p \in {Runner, Creator} : Continue(p)
  <2>1. PICK p \in {Runner, Creator} : Continue(p)
    BY <1>2
  <2>2. CASE Create
    BY <2>2 DEF Create, FindMission, ResolveSession, CreateDraft, PersistPreflightGraph,
       PersistIntakeGraph, FinishPlanning, Local, OnlyMission, sessionVars, OnlyTickets
  <2>3. CASE Run
    <3>1. CASE \/ NextQueueWorkItem \/ PrepareMissionForExecution \/ Dispatch
               \/ ClaimForExecution \/ ClaimReadyWorkItem \/ BindExecution
               \/ ExecuteRepositoryInspection \/ ProveInspection \/ FinishInspection
               \/ PersistInspectedGraph \/ ExecuteImplementation
      BY <3>1 DEF NextQueueWorkItem, PrepareMissionForExecution, Dispatch,
         ClaimForExecution, ClaimReadyWorkItem, BindExecution, ExecuteRepositoryInspection,
         ProveInspection, FinishInspection, Advance, PersistInspectedGraph, ExecuteImplementation,
         Local, OnlyMission, sessionVars, OnlyTickets
    <3>2. CASE \/ StartTurn \/ AttachSandbox \/ AttachExecution \/ RequirePassedTurn
               \/ ProveImplementation \/ RecoverCheckpoint \/ CaptureDiff \/ CaptureFiles
               \/ RequestChanges \/ RecordImplementationHandoff \/ JudgeImplementation
               \/ GetReviewContext \/ ReviewImplementation
      BY <3>2 DEF StartTurn, AttachSandbox, AttachExecution, RequirePassedTurn,
         ProveImplementation, Advance, RecoverCheckpoint, CaptureDiff, CaptureFiles,
         RequestChanges, RecordImplementationHandoff, JudgeImplementation, GetReviewContext,
         ReviewImplementation, Local, sessionVars, OnlyTickets, OnlyEvidence
    <3>3. CASE EnsureApproval \/ BlockActiveWork \/ BlockTicket \/ BlockMission
      BY <3>3 DEF EnsureApproval, BlockActiveWork, BlockTicket, BlockMission, Local, OnlyMission,
         sessionVars, OnlyTickets
    <3> QED
      BY <2>3, <3>1, <3>2, <3>3 DEF Run
  <2>4. CASE \/ EnsureWorkItems(p) \/ MoveToBacklog(p) \/ BoundAgent(p) \/ CoordinatorTurn(p)
             \/ RestoreAgent(p) \/ InspectionPassed(p) \/ InspectionFailed(p)
    BY <2>4 DEF EnsureWorkItems, MoveToBacklog, BoundAgent, CoordinatorTurn, RestoreAgent,
       InspectionPassed, InspectionFailed, Local, OnlyMission, sessionVars, OnlyEvidence
  <2> QED
    BY <2>1, <2>2, <2>3, <2>4 DEF Continue
<1>3. CASE \/ \E u \in coding : MakeSandbox(u) \/ Edit(u) \/ OrphanEnds(u)
           \/ CodingTurn \/ StreamBreaks \/ Crash
  BY <1>3 DEF MakeSandbox, Edit, OrphanEnds, CodingTurn, TurnEnds, StreamBreaks, Crash,
     SandboxAfterLoss
<1>4. CASE \E i \in Items : Authorize(i) \/ Revoke(i) \/ (\E o \in Rivals : ClaimPrimaryTicket(i, o))
  BY <1>4 DEF Authorize, Revoke, ClaimPrimaryTicket, Others, sessionVars
<1> QED
  BY <1>1, <1>2, <1>3, <1>4 DEF RunNext

\* So a process that stays where it is is as near as before.
LEMMA NotThrownBack ==
  ASSUME RunNext, NEW s
  PROVE  Ahead(s)' <= Ahead(s)
<1>1. MissionAhead /\ BoxAhead
  BY MissionNotBack, SandboxNotLost
<1> QED
  BY <1>1 DEF MissionAhead, BoxAhead, Ahead

-----------------------------------------------------------------------------
(* Where a process goes.                                                   *)

\* Process p is at step s afterwards, and the other one where it was.
After(p, s) ==
  proc'[p].step = s /\ \A q \in {Runner, Creator} : q # p => proc'[q] = proc[q]

\* The ways in which the steps move a process.
LEMMA Reaches ==
  ASSUME RunInv, NEW p \in {Runner, Creator}
  PROVE  /\ \A s : Goto(p, s) => After(p, s)
         /\ \A s, x : proc' = [proc EXCEPT ![p].step = s, ![p].item = x] => After(p, s)
         /\ \A s, x : proc' = [proc EXCEPT ![p].step = s, ![p].ok = x] => After(p, s)
         /\ \A s, x, y : proc' = [proc EXCEPT ![p].step = s, ![p].saw = x, ![p].ok = y]
                           => After(p, s)
         /\ \A r : proc' = [proc EXCEPT ![p] = r] => After(p, r.step)
<1>1. proc \in [{Runner, Creator} -> Process]
  BY TypeSplit DEF RunInv
<1>2. ASSUME NEW r, proc' = [proc EXCEPT ![p] = r] PROVE After(p, r.step)
  BY <1>1, <1>2 DEF After
<1>3. ASSUME NEW s, Goto(p, s) PROVE After(p, s)
  <2>1. proc' = [proc EXCEPT ![p] = [proc[p] EXCEPT !.step = s]]
    BY <1>3 DEF Goto
  <2>2. [proc[p] EXCEPT !.step = s].step = s
    BY <1>1 DEF Process
  <2> QED
    BY <1>2, <2>1, <2>2
<1>4. ASSUME NEW s, NEW x, proc' = [proc EXCEPT ![p].step = s, ![p].item = x]
      PROVE  After(p, s)
  <2>1. proc' = [proc EXCEPT ![p] = [proc[p] EXCEPT !.step = s, !.item = x]]
    BY <1>1, <1>4
  <2>2. [proc[p] EXCEPT !.step = s, !.item = x].step = s
    BY <1>1 DEF Process
  <2> QED
    BY <1>2, <2>1, <2>2
<1>5. ASSUME NEW s, NEW x, proc' = [proc EXCEPT ![p].step = s, ![p].ok = x]
      PROVE  After(p, s)
  <2>1. proc' = [proc EXCEPT ![p] = [proc[p] EXCEPT !.step = s, !.ok = x]]
    BY <1>1, <1>5
  <2>2. [proc[p] EXCEPT !.step = s, !.ok = x].step = s
    BY <1>1 DEF Process
  <2> QED
    BY <1>2, <2>1, <2>2
<1>6. ASSUME NEW s, NEW x, NEW y,
             proc' = [proc EXCEPT ![p].step = s, ![p].saw = x, ![p].ok = y]
      PROVE  After(p, s)
  <2>1. proc' = [proc EXCEPT ![p] = [proc[p] EXCEPT !.step = s, !.saw = x, !.ok = y]]
    BY <1>1, <1>6
  <2>2. [proc[p] EXCEPT !.step = s, !.saw = x, !.ok = y].step = s
    BY <1>1 DEF Process
  <2> QED
    BY <1>2, <2>1, <2>2
<1> QED
  BY <1>2, <1>3, <1>4, <1>5, <1>6

\* The run ends, or fails.
LEMMA RunReaches ==
  ASSUME RunInv
  PROVE  (Ends => After(Runner, "idle")) /\ (Fails => After(Runner, "block"))
<1>1. Idle.step = "idle" /\ [Idle EXCEPT !.step = "block"].step = "block"
  BY IdleStep
<1>2. \A r : proc' = [proc EXCEPT ![Runner] = r] => After(Runner, r.step)
  BY Reaches
<1>3. Ends => After(Runner, "idle")
  BY <1>1, <1>2 DEF Ends
<1>4. Fails => After(Runner, "block")
  BY <1>1, <1>2 DEF Fails
<1> QED
  BY <1>3, <1>4

\* The creation ends, and a run that waits for it goes on or ends with it.
CreationOver ==
  /\ proc'[Creator].step = "idle"
  /\ IF At(Runner, "opening") THEN proc'[Runner].step \in {"idle", "pick"}
     ELSE proc'[Runner] = proc[Runner]

\* CreationEnds, with and without an error.
LEMMA CreationReaches ==
  ASSUME RunInv, NEW ok, CreationEnds(ok)
  PROVE  CreationOver
<1>1. proc \in [{Runner, Creator} -> Process] /\ Runner # Creator
  BY TypeSplit, TwoOfEach DEF RunInv
<1>2. Idle.step = "idle" /\ [Idle EXCEPT !.step = "pick"].step = "pick"
  BY IdleStep
<1>3. /\ proc'[Creator] = Idle
      /\ proc'[Runner] = IF ~At(Runner, "opening") THEN proc[Runner]
                         ELSE IF ok THEN [Idle EXCEPT !.step = "pick"] ELSE Idle
  BY <1>1 DEF CreationEnds
<1> QED
  BY <1>2, <1>3 DEF CreationOver

\* A process goes on to one of these steps.
Leads(p, from, steps) == At(p, from) /\ \E s \in steps : After(p, s)

\* What the run does before it works on a ticket.
LEMMA PickLeads ==
  ASSUME RunInv
  PROVE  /\ NextQueueWorkItem => Leads(Runner, "pick", {"prepare", "idle"})
         /\ Dispatch => Leads(Runner, "prepare", {"block", "recover", "approval", "claim", "bind"})
         /\ ClaimForExecution => Leads(Runner, "claim", {"claiming"})
         /\ ClaimReadyWorkItem => Leads(Runner, "claiming", {"bind", "block"})
         /\ BindExecution => Leads(Runner, "bind", {"inspect", "implement", "block"})
<1>0. /\ \A s : Goto(Runner, s) => After(Runner, s)
      /\ \A r : proc' = [proc EXCEPT ![Runner] = r] => After(Runner, r.step)
      /\ Ends => After(Runner, "idle")
      /\ Fails => After(Runner, "block")
  BY Reaches, RunReaches
<1> USE DEF Leads
<1>1. ASSUME NextQueueWorkItem PROVE Leads(Runner, "pick", {"prepare", "idle"})
  <2>1. CASE Ends
    BY <1>0, <1>1, <2>1 DEF NextQueueWorkItem
  <2>2. CASE ~Ends
    <3>1. PICK i \in Items :
            proc' = [proc EXCEPT ![Runner] =
                       [Idle EXCEPT !.step = "prepare", !.item = i, !.saw = status[i]]]
      BY <1>1, <2>2 DEF NextQueueWorkItem
    <3>2. [Idle EXCEPT !.step = "prepare", !.item = i, !.saw = status[i]].step = "prepare"
      BY DEF Idle
    <3>3. After(Runner, "prepare")
      BY <1>0, <3>1, <3>2
    <3> QED
      BY <1>1, <3>3 DEF NextQueueWorkItem
  <2> QED
    BY <2>1, <2>2
<1>2. ASSUME Dispatch
      PROVE  Leads(Runner, "prepare", {"block", "recover", "approval", "claim", "bind"})
  <2>1. proc[Runner].saw \in {"ready", "in_progress", "proving", "awaiting_approval"}
    BY <1>2 DEF Dispatch, At, RunInv, RunnerOK, PickedStep
  <2> QED
    BY <1>0, <1>2, <2>1 DEF Dispatch
<1>3. ClaimForExecution => Leads(Runner, "claim", {"claiming"})
  BY <1>0 DEF ClaimForExecution
<1>4. ClaimReadyWorkItem => Leads(Runner, "claiming", {"bind", "block"})
  BY <1>0 DEF ClaimReadyWorkItem
<1>5. BindExecution => Leads(Runner, "bind", {"inspect", "implement", "block"})
  BY <1>0, TwoOfEach DEF BindExecution, RemoteFailure, Broken
<1> QED
  BY <1>1, <1>2, <1>3, <1>4, <1>5

\* The work on a ticket: the inspection, the implementation and its coding turn.
LEMMA WorkLeads ==
  ASSUME RunInv
  PROVE  /\ ExecuteRepositoryInspection => Leads(Runner, "inspect", {"prove", "bound"})
         /\ ProveInspection => Leads(Runner, "prove", {"finish", "block"})
         /\ FinishInspection => Leads(Runner, "finish", {"plan", "block"})
         /\ PersistInspectedGraph => Leads(Runner, "plan", {"tidy", "block"})
         /\ ExecuteImplementation => Leads(Runner, "implement", {"proved", "start", "block"})
         /\ StartTurn => Leads(Runner, "start", {"coding", "block"})
         /\ RequirePassedTurn => Leads(Runner, "coded", {"proved", "block"})
         /\ ProveImplementation => Leads(Runner, "proved", {"recover", "block"})
<1>0. /\ \A s : Goto(Runner, s) => After(Runner, s)
      /\ Ends => After(Runner, "idle")
      /\ Fails => After(Runner, "block")
  BY Reaches, RunReaches
<1>1. RemoteFailure(Runner) => Fails
  BY TwoOfEach DEF RemoteFailure, Broken
<1> QED
  BY <1>0, <1>1 DEF Leads, ExecuteRepositoryInspection, ProveInspection, FinishInspection, Advance,
     PersistInspectedGraph, PlanningFails, ExecuteImplementation, StartTurn, RequirePassedTurn,
     ProveImplementation

\* Proof and review, the approval gate, and what blocks a mission.
LEMMA ProofLeads ==
  ASSUME RunInv
  PROVE  /\ RecoverCheckpoint => Leads(Runner, "recover", {"block", "approval", "review", "capture"})
         /\ CaptureDiff => Leads(Runner, "capture", {"sendback", "idle", "files"})
         /\ CaptureFiles => Leads(Runner, "files", {"sendback", "idle", "handoff"})
         /\ RequestChanges => Leads(Runner, "sendback", {"idle"})
         /\ RecordImplementationHandoff => Leads(Runner, "handoff", {"judge"})
         /\ JudgeImplementation => Leads(Runner, "judge", {"approval", "review", "block"})
         /\ GetReviewContext => Leads(Runner, "review", {"bound", "block"})
         /\ ReviewImplementation => Leads(Runner, "restored", {"approval", "block", "idle"})
         /\ EnsureApproval => Leads(Runner, "approval", {"idle", "block"})
         /\ BlockActiveWork => Leads(Runner, "block", {"blockMission", "blockTicket"})
         /\ BlockTicket => Leads(Runner, "blockTicket", {"blockMission"})
         /\ BlockMission => Leads(Runner, "blockMission", {"idle"})
<1>0. /\ \A s : Goto(Runner, s) => After(Runner, s)
      /\ \A s, x : proc' = [proc EXCEPT ![Runner].step = s, ![Runner].item = x] => After(Runner, s)
      /\ \A s, x : proc' = [proc EXCEPT ![Runner].step = s, ![Runner].ok = x] => After(Runner, s)
      /\ \A s, x, y : proc' = [proc EXCEPT ![Runner].step = s, ![Runner].saw = x,
                                           ![Runner].ok = y] => After(Runner, s)
      /\ Ends => After(Runner, "idle")
      /\ Fails => After(Runner, "block")
  BY Reaches, RunReaches
<1>1. RemoteFailure(Runner) => Fails
  BY TwoOfEach DEF RemoteFailure, Broken
<1> USE DEF Leads
<1>2. RecoverCheckpoint => Leads(Runner, "recover", {"block", "approval", "review", "capture"})
  BY <1>0 DEF RecoverCheckpoint
<1>3. /\ CaptureDiff => Leads(Runner, "capture", {"sendback", "idle", "files"})
      /\ CaptureFiles => Leads(Runner, "files", {"sendback", "idle", "handoff"})
      /\ RequestChanges => Leads(Runner, "sendback", {"idle"})
  BY <1>0 DEF CaptureDiff, CaptureFiles, CaptureFinding, CaptureRetryable, RequestChanges
<1>4. /\ RecordImplementationHandoff => Leads(Runner, "handoff", {"judge"})
      /\ JudgeImplementation => Leads(Runner, "judge", {"approval", "review", "block"})
      /\ GetReviewContext => Leads(Runner, "review", {"bound", "block"})
  BY <1>0 DEF RecordImplementationHandoff, JudgeImplementation, GetReviewContext, Unreviewable
<1>5. /\ ReviewImplementation => Leads(Runner, "restored", {"approval", "block", "idle"})
      /\ EnsureApproval => Leads(Runner, "approval", {"idle", "block"})
  BY <1>0, <1>1 DEF ReviewImplementation, EnsureApproval
<1>6. /\ BlockActiveWork => Leads(Runner, "block", {"blockMission", "blockTicket"})
      /\ BlockTicket => Leads(Runner, "blockTicket", {"blockMission"})
      /\ BlockMission => Leads(Runner, "blockMission", {"idle"})
  BY <1>0 DEF BlockActiveWork, BlockTicket, BlockMission
<1> QED
  BY <1>2, <1>3, <1>4, <1>5, <1>6

\* The creation.
LEMMA CreateLeads ==
  ASSUME RunInv
  PROVE  /\ FindMission => At(Creator, "find") /\ (CreationOver \/
              \E s \in {"session", "tidy", "bound"} : After(Creator, s))
         /\ ResolveSession => At(Creator, "session") /\ (CreationOver \/ After(Creator, "create"))
         /\ CreateDraft => Leads(Creator, "create", {"tidy", "bound"})
         /\ PersistPreflightGraph => Leads(Creator, "graph", {"backlog"})
         /\ PersistIntakeGraph => At(Creator, "intake") /\ (CreationOver \/ After(Creator, "backlog"))
         /\ FinishPlanning => At(Creator, "planned") /\ CreationOver
<1>0. /\ \A s : Goto(Creator, s) => After(Creator, s)
      /\ \A s, x : proc' = [proc EXCEPT ![Creator].step = s, ![Creator].item = x]
                     => After(Creator, s)
      /\ \A ok : CreationEnds(ok) => CreationOver
  BY Reaches, CreationReaches
<1> QED
  BY <1>0 DEF Leads, FindMission, ResolveSession, CreateDraft, PersistPreflightGraph,
     PersistIntakeGraph, InspectionRejected, FinishPlanning

\* The end of the work of either process, and its failure.
Over(p) == IF p = Creator THEN CreationOver ELSE \E s \in {"idle", "block"} : After(p, s)

\* The creation and the run end in their own ways.
LEMMA EitherEnds ==
  ASSUME RunInv, NEW p \in {Runner, Creator}, Done(p) \/ Broken(p)
  PROVE  Over(p)
<1>1. CASE p = Creator
  BY <1>1, CreationReaches DEF Done, Broken, Over
<1>2. CASE p # Creator
  BY <1>2, RunReaches DEF Done, Broken, Over
<1> QED
  BY <1>1, <1>2

\* What both processes do: the tickets of the mission, and the turn of the coordinator.
LEMMA EitherLeads ==
  ASSUME RunInv, NEW p \in {Runner, Creator}
  PROVE  /\ EnsureWorkItems(p) =>
              At(p, "tidy") /\ (Over(p) \/ \E s \in {"graph", "backlog"} : After(p, s))
         /\ MoveToBacklog(p) => At(p, "backlog") /\ (Over(p) \/ After(p, "planned"))
         /\ BoundAgent(p) => Leads(p, "bound", {"looking", "restore"})
         /\ CoordinatorTurn(p) => \/ Leads(p, "looking", {"again", "restore"})
                                  \/ Leads(p, "again", {"last", "restore"})
                                  \/ Leads(p, "last", {"restore"})
         /\ RestoreAgent(p) => Leads(p, "restore", {"restored"})
         /\ InspectionPassed(p) => Leads(p, "restored", {"intake", "prove"})
         /\ InspectionFailed(p) => At(p, "restored") /\ Over(p)
<1>0. /\ \A s : Goto(p, s) => After(p, s)
      /\ \A s, x : proc' = [proc EXCEPT ![p].step = s, ![p].item = x] => After(p, s)
      /\ \A s, x : proc' = [proc EXCEPT ![p].step = s, ![p].ok = x] => After(p, s)
      /\ Done(p) \/ Broken(p) => Over(p)
  BY Reaches, EitherEnds
<1>1. EnsureWorkItems(p) =>
        At(p, "tidy") /\ (Over(p) \/ \E s \in {"graph", "backlog"} : After(p, s))
  BY <1>0 DEF EnsureWorkItems
<1>2. MoveToBacklog(p) => At(p, "backlog") /\ (Over(p) \/ After(p, "planned"))
  BY <1>0 DEF MoveToBacklog
<1>3. /\ BoundAgent(p) => Leads(p, "bound", {"looking", "restore"})
      /\ RestoreAgent(p) => Leads(p, "restore", {"restored"})
  BY <1>0 DEF BoundAgent, RestoreAgent, Leads
<1>4. CoordinatorTurn(p) => \/ Leads(p, "looking", {"again", "restore"})
                            \/ Leads(p, "again", {"last", "restore"})
                            \/ Leads(p, "last", {"restore"})
  BY <1>0 DEF CoordinatorTurn, AskedAgain, AfterTurn, Leads, At
<1>5. /\ InspectionPassed(p) => Leads(p, "restored", {"intake", "prove"})
      /\ InspectionFailed(p) => At(p, "restored") /\ Over(p)
  BY <1>0 DEF InspectionPassed, Inspected, InspectionFailed, RemoteFailure, Leads
<1> QED
  BY <1>1, <1>2, <1>3, <1>4, <1>5

-----------------------------------------------------------------------------
(* Each of these is nearer to the end.                                     *)

Down(from, s) ==
  s \in Steps /\ StepRank[s] + (IF s \in {"coding", "prepare"} THEN 2 ELSE 0) < StepRank[from]

\* The rank of a process after a step.
LEMMA RankAfter ==
  ASSUME NEW p, NEW s, proc'[p].step = s
  PROVE  Rank(p)' = StepRank[s] + Ahead(s)'
BY DEF Rank, Ahead

\* A process that goes down is nearer.
LEMMA GoesDown ==
  ASSUME RunInv, NEW p \in {Runner, Creator}, NEW from, At(p, from), NEW s, Down(from, s),
         proc'[p].step = s
  PROVE  Rank(p)' < Rank(p)
<1>1. from \in Steps /\ proc[p].step = from
  BY TypeSplit DEF RunInv, Process, At
<1>2. Rank(p)' = StepRank[s] + Ahead(s)'
  BY RankAfter
<1>3. Rank(p) = StepRank[from] + Ahead(from)
  BY <1>1 DEF Rank
<1>4. s \in Steps /\ Ahead(s)' <= IF s \in {"coding", "prepare"} THEN 2 ELSE 0
  BY RankType DEF Down
<1>5. StepRank[s] \in Nat /\ StepRank[from] \in Nat /\ Ahead(s)' \in Nat /\ Ahead(from) \in Nat
  BY <1>1, <1>4, RankType
<1> HIDE DEF StepRank, Ahead
<1> QED
  BY <1>2, <1>3, <1>4, <1>5 DEF Down

\* The same of one of several steps.
LEMMA LeadsNearer ==
  ASSUME RunInv, NEW p \in {Runner, Creator}, NEW from, NEW steps,
         Leads(p, from, steps), \A s \in steps : Down(from, s)
  PROVE  Rank(p)' < Rank(p)
<1>1. PICK s \in steps : After(p, s)
  BY DEF Leads
<1> QED
  BY <1>1, GoesDown DEF Leads, After

\* The end of either process is nearer than the work that can end it.
LEMMA OverNearer ==
  ASSUME RunInv, NEW p \in {Runner, Creator}, Over(p), StepRank[proc[p].step] >= 4
  PROVE  Rank(p)' < Rank(p)
<1>1. Runner # Creator
  BY TwoOfEach
<1>2. \E s \in {"idle", "block"} : proc'[p].step = s
  BY <1>1 DEF Over, CreationOver, After
<1>3. PICK s \in {"idle", "block"} : proc'[p].step = s
  BY <1>2
<1>4. s \in Steps /\ StepRank[s] <= 3 /\ StepRank[s] \in Nat /\ s \notin {"coding", "prepare"}
  BY DEF Steps, StepRank
<1>5. StepRank[proc[p].step] \in Nat
  <2>1. proc[p].step \in Steps
    BY TypeSplit DEF RunInv, Process
  <2> QED
    BY <2>1, RankType
<1> HIDE DEF StepRank
<1>6. Down(proc[p].step, s)
  BY <1>4, <1>5 DEF Down
<1> QED
  BY <1>3, <1>6, GoesDown DEF At

\* The creation is over: it is nearer to its end, and so is a run that waited for it.
LEMMA CreationNearer ==
  ASSUME RunInv, CreationOver
  PROVE  /\ ~At(Creator, "idle") => Rank(Creator)' < Rank(Creator)
         /\ At(Runner, "opening") => Rank(Runner)' < Rank(Runner)
<1>1. ASSUME ~At(Creator, "idle") PROVE Rank(Creator)' < Rank(Creator)
  <2>1. proc[Creator].step \in Steps
    BY TypeSplit DEF RunInv, Process
  <2>2. StepRank["idle"] = 0 /\ "idle" \in Steps
    BY DEF StepRank, Steps
  <2>3. StepRank[proc[Creator].step] \in Nat /\ StepRank[proc[Creator].step] >= 1
    BY <1>1, <2>1, RankType DEF At
  <2>4. Down(proc[Creator].step, "idle")
    BY <2>2, <2>3 DEF Down
  <2> QED
    BY <2>4, GoesDown DEF At, CreationOver
<1>2. ASSUME At(Runner, "opening") PROVE Rank(Runner)' < Rank(Runner)
  <2>1. PICK s \in {"idle", "pick"} : proc'[Runner].step = s
    BY <1>2 DEF CreationOver
  <2>2. Down("opening", s)
    BY DEF Down, StepRank, Steps
  <2> QED
    BY <1>2, <2>1, <2>2, GoesDown
<1> QED
  BY <1>1, <1>2

\* Every step of the run brings it nearer to its end.
LEMMA RunNearer ==
  ASSUME RunInv, Run
  PROVE  Rank(Runner)' < Rank(Runner)
<1> USE DEF Down, StepRank, Steps
<1>1. CASE \/ NextQueueWorkItem \/ Dispatch \/ ClaimForExecution \/ ClaimReadyWorkItem
           \/ BindExecution
  <2>1. CASE NextQueueWorkItem
    BY <2>1, PickLeads, LeadsNearer
  <2>2. CASE Dispatch
    BY <2>2, PickLeads, LeadsNearer
  <2>3. CASE ClaimForExecution
    BY <2>3, PickLeads, LeadsNearer
  <2>4. CASE ClaimReadyWorkItem
    BY <2>4, PickLeads, LeadsNearer
  <2>5. CASE BindExecution
    BY <2>5, PickLeads, LeadsNearer
  <2> QED
    BY <1>1, <2>1, <2>2, <2>3, <2>4, <2>5
<1>2. CASE PrepareMissionForExecution
  <2>1. proc[Runner].step = "prepare" /\ proc'[Runner].step = "prepare"
    BY <1>2 DEF PrepareMissionForExecution, At
  <2>2. Ahead("prepare")' < Ahead("prepare")
    BY <1>2 DEF PrepareMissionForExecution, Prepared, Ahead
  <2>3. Ahead("prepare")' \in Nat /\ Ahead("prepare") \in Nat /\ StepRank["prepare"] = 32
    BY RankType
  <2>4. Rank(Runner)' = 32 + Ahead("prepare")' /\ Rank(Runner) = 32 + Ahead("prepare")
    BY <2>1, <2>3, RankAfter DEF Rank
  <2> QED
    BY <2>2, <2>3, <2>4
<1>3. CASE \/ ExecuteRepositoryInspection \/ ProveInspection \/ FinishInspection
           \/ PersistInspectedGraph \/ ExecuteImplementation \/ StartTurn
           \/ RequirePassedTurn \/ ProveImplementation
  <2>1. CASE ExecuteRepositoryInspection
    BY <2>1, WorkLeads, LeadsNearer
  <2>2. CASE ProveInspection
    BY <2>2, WorkLeads, LeadsNearer
  <2>3. CASE FinishInspection
    BY <2>3, WorkLeads, LeadsNearer
  <2>4. CASE PersistInspectedGraph
    BY <2>4, WorkLeads, LeadsNearer
  <2>5. CASE ExecuteImplementation
    BY <2>5, WorkLeads, LeadsNearer
  <2>6. CASE StartTurn
    BY <2>6, WorkLeads, LeadsNearer
  <2>7. CASE RequirePassedTurn
    BY <2>7, WorkLeads, LeadsNearer
  <2>8. CASE ProveImplementation
    BY <2>8, WorkLeads, LeadsNearer
  <2> QED
    BY <1>3, <2>1, <2>2, <2>3, <2>4, <2>5, <2>6, <2>7, <2>8
<1>4. CASE AttachSandbox
  <2>1. proc[Runner].step = "coding" /\ proc'[Runner].step = "attach"
    BY <1>4, Reaches DEF AttachSandbox, At, After
  <2>2. Rank(Runner) = 26
    BY <1>4, <2>1 DEF Rank, Ahead, AttachSandbox
  <2>3. Rank(Runner)' = 25
    BY <2>1 DEF Rank, Ahead
  <2> QED
    BY <2>2, <2>3
<1>5. CASE AttachExecution
  <2>1. proc[Runner].step = "attach" /\ proc'[Runner].step = "coding"
    BY <1>5, Reaches DEF AttachExecution, At, After
  <2>2. box' = "known"
    BY <1>5, <2>1 DEF AttachExecution, sessionVars, RunInv, RunnerOK, CodingStep
  <2>3. Rank(Runner) = 25
    BY <2>1 DEF Rank, Ahead
  <2>4. Rank(Runner)' = 24
    BY <2>1, <2>2 DEF Rank, Ahead
  <2> QED
    BY <2>3, <2>4
<1>6. CASE \/ RecoverCheckpoint \/ CaptureDiff \/ CaptureFiles \/ RequestChanges
           \/ RecordImplementationHandoff \/ JudgeImplementation
  <2>1. CASE RecoverCheckpoint
    BY <2>1, ProofLeads, LeadsNearer
  <2>2. CASE CaptureDiff
    BY <2>2, ProofLeads, LeadsNearer
  <2>3. CASE CaptureFiles
    BY <2>3, ProofLeads, LeadsNearer
  <2>4. CASE RequestChanges
    BY <2>4, ProofLeads, LeadsNearer
  <2>5. CASE RecordImplementationHandoff
    BY <2>5, ProofLeads, LeadsNearer
  <2>6. CASE JudgeImplementation
    BY <2>6, ProofLeads, LeadsNearer
  <2> QED
    BY <1>6, <2>1, <2>2, <2>3, <2>4, <2>5, <2>6
<1>7. CASE \/ GetReviewContext \/ ReviewImplementation \/ EnsureApproval \/ BlockActiveWork
           \/ BlockTicket \/ BlockMission
  <2>1. CASE GetReviewContext
    BY <2>1, ProofLeads, LeadsNearer
  <2>2. CASE ReviewImplementation
    BY <2>2, ProofLeads, LeadsNearer
  <2>3. CASE EnsureApproval
    BY <2>3, ProofLeads, LeadsNearer
  <2>4. CASE BlockActiveWork
    BY <2>4, ProofLeads, LeadsNearer
  <2>5. CASE BlockTicket
    BY <2>5, ProofLeads, LeadsNearer
  <2>6. CASE BlockMission
    BY <2>6, ProofLeads, LeadsNearer
  <2> QED
    BY <1>7, <2>1, <2>2, <2>3, <2>4, <2>5, <2>6
<1> HIDE DEF Down, StepRank, Steps
<1> QED
  BY <1>1, <1>2, <1>3, <1>4, <1>5, <1>6, <1>7 DEF Run

\* Every step of the creation brings it nearer to its end.
LEMMA CreateNearer ==
  ASSUME RunInv, Create
  PROVE  Rank(Creator)' < Rank(Creator)
<1> USE DEF Down, StepRank, Steps
<1>0. CASE CreationOver /\ (FindMission \/ ResolveSession \/ PersistIntakeGraph \/ FinishPlanning)
  BY <1>0, CreationNearer, CreateLeads DEF At
<1>1. CASE FindMission /\ ~CreationOver
  <2>1. Leads(Creator, "find", {"session", "tidy", "bound"})
    BY <1>1, CreateLeads DEF Leads
  <2> QED
    BY <2>1, LeadsNearer
<1>2. CASE ResolveSession /\ ~CreationOver
  <2>1. Leads(Creator, "session", {"create"})
    BY <1>2, CreateLeads DEF Leads
  <2> QED
    BY <2>1, LeadsNearer
<1>3. CASE PersistIntakeGraph /\ ~CreationOver
  <2>1. Leads(Creator, "intake", {"backlog"})
    BY <1>3, CreateLeads DEF Leads
  <2> QED
    BY <2>1, LeadsNearer
<1>4. CASE CreateDraft
  BY <1>4, CreateLeads, LeadsNearer
<1>5. CASE PersistPreflightGraph
  BY <1>5, CreateLeads, LeadsNearer
<1>6. CASE FinishPlanning /\ ~CreationOver
  BY <1>6, CreateLeads
<1> HIDE DEF Down, StepRank, Steps
<1> QED
  BY <1>0, <1>1, <1>2, <1>3, <1>4, <1>5, <1>6 DEF Create

\* So does every step of a process that was started.
LEMMA ContinueNearer ==
  ASSUME RunInv, NEW p \in {Runner, Creator}, Continue(p)
  PROVE  Rank(p)' < Rank(p)
<1> USE DEF Down, StepRank, Steps
<1>1. CASE \/ p = Creator /\ Create
           \/ p = Runner /\ Run
  BY <1>1, CreateNearer, RunNearer
<1>2. CASE EnsureWorkItems(p)
  <2>1. At(p, "tidy") /\ (Over(p) \/ Leads(p, "tidy", {"graph", "backlog"}))
    BY <1>2, EitherLeads DEF Leads
  <2> QED
    BY <2>1, OverNearer, LeadsNearer DEF At
<1>3. CASE MoveToBacklog(p)
  <2>1. At(p, "backlog") /\ (Over(p) \/ Leads(p, "backlog", {"planned"}))
    BY <1>3, EitherLeads DEF Leads
  <2> QED
    BY <2>1, OverNearer, LeadsNearer DEF At
<1>4. CASE BoundAgent(p)
  BY <1>4, EitherLeads, LeadsNearer
<1>5. CASE CoordinatorTurn(p)
  <2>1. CASE Leads(p, "looking", {"again", "restore"})
    BY <2>1, LeadsNearer
  <2>2. CASE Leads(p, "again", {"last", "restore"})
    BY <2>2, LeadsNearer
  <2>3. CASE Leads(p, "last", {"restore"})
    BY <2>3, LeadsNearer
  <2> QED
    BY <1>5, <2>1, <2>2, <2>3, EitherLeads
<1>6. CASE RestoreAgent(p)
  BY <1>6, EitherLeads, LeadsNearer
<1>7. CASE InspectionPassed(p)
  BY <1>7, EitherLeads, LeadsNearer
<1>8. CASE InspectionFailed(p)
  <2>1. At(p, "restored") /\ Over(p)
    BY <1>8, EitherLeads
  <2> QED
    BY <2>1, OverNearer DEF At
<1> HIDE DEF Down, StepRank, Steps
<1> QED
  BY <1>1, <1>2, <1>3, <1>4, <1>5, <1>6, <1>7, <1>8 DEF Continue

\* What a step of one process does to the other: nothing, but for a run that waits.
LEMMA OtherStays ==
  ASSUME RunInv, NEW q \in {Runner, Creator}, Continue(q),
         NEW p \in {Runner, Creator}, p # q
  PROVE  proc'[p] = proc[p] \/ Rank(p)' < Rank(p)
<1>1. (\E s : After(q, s)) => proc'[p] = proc[p]
  BY DEF After
<1>2. q = Creator /\ CreationOver => proc'[p] = proc[p] \/ Rank(p)' < Rank(p)
  BY CreationNearer DEF CreationOver
<1>3. Over(q) => proc'[p] = proc[p] \/ Rank(p)' < Rank(p)
  BY <1>1, <1>2 DEF Over
<1>4. CASE q = Creator /\ Create
  BY <1>1, <1>2, <1>4, CreateLeads DEF Create, Leads
<1>5. CASE q = Runner /\ Run
  <2>1. CASE PrepareMissionForExecution
    BY <2>1 DEF PrepareMissionForExecution
  <2>2. CASE AttachSandbox \/ AttachExecution
    BY <1>1, <1>5, <2>2, Reaches DEF AttachSandbox, AttachExecution
  <2>3. CASE \/ NextQueueWorkItem \/ Dispatch \/ ClaimForExecution \/ ClaimReadyWorkItem
             \/ BindExecution
    BY <1>1, <1>5, <2>3, PickLeads DEF Leads
  <2>4. CASE \/ ExecuteRepositoryInspection \/ ProveInspection \/ FinishInspection
             \/ PersistInspectedGraph \/ ExecuteImplementation \/ StartTurn
             \/ RequirePassedTurn \/ ProveImplementation
    BY <1>1, <1>5, <2>4, WorkLeads DEF Leads
  <2>5. CASE \/ RecoverCheckpoint \/ CaptureDiff \/ CaptureFiles \/ RequestChanges
             \/ RecordImplementationHandoff \/ JudgeImplementation
             \/ GetReviewContext \/ ReviewImplementation \/ EnsureApproval \/ BlockActiveWork
             \/ BlockTicket \/ BlockMission
    BY <1>1, <1>5, <2>5, ProofLeads DEF Leads
  <2> QED
    BY <1>5, <2>1, <2>2, <2>3, <2>4, <2>5 DEF Run
<1>6. CASE EnsureWorkItems(q) \/ MoveToBacklog(q) \/ InspectionFailed(q)
  BY <1>1, <1>3, <1>6, EitherLeads
<1>7. CASE BoundAgent(q) \/ CoordinatorTurn(q) \/ RestoreAgent(q) \/ InspectionPassed(q)
  BY <1>1, <1>7, EitherLeads DEF Leads
<1> QED
  BY <1>4, <1>5, <1>6, <1>7 DEF Continue

\* A step moves a process that started to a nearer point, or not at all.
LEMMA MovesNearer ==
  ASSUME RunInv, RunNext, NEW p \in {Runner, Creator}, ~At(p, "idle")
  PROVE  proc'[p] = proc[p] \/ Rank(p)' < Rank(p)
<1>0. proc \in [{Runner, Creator} -> Process] /\ Runner # Creator
  BY TypeSplit, TwoOfEach DEF RunInv
<1>1. CASE \E kind \in {"open", "plan"} : CreateMission(kind)
  BY <1>0, <1>1 DEF CreateMission, At
<1>2. CASE RunPrimaryMission
  <2>1. p # Runner /\ p = Creator
    BY <1>2 DEF RunPrimaryMission
  <2>2. proc'[Creator] = proc[Creator]
    BY <1>0, <1>2, <2>1 DEF RunPrimaryMission
  <2> QED
    BY <2>1, <2>2
<1>3. CASE \E q \in {Runner, Creator} : Continue(q)
  BY <1>3, ContinueNearer, OtherStays
<1>4. CASE \/ \E t \in coding : MakeSandbox(t) \/ Edit(t) \/ OrphanEnds(t)
           \/ \E i \in Items :
                Authorize(i) \/ Revoke(i) \/ (\E o \in Rivals : ClaimPrimaryTicket(i, o))
  BY <1>4 DEF MakeSandbox, Edit, OrphanEnds, Authorize, Revoke, ClaimPrimaryTicket, Others
<1>5. CASE CodingTurn \/ StreamBreaks
  <2>1. At(Runner, "coding") /\ \E s \in {"coded", "block"} : After(Runner, s)
    BY <1>5, Reaches, RunReaches DEF CodingTurn, TurnEnds, StreamBreaks
  <2>2. Leads(Runner, "coding", {"coded", "block"})
    BY <2>1 DEF Leads
  <2>3. Rank(Runner)' < Rank(Runner)
    BY <2>2, LeadsNearer DEF Down, StepRank, Steps
  <2> QED
    BY <2>1, <2>3 DEF After
<1>6. CASE Crash
  <2>1. proc'[p].step = "idle"
    BY <1>6, IdleStep DEF Crash
  <2>2. proc[p].step \in Steps /\ "idle" \in Steps /\ StepRank["idle"] = 0
    BY <1>0 DEF Process, Steps, StepRank
  <2>3. StepRank[proc[p].step] \in Nat /\ StepRank[proc[p].step] >= 1
    BY <2>2, RankType DEF At
  <2>4. Down(proc[p].step, "idle")
    BY <2>2, <2>3 DEF Down
  <2> QED
    BY <2>1, <2>4, GoesDown DEF At
<1> QED
  BY <1>1, <1>2, <1>3, <1>4, <1>5, <1>6 DEF RunNext

\* Every step, whoever takes it.
LEMMA NextNearer ==
  ASSUME RunInv, RunInv', RunNext, NEW p \in {Runner, Creator}
  PROVE  Nearer(p)
<1> PICK s : s = proc'[p].step
  OBVIOUS
<1> PICK u : u = proc[p].step
  OBVIOUS
<1>1. s \in Steps /\ u \in Steps
  BY TypeSplit DEF RunInv, RunTypeOK, Process
<1>2. Rank(p)' = StepRank[s] + Ahead(s)' /\ Rank(p) = StepRank[u] + Ahead(u)
  BY RankAfter DEF Rank
<1>3. /\ StepRank[s] \in 0..39 /\ Ahead(s)' \in 0..2 /\ StepRank[u] \in 0..39 /\ Ahead(u) \in 0..2
      /\ s \notin {"coding", "prepare"} => Ahead(s)' = 0
      /\ s \in {"coding", "prepare"} => StepRank[s] <= 32
  BY <1>1, RankType
<1> HIDE DEF StepRank, Ahead
<1>4. Rank(p)' <= 39 /\ Rank(p)' \in Nat /\ Rank(p) \in Nat
  BY <1>2, <1>3
<1>5. ASSUME ~At(p, "idle")
      PROVE  Rank(p)' <= Rank(p) /\ (Continue(p) \/ proc'[p] # proc[p] => Rank(p)' < Rank(p))
  <2>1. Continue(p) \/ proc'[p] # proc[p] => Rank(p)' < Rank(p)
    BY <1>5, ContinueNearer, MovesNearer
  <2>2. CASE proc'[p] = proc[p]
    <3>1. u = s /\ Ahead(s)' <= Ahead(s)
      BY <2>2, NotThrownBack
    <3>2. Ahead(s) \in 0..2
      BY <1>3, <3>1
    <3>3. Rank(p)' <= Rank(p)
      BY <1>2, <1>3, <3>1, <3>2
    <3> QED
      BY <2>1, <3>3
  <2>3. CASE proc'[p] # proc[p]
    BY <1>4, <2>1, <2>3
  <2> QED
    BY <2>2, <2>3
<1> QED
  BY <1>4, <1>5 DEF Nearer

\* Every run and every creation ends after 39 steps of its own at most, for any number of
\* attempts, edits, rivals and crashes: a silent coordinator is not asked for ever, a sandbox
\* is attached once, and no failure sends a run back to what it did before.
THEOREM RunsGetNearer == RunSpec => RunsAreBounded
<1>1. RunInv /\ RunInv' /\ [RunNext]_runVars
        => [\A p \in {Runner, Creator} : Nearer(p)]_runVars
  BY NextNearer
<1> QED
  BY <1>1, RunInvariant, PTL DEF RunSpec, RunsAreBounded
=============================================================================
