-------------------------- MODULE TicketPlanProofs --------------------------
(***************************************************************************)
(* What holds of the queue when callers use neither the compatibility      *)
(* trigger nor retry, as the mission controller: work that was sent back   *)
(* stays put, and the guards of the calls alone keep every state valid.    *)
(***************************************************************************)
EXTENDS TicketLifecycleProofs

\* The plan of every item is closed, and work that started rests on completed work.
PlannedInv(i) ==
  /\ status[i] = "absent" => plan[i].dependsOn = {}
  /\ plan[i].dependsOn \subseteq Present
  /\ status[i] \notin {"absent", "backlog", "blocked"} => DependenciesComplete(i)

HardStopInv(i) == status[i] \in {"in_progress", "proving"} => Number(i) \notin requested[i]

PlanInv ==
  /\ QueueInv
  /\ \A i \in Items : PlannedInv(i)
  /\ Acyclic(plan)

-----------------------------------------------------------------------------
(* The plan.                                                               *)

\* A call that replans nothing keeps the plan if it moves only items whose
\* dependencies are complete, and none that is completed.
LEMMA MovesKeepPlan ==
  ASSUME PlanInv, plan' = plan,
         \A j \in Items :
           /\ status'[j] = "absent" <=> status[j] = "absent"
           /\ Completed(status[j]) => Completed(status'[j])
           /\ status'[j] \notin {"absent", "backlog", "blocked"} => DependenciesComplete(j)
  PROVE  (\A j \in Items : PlannedInv(j)') /\ Acyclic(plan)'
<1>1. Present' = Present
  BY DEF Present
<1>2. ASSUME NEW j \in Items PROVE PlannedInv(j)'
  <2>1. PlannedInv(j) /\ plan[j].dependsOn \subseteq Items
    BY DEF PlanInv, PlannedInv, Present
  <2>2. DependenciesComplete(j) => DependenciesComplete(j)'
    BY <2>1 DEF DependenciesComplete, AllComplete
  <2> QED
    BY <1>1, <2>1, <2>2 DEF PlannedInv
<1>3. Acyclic(plan)'
  BY DEF PlanInv, Acyclic
<1> QED
  BY <1>2, <1>3

\* A new item depends on items that were there before it, so it closes no cycle.
LEMMA AddKeepsPlan ==
  ASSUME PlanInv, NEW i \in Items, NEW planned \in Plan, NEW s \in {"backlog", "ready"},
         AddWorkItem(i, planned, s)
  PROVE  (\A j \in Items : PlannedInv(j)') /\ Acyclic(plan)'
<1>1. TypeOK /\ plan \in [Items -> Plan]
  BY DEF PlanInv, QueueInv, TypeOK
<1>2. /\ plan' = [plan EXCEPT ![i] = planned] /\ status' = [status EXCEPT ![i] = s]
      /\ status[i] = "absent" /\ planned.dependsOn \subseteq Present /\ i \notin Present
  BY DEF AddWorkItem, Present
<1>3. /\ plan'[i] = planned /\ status'[i] = s
      /\ \A j \in Items \ {i} : plan'[j] = plan[j] /\ status'[j] = status[j]
  BY <1>1, <1>2 DEF TypeOK
<1>4. Present' = Present \cup {i}
  BY <1>3 DEF Present
<1>5. \A d \in Present : Completed(status[d]) => Completed(status'[d])
  BY <1>2, <1>3 DEF Present
<1>6. ASSUME NEW j \in Items PROVE PlannedInv(j)'
  <2>1. CASE j = i
    <3>1. s = "ready" => \A d \in planned.dependsOn : Completed(status[d])
      BY DEF AddWorkItem, Completed
    <3> QED
      BY <1>2, <1>3, <1>4, <1>5, <2>1, <3>1
         DEF PlannedInv, DependenciesComplete, AllComplete
  <2>2. CASE j # i
    <3>1. PlannedInv(j)
      BY DEF PlanInv
    <3>2. DependenciesComplete(j) => DependenciesComplete(j)'
      BY <1>3, <1>5, <2>2, <3>1 DEF DependenciesComplete, AllComplete, PlannedInv
    <3> QED
      BY <1>3, <1>4, <2>2, <3>1, <3>2 DEF PlannedInv
  <2> QED
    BY <2>1, <2>2
<1>7. Acyclic(plan')
  <2> SUFFICES ASSUME NEW S \in SUBSET Items, S # {}
               PROVE  \E j \in S : plan'[j].dependsOn \cap S = {}
    BY <1>1, <1>2 DEF Acyclic
  <2>1. CASE S \ {i} = {}
    BY <1>2, <1>3, <2>1
  <2>2. CASE S \ {i} # {}
    <3>1. PICK j \in S \ {i} : plan[j].dependsOn \cap (S \ {i}) = {}
      BY <1>1, <2>2 DEF PlanInv, Acyclic
    <3>2. i \notin plan[j].dependsOn
      BY <1>2, <3>1 DEF PlanInv, PlannedInv
    <3> QED
      BY <1>3, <3>1, <3>2
  <2> QED
    BY <2>1, <2>2
<1> QED
  BY <1>6, <1>7

\* A graph replaces the plan of every item there is; the others have none.
LEMMA GraphKeepsPlan ==
  ASSUME PlanInv, NEW graph \in Graphs, PersistWorkGraph(graph)
  PROVE  (\A j \in Items : PlannedInv(j)') /\ Acyclic(plan)'
<1> DEFINE D == DOMAIN graph
<1>1. /\ TypeOK /\ D \subseteq Items /\ Present \subseteq D
      /\ \A j \in D : graph[j] \in Plan
  BY ConstantsAssumption DEF PlanInv, QueueInv, PersistWorkGraph
<1>2. /\ \A j \in D : graph[j].dependsOn \subseteq D
      /\ Acyclic(graph)
      /\ \A j \in Present : Replannable(j, graph[j])
  BY DEF PersistWorkGraph, ValidGraph
<1>3. ASSUME NEW j \in Items
      PROVE  /\ j \in D => plan'[j].dependsOn = graph[j].dependsOn
             /\ j \notin D => plan'[j] = plan[j]
  BY <1>1 DEF PersistWorkGraph, Plan
<1>4. ASSUME NEW j \in Items
      PROVE  /\ j \notin D \/ j \in Present => status'[j] = status[j]
             /\ j \in D /\ j \notin Present =>
                  status'[j] = IF AllComplete(graph[j].dependsOn) THEN "ready" ELSE "backlog"
  BY DEF PersistWorkGraph
<1>5. ASSUME NEW j \in Items, j \notin D
      PROVE  status[j] = "absent" /\ plan'[j].dependsOn = {} /\ status'[j] = "absent"
  BY <1>1, <1>3, <1>4, <1>5 DEF PlanInv, PlannedInv, Present
<1>6. Present' = D
  BY <1>1, <1>4, <1>5 DEF Present
<1>7. ASSUME NEW j \in D, AllComplete(graph[j].dependsOn)
      PROVE  DependenciesComplete(j)'
  <2>1. ASSUME NEW d \in graph[j].dependsOn PROVE Completed(status'[d])
    <3>1. d \in Items /\ Completed(status[d])
      BY <1>1, <1>2, <1>7, <2>1 DEF AllComplete
    <3>2. d \in Present
      BY <3>1 DEF Present, Completed
    <3> QED
      BY <1>4, <3>1, <3>2
  <2>2. plan'[j].dependsOn = graph[j].dependsOn
    BY <1>1, <1>3
  <2> QED
    BY <2>1, <2>2 DEF DependenciesComplete, AllComplete
<1>8. ASSUME NEW j \in Items PROVE PlannedInv(j)'
  <2>1. CASE j \notin D
    BY <1>5, <2>1 DEF PlannedInv
  <2>2. CASE j \in D
    <3>1. status'[j] \notin {"absent", "backlog", "blocked"} => AllComplete(graph[j].dependsOn)
      BY <1>2, <1>4, <2>2 DEF Replannable, Present
    <3>2. status'[j] # "absent"
      BY <1>6, <2>2 DEF Present
    <3> QED
      BY <1>2, <1>3, <1>6, <1>7, <2>2, <3>1, <3>2 DEF PlannedInv
  <2> QED
    BY <2>1, <2>2
<1>9. Acyclic(plan')
  <2>1. DOMAIN plan' = Items
    BY DEF PersistWorkGraph
  <2> SUFFICES ASSUME NEW S \in SUBSET Items, S # {}
               PROVE  \E j \in S : plan'[j].dependsOn \cap S = {}
    BY <2>1 DEF Acyclic
  <2>2. CASE S \cap D = {}
    BY <1>5, <2>2
  <2>3. CASE S \cap D # {}
    <3>1. PICK j \in S \cap D : graph[j].dependsOn \cap (S \cap D) = {}
      BY <1>2, <2>3 DEF Acyclic
    <3> QED
      BY <1>1, <1>2, <1>3, <3>1
  <2> QED
    BY <2>2, <2>3
<1> QED
  BY <1>8, <1>9

\* The calls on one item move it only to where its dependencies allow it to be.
LEMMA OperateKeepsPlan ==
  ASSUME {"legacy", "retry"} \cap Triggers = {}, PlanInv, NEW i \in Items, Operate(i)
  PROVE  (\A j \in Items : PlannedInv(j)') /\ Acyclic(plan)'
<1>1. TypeOK /\ \A j \in Items : PlannedInv(j) /\ PhaseInv(j)
  BY DEF PlanInv, QueueInv, ItemInv
<1>2. CASE \E g \in Graphs, s \in {"backlog", "ready"} : i \in DOMAIN g /\ AddWorkItem(i, g[i], s)
  BY <1>2, AddKeepsPlan, ConstantsAssumption
<1>3. ASSUME NEW to \in TicketStatuses, plan' = plan, status' = [status EXCEPT ![i] = to],
             ~Completed(status[i]), status[i] # "absent",
             to \notin {"backlog", "blocked"} => DependenciesComplete(i)
      PROVE  (\A j \in Items : PlannedInv(j)') /\ Acyclic(plan)'
  <2>1. to # "absent"
    BY DEF TicketStatuses
  <2>2. ASSUME NEW j \in Items
        PROVE  /\ status'[j] = "absent" <=> status[j] = "absent"
               /\ Completed(status[j]) => Completed(status'[j])
               /\ status'[j] \notin {"absent", "backlog", "blocked"} => DependenciesComplete(j)
    BY <1>1, <1>3, <2>1 DEF TypeOK, PlannedInv
  <2> QED
    BY <1>3, <2>2, MovesKeepPlan
<1>4. ASSUME plan' = plan, status' = status
      PROVE  (\A j \in Items : PlannedInv(j)') /\ Acyclic(plan)'
  BY <1>1, <1>4, MovesKeepPlan DEF PlannedInv
<1>5. CASE \E h \in Humans : AuthorizeWorkItem(i, h)
  <2>1. /\ plan' = plan /\ status' = [status EXCEPT ![i] = "ready"]
        /\ status[i] \in {"backlog", "changes_requested"} /\ DependenciesComplete(i)
    BY <1>5 DEF AuthorizeWorkItem
  <2> QED
    BY <1>3, <2>1 DEF TicketStatuses, Completed
<1>6. CASE RevokeWorkItemAuthorization(i)
  <2>1. /\ plan' = plan /\ status' = [status EXCEPT ![i] = "backlog"] /\ status[i] = "ready"
    BY <1>6 DEF RevokeWorkItemAuthorization
  <2> QED
    BY <1>3, <2>1 DEF TicketStatuses, Completed
<1>7. CASE \E o \in Owners : ClaimWorkItem(i, o)
  <2>1. /\ plan' = plan /\ status' = [status EXCEPT ![i] = "in_progress"]
        /\ status[i] = "ready" /\ DependenciesComplete(i)
    BY <1>7 DEF ClaimWorkItem
  <2> QED
    BY <1>3, <2>1 DEF TicketStatuses, Completed
<1>8. CASE \E t \in SystemTriggers, to \in TicketStatuses : TransitionSystemWorkItem(i, t, to)
  <2>1. PICK t \in SystemTriggers, to \in TicketStatuses : TransitionSystemWorkItem(i, t, to)
    BY <1>8
  <2>2. /\ plan' = plan /\ status' = [status EXCEPT ![i] = to]
        /\ t \in Triggers /\ LegalSystemEdge(i, t, status[i], to)
    BY <2>1 DEF TransitionSystemWorkItem, workVars
  <2>3. status[i] \notin {"absent", "backlog", "blocked", "done", "complete"}
    BY <2>2 DEF LegalSystemEdge, ExecutionEdge, RetryEdge
  <2> QED
    BY <1>1, <1>3, <2>1, <2>2, <2>3 DEF Completed, PlannedInv
<1>9. CASE \E to \in TicketStatuses \cup LegacyStatuses : TransitionWorkItem(i, to)
  BY <1>9 DEF TransitionWorkItem
<1>10. CASE \/ \E o \in Owners : StartWorkItemDelegation(i, o)
            \/ \E thread \in 1..MaxDelegations[i], outcome \in {"completed", "failed"} :
                 EndWorkItemDelegation(i, thread, outcome)
  BY <1>4, <1>10 DEF StartWorkItemDelegation, EndWorkItemDelegation
<1>11. CASE \E thread \in 0..MaxDelegations[i], done \in BOOLEAN : RecordHandoff(i, thread, done)
  BY <1>4, <1>11 DEF RecordHandoff
<1>12. CASE \E reviewer \in Owners \cup {Verifier},
               outcome \in {"accepted", "changes_requested", "blocked"} :
              RecordReview(i, reviewer, outcome)
  <2>1. PICK outcome \in {"accepted", "changes_requested", "blocked"} :
          /\ status' = [status EXCEPT ![i] = ReviewStatus(i, outcome)]
          /\ plan' = plan /\ status[i] \in {"ready_for_review", "proving"}
    BY <1>12 DEF RecordReview
  <2>2. status[i] = "proving"
    BY <1>1, <2>1 DEF PhaseInv, LegacyStatuses
  <2>3. ReviewStatus(i, outcome) \in {"awaiting_approval", "changes_requested", "blocked"}
    BY <2>1, <2>2 DEF ReviewStatus
  <2> QED
    BY <1>1, <1>3, <2>1, <2>2, <2>3 DEF PlannedInv, TicketStatuses, Completed
<1> QED
  BY <1>2, <1>5, <1>6, <1>7, <1>8, <1>9, <1>10, <1>11, <1>12 DEF Operate, Handle, Judge

\* The invariant of the queue and its plan holds without retry and compatibility calls.
LEMMA PlanInvariant ==
  ASSUME {"legacy", "retry"} \cap Triggers = {}
  PROVE  Spec => []PlanInv
<1>1. Init => QueueInv
  BY InitQueue
<1>2. Init => PlanInv
  <2> SUFFICES ASSUME Init PROVE PlanInv
    OBVIOUS
  <2>1. \A i \in Items : status[i] = "absent" /\ plan[i].dependsOn = {}
    BY DEF Init, NoPlan
  <2>2. DOMAIN plan = Items
    BY DEF Init
  <2>3. \A i \in Items : PlannedInv(i)
    BY <2>1 DEF PlannedInv
  <2>4. Acyclic(plan)
    BY <2>1, <2>2 DEF Acyclic
  <2> QED
    BY <1>1, <2>3, <2>4 DEF PlanInv
<1>3. PlanInv /\ [Next]_vars => PlanInv'
  <2> SUFFICES ASSUME PlanInv, [Next]_vars PROVE PlanInv'
    OBVIOUS
  <2>1. QueueInv'
    BY QueueStuttering DEF PlanInv
  <2>2. CASE UNCHANGED vars
    <3>1. \A j \in Items : PlannedInv(j)
      BY DEF PlanInv
    <3>2. plan' = plan /\ status' = status
      BY <2>2 DEF vars
    <3> QED
      BY <2>1, <3>1, <3>2, MovesKeepPlan DEF PlanInv, PlannedInv
  <2>3. CASE Next
    BY <2>1, <2>3, GraphKeepsPlan, OperateKeepsPlan DEF Next, PlanInv
  <2> QED
    BY <2>2, <2>3
<1> QED
  BY <1>2, <1>3, PTL DEF Spec

\* Without retry and compatibility calls, the guards of the calls alone keep what
\* validateMissionState demands of claims, attempt histories and dependencies.
THEOREM GuardsKeepQueueValid ==
  ASSUME {"legacy", "retry"} \cap Triggers = {}
  PROVE  Spec => []MutatorsKeepQueueValid
<1>1. PlanInv => MutatorsKeepQueueValid
  <2> SUFFICES ASSUME PlanInv, NEW i \in Items
               PROVE  (ValidClaim(i) /\ ValidHistory(i) /\ ValidDependencies(i)) /\ Acyclic(plan)
    BY DEF MutatorsKeepQueueValid, PlanInv
  <2>1. TypeOK /\ PhaseInv(i) /\ HistoryInv(i) /\ PlannedInv(i) /\ Acyclic(plan)
    BY DEF PlanInv, QueueInv, ItemInv
  <2>2. ValidClaim(i)
    BY <2>1 DEF ValidClaim, PhaseInv, HistoryInv
  <2>3. ValidHistory(i)
    <3> SUFFICES ASSUME attempts[i] # <<>>, status[i] = "ready"
                 PROVE  Current(i).retiredBy # NoOne
      BY <2>1 DEF ValidHistory, HistoryInv
    <3>1. claim[i] = NoOne /\ Number(i) \in 1..Number(i)
      BY <2>1, EmptySeq, LenProperties DEF PhaseInv, Number, TypeOK
    <3> QED
      BY <2>1, <3>1 DEF HistoryInv, Current
  <2>4. ValidDependencies(i)
    BY <2>1 DEF ValidDependencies, PlannedInv
  <2> QED
    BY <2>1, <2>2, <2>3, <2>4
<1> QED
  BY <1>1, PlanInvariant, PTL

-----------------------------------------------------------------------------
(* The hard stop.                                                          *)

Working(s) == s \in {"in_progress", "proving"}

\* A call that does not put an item to work, nor touch what was requested of it.
Kept(i) ==
  Working(status'[i]) =>
    Working(status[i]) /\ requested'[i] = requested[i] /\ Number(i)' = Number(i)

\* Moving an item with its attempt adds no attempt.
LEMMA TrackedLength ==
  ASSUME TypeOK, NEW k \in Items, NEW i \in Items,
         NEW to \in AttemptStatuses, NEW findings \in SUBSET Nat,
         attempts' = Tracked(k, to, findings)
  PROVE  Number(i)' = Number(i)
<1>1. CASE attempts[k] = <<>>
  BY <1>1 DEF Tracked, Number
<1>2. CASE attempts[k] # <<>>
  BY <1>2, TrackedShape DEF Number
<1> QED
  BY <1>1, <1>2

\* Only a claim puts an item to work.
LEMMA OnlyClaimsStartWork ==
  ASSUME {"legacy", "retry"} \cap Triggers = {}, QueueInv,
         NEW k \in Items, NEW i \in Items, Operate(k),
         ~ \E o \in Owners : ClaimWorkItem(k, o)
  PROVE  Kept(i)
<1>1. TypeOK /\ PhaseInv(k)
  BY DEF QueueInv, ItemInv
<1>2. CASE \E g \in Graphs, s \in {"backlog", "ready"} : k \in DOMAIN g /\ AddWorkItem(k, g[k], s)
  <2>1. PICK s \in {"backlog", "ready"} : status' = [status EXCEPT ![k] = s]
                                           /\ UNCHANGED <<requested, attempts>>
    BY <1>2 DEF AddWorkItem
  <2> QED
    BY <1>1, <2>1 DEF TypeOK, Kept, Working, Number
<1>3. CASE \/ \E h \in Humans : AuthorizeWorkItem(k, h)
           \/ RevokeWorkItemAuthorization(k)
  <2>1. /\ requested' = requested
        /\ status' = [status EXCEPT ![k] = "ready"] \/ status' = [status EXCEPT ![k] = "backlog"]
    BY <1>3 DEF AuthorizeWorkItem, RevokeWorkItemAuthorization
  <2>2. i # k => attempts'[i] = attempts[i]
    BY <1>1, <1>3 DEF AuthorizeWorkItem, RevokeWorkItemAuthorization, RetiredHistory,
                      WithCurrent, TypeOK
  <2> QED
    BY <1>1, <2>1, <2>2 DEF TypeOK, Kept, Working, Number
<1>4. CASE \E t \in SystemTriggers, to \in TicketStatuses : TransitionSystemWorkItem(k, t, to)
  <2>1. PICK t \in SystemTriggers, to \in TicketStatuses : TransitionSystemWorkItem(k, t, to)
    BY <1>4
  <2>2. /\ status' = [status EXCEPT ![k] = to]
        /\ requested' = [requested EXCEPT ![k] = FindingsAfter(k, to)]
        /\ attempts' = Tracked(k, to, FindingsAfter(k, to))
        /\ t \in Triggers /\ LegalSystemEdge(k, t, status[k], to)
        /\ to # "blocked" => claim[k] # NoOne
    BY <2>1 DEF TransitionSystemWorkItem
  <2>3. Working(to) => status[k] = "in_progress" /\ to = "proving"
    BY <1>1, <2>2 DEF LegalSystemEdge, ExecutionEdge, RetryEdge, Working, PhaseInv
  <2>4. Working(to) => FindingsAfter(k, to) = requested[k]
    BY <2>3 DEF FindingsAfter
  <2>5. Number(i)' = Number(i)
    <3>1. to \in AttemptStatuses /\ FindingsAfter(k, to) \in SUBSET Nat
      BY <1>1, <2>1, FindingsType, TransitionType
    <3> QED
      BY <1>1, <2>2, <3>1, TrackedLength
  <2> QED
    BY <1>1, <2>2, <2>3, <2>4, <2>5 DEF TypeOK, Kept, Working
<1>5. CASE \E to \in TicketStatuses \cup LegacyStatuses : TransitionWorkItem(k, to)
  BY <1>5 DEF TransitionWorkItem
<1>6. CASE \/ \E o \in Owners : StartWorkItemDelegation(k, o)
           \/ \E thread \in 1..MaxDelegations[k], outcome \in {"completed", "failed"} :
                EndWorkItemDelegation(k, thread, outcome)
           \/ \E thread \in 0..MaxDelegations[k], done \in BOOLEAN : RecordHandoff(k, thread, done)
  <2>1. UNCHANGED <<status, requested, attempts>>
    BY <1>6 DEF StartWorkItemDelegation, EndWorkItemDelegation, RecordHandoff
  <2> QED
    BY <2>1 DEF Kept, Number
<1>7. CASE \E reviewer \in Owners \cup {Verifier},
               outcome \in {"accepted", "changes_requested", "blocked"} :
              RecordReview(k, reviewer, outcome)
  <2>1. PICK reviewer \in Owners \cup {Verifier},
             outcome \in {"accepted", "changes_requested", "blocked"} :
               RecordReview(k, reviewer, outcome)
    BY <1>7
  <2> DEFINE to == ReviewStatus(k, outcome)
             findings == IF outcome = "accepted" THEN {} ELSE {Number(k)}
  <2>2. status[k] = "proving" /\ Number(k) \in Nat
    BY <1>1, <2>1, LenProperties DEF RecordReview, PhaseInv, LegacyStatuses, Number, TypeOK
  <2>3. to \in AttemptStatuses /\ ~Working(to) /\ findings \in SUBSET Nat
    BY <2>2 DEF ReviewStatus, AttemptStatuses, TicketStatuses, Working
  <2>4. /\ status' = [status EXCEPT ![k] = to] /\ attempts' = Tracked(k, to, findings)
        /\ requested' = [requested EXCEPT ![k] = findings]
    BY <2>1, <2>2 DEF RecordReview
  <2> HIDE DEF to, findings
  <2>5. Number(i)' = Number(i)
    BY <1>1, <2>3, <2>4, TrackedLength
  <2> QED
    BY <1>1, <2>3, <2>4, <2>5 DEF TypeOK, Kept
<1> QED
  BY <1>2, <1>3, <1>4, <1>5, <1>6, <1>7 DEF Operate, Handle, Judge

\* A claim opens an attempt later than the one whose findings the item carries.
LEMMA HardStopStep ==
  ASSUME {"legacy", "retry"} \cap Triggers = {}, QueueInv, NEW i \in Items, HardStopInv(i), Next
  PROVE  HardStopInv(i)'
<1>1. TypeOK /\ ItemInv(i) /\ Number(i) \in Nat
  BY LenProperties DEF QueueInv, TypeOK, Number
<1>2. CASE Kept(i)
  BY <1>2 DEF Kept, Working, HardStopInv
<1>3. CASE \E graph \in Graphs : PersistWorkGraph(graph)
  <2>1. status'[i] \in {status[i], "ready", "backlog"} /\ UNCHANGED <<attempts, requested>>
    BY <1>3 DEF PersistWorkGraph
  <2> QED
    BY <1>2, <2>1 DEF Kept, Working, Number
<1>4. ASSUME NEW k \in Items, NEW o \in Owners, ClaimWorkItem(k, o) PROVE HardStopInv(i)'
  <2> DEFINE a == [auth |-> auth[k], owner |-> o, findings |-> requested[k],
                   status |-> "in_progress", retiredBy |-> NoOne]
  <2>1. a \in Attempt /\ attempts' = Appended(k, a) /\ requested' = requested
        /\ attempts \in [Items -> Seq(Attempt)]
    BY <1>1, <1>4 DEF ClaimWorkItem, Appended, TypeOK, Attempt, AttemptStatuses, TicketStatuses
  <2>2. /\ Number(k)' = Number(k) + 1 /\ Number(k) \in Nat
        /\ \A j \in Items \ {k} : Number(j)' = Number(j)
    <3> HIDE DEF a
    <3> QED
      BY <2>1, AppendedShape DEF Number
  <2>3. CASE k = i
    <3>1. requested[i] \in {{}, {Number(i) - 1}, {Number(i)}}
      BY <1>1 DEF ItemInv, FindingsInv
    <3> QED
      BY <1>1, <2>1, <2>2, <2>3, <3>1 DEF HardStopInv
  <2>4. CASE k # i
    <3>1. status'[i] = status[i]
      BY <1>1, <1>4, <2>4 DEF ClaimWorkItem, TypeOK
    <3> QED
      BY <2>1, <2>2, <2>4, <3>1 DEF HardStopInv
  <2> QED
    BY <2>3, <2>4
<1> QED
  BY <1>2, <1>3, <1>4, OnlyClaimsStartWork DEF Next

\* README: Changes Requested is a hard stop.  Without retry and compatibility calls,
\* no attempt that was sent back is ever worked on again.
THEOREM HardStop ==
  ASSUME {"legacy", "retry"} \cap Triggers = {}
  PROVE  Spec => []ChangesRequestedIsHardStop
<1> DEFINE Inv == QueueInv /\ \A i \in Items : HardStopInv(i)
<1>1. Init => Inv
  BY InitQueue DEF Init, HardStopInv
<1>2. Inv /\ [Next]_vars => Inv'
  <2> SUFFICES ASSUME Inv, [Next]_vars PROVE Inv'
    OBVIOUS
  <2>1. QueueInv'
    BY QueueStuttering
  <2>2. CASE UNCHANGED vars
    BY <2>1, <2>2 DEF vars, HardStopInv, Number
  <2>3. CASE Next
    BY <2>1, <2>3, HardStopStep
  <2> QED
    BY <2>2, <2>3
<1>3. Inv => ChangesRequestedIsHardStop
  BY DEF HardStopInv, ChangesRequestedIsHardStop
<1> QED
  BY <1>1, <1>2, <1>3, PTL DEF Spec
=============================================================================
