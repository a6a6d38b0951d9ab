--------------------------- MODULE TicketLifecycle ---------------------------
(***************************************************************************)
(* The work items of one mission, as MissionService (domain.ts) changes    *)
(* them: queue entry, human authorization, claims and attempts, system and *)
(* compatibility transitions, delegations, handoffs and reviews.           *)
(*                                                                         *)
(* One action is one call of MissionService whose mutator ran to its end   *)
(* and whose result was saved.  A call that fails changes nothing and is   *)
(* no step.  The service validates what the mutator built before it saves  *)
(* it (Saved); with Validated = FALSE the calls run without that net, to   *)
(* study whether their own guards suffice.  The mission-level guards       *)
(* (ensureOpen) are added where this module is composed with the mission.  *)
(*                                                                         *)
(* A definition commented "Mutation of X" is a plausible bug in the code   *)
(* of X; nothing here uses it, it only shows what a property would catch.  *)
(***************************************************************************)
EXTENDS Naturals, Sequences

CONSTANTS
  Items,          \* the work-item ids the mission may get
  Graphs,         \* the work graphs that callers propose, [set of items -> Plan]
  Humans,         \* actors of human authorizations
  Owners,         \* execution owners: who claims and who is delegated to
  Verifier,       \* the independent reviewer
  NoOne,          \* absent owner or actor
  Triggers,       \* the transition triggers callers use
  Validated,      \* whether results are validated before they are saved, as the code does
  MaxAttempts, MaxGrants, MaxDelegations, MaxHandoffs   \* bounds per item on counters

TicketStatuses == {"backlog", "ready", "in_progress", "proving", "changes_requested",
                   "awaiting_approval", "delivering", "done", "blocked"}
LegacyStatuses == {"ready_for_review", "complete"}
AttemptStatuses == TicketStatuses \ {"backlog", "ready"}
SystemTriggers == {"claim", "execution", "proof", "approval", "delivery", "failure", "retry"}

\* What is planned for an item, and whether it carries requiredChecks and allowedFiles.
Plan == [dependsOn: SUBSET Items, role: {"planner", "implementer", "reviewer", "none"},
         checked: BOOLEAN, scoped: BOOLEAN]
NoPlan == [dependsOn |-> {}, role |-> "none", checked |-> FALSE, scoped |-> FALSE]

ASSUME ConstantsAssumption ==
  /\ \A g \in Graphs : DOMAIN g \subseteq Items /\ g \in [DOMAIN g -> Plan]
  /\ Triggers \subseteq SystemTriggers \cup {"human", "legacy"}
  /\ Validated \in BOOLEAN
  /\ NoOne \notin Humans \cup Owners \cup {Verifier}
  /\ Verifier \notin Owners
  /\ {MaxAttempts, MaxGrants, MaxDelegations, MaxHandoffs} \subseteq [Items -> Nat]

VARIABLES
  plan,        \* plan[i]: dependencies, role, checks and scope of item i
  status,      \* status[i]: work item status, or "absent" before it is created
  auth,        \* auth[i]: its executionAuthorization (0: none), numbered by grant
  granted,     \* granted[i]: authorizations humans ever gave item i
  claim,       \* claim[i]: owner of its durable claim, or NoOne
  attempts,    \* attempts[i]: the attempt history
  requested,   \* requested[i]: requestedChanges, as the attempts that raised them
  delegation,  \* delegation[i]: the last delegation, numbered by its thread
  handoff,     \* handoff[i]: the latest handoff
  review       \* review[i]: the latest review

vars == <<plan, status, auth, granted, claim, attempts, requested, delegation, handoff, review>>
workVars == <<delegation, handoff, review>>

Attempt == [auth: Nat, owner: Owners, findings: SUBSET Nat,
            status: AttemptStatuses, retiredBy: Humans \cup {NoOne}]
Delegation == [thread: Nat, owner: Owners \cup {NoOne},
               status: {"none", "running", "completed", "failed"}]
Handoff == [id: Nat, attempt: Nat, thread: Nat, done: BOOLEAN]
Review == [handoff: Nat, attempt: Nat, reviewer: Owners \cup {Verifier, NoOne},
           outcome: {"none", "accepted", "changes_requested", "blocked"}]

TypeOK ==
  /\ plan \in [Items -> Plan]
  /\ status \in [Items -> TicketStatuses \cup LegacyStatuses \cup {"absent"}]
  /\ auth \in [Items -> Nat]
  /\ granted \in [Items -> Nat]
  /\ claim \in [Items -> Owners \cup {NoOne}]
  /\ attempts \in [Items -> Seq(Attempt)]
  /\ requested \in [Items -> SUBSET Nat]
  /\ delegation \in [Items -> Delegation]
  /\ handoff \in [Items -> Handoff]
  /\ review \in [Items -> Review]

Init ==
  /\ plan = [i \in Items |-> NoPlan]
  /\ status = [i \in Items |-> "absent"]
  /\ auth = [i \in Items |-> 0]
  /\ granted = [i \in Items |-> 0]
  /\ claim = [i \in Items |-> NoOne]
  /\ attempts = [i \in Items |-> <<>>]
  /\ requested = [i \in Items |-> {}]
  /\ delegation = [i \in Items |-> [thread |-> 0, owner |-> NoOne, status |-> "none"]]
  /\ handoff = [i \in Items |-> [id |-> 0, attempt |-> 0, thread |-> 0, done |-> FALSE]]
  /\ review = [i \in Items |->
                 [handoff |-> 0, attempt |-> 0, reviewer |-> NoOne, outcome |-> "none"]]

-----------------------------------------------------------------------------
(* Helpers of the mutators and of the validation.                          *)

Present == {i \in Items : status[i] # "absent"}
Completed(s) == s \in {"done", "complete"}
AllComplete(ids) == \A d \in ids : Completed(status[d])
DependenciesComplete(i) == AllComplete(plan[i].dependsOn)   \* ensureDependenciesComplete
Implementer(i) == plan[i].role = "implementer"

\* assertAcyclicDependencies: no set of items depends on itself all around.
Acyclic(p) ==
  \A S \in SUBSET DOMAIN p : S # {} => \E i \in S : p[i].dependsOn \cap S = {}

\* validateWorkGraph: a graph is closed, its dependencies have no cycle (so it has
\* a root), and an implementer has a scope.
ValidGraph(g) ==
  /\ DOMAIN g # {}
  /\ \A i \in DOMAIN g : g[i].role # "none" /\ (g[i].role = "implementer" => g[i].scoped)
  /\ \A i \in DOMAIN g : g[i].dependsOn \subseteq DOMAIN g
  /\ Acyclic(g)

Number(i) == Len(attempts[i])          \* workItem.attempt
Current(i) == attempts[i][Number(i)]   \* workItem.attempts.at(-1)

\* Mutation of WithCurrent: attempts[0] instead of attempts.at(-1).
WithFirst(i, a) == [attempts EXCEPT ![i] = [@ EXCEPT ![1] = a]]

\* The history of item i with its last attempt replaced by a.
WithCurrent(i, a) == [attempts EXCEPT ![i] = [@ EXCEPT ![Len(@)] = a]]

\* Mutation of Tracked: the item moves and its attempt does not.
Untracked(i, to, findings) == attempts

\* updateCurrentAttempt: the last attempt follows the item, whoever holds it.
Tracked(i, to, findings) ==
  IF attempts[i] = <<>> THEN attempts
  ELSE WithCurrent(i, [Current(i) EXCEPT !.status = to,
                                         !.findings = IF findings = {} THEN @ ELSE findings])

\* Mutation of NotRunning: the running delegation is not looked at.
MaybeRunning(i) == TRUE
NotRunning(i) == delegation[i].status # "running"

Structured(i) ==
  Implementer(i) /\ ((plan[i].checked /\ plan[i].scoped) \/ delegation[i].thread > 0)

\* A handoff of this attempt, done, by the delegated thread if there is one.
SuccessfulHandoff(i) ==
  /\ handoff[i].id > 0 /\ handoff[i].done
  /\ Number(i) > 0 => handoff[i].attempt = Number(i)
  /\ delegation[i].thread > 0 => /\ delegation[i].status = "completed"
                                 /\ handoff[i].thread = delegation[i].thread

\* The latest review accepted the latest handoff of this attempt.
AcceptedReview(i) ==
  /\ handoff[i].id > 0
  /\ review[i].outcome = "accepted"
  /\ review[i].handoff = handoff[i].id
  /\ Number(i) > 0 => handoff[i].attempt = Number(i) /\ review[i].attempt = Number(i)

-----------------------------------------------------------------------------
(* validateMissionState, the part about work items: a state that fails it  *)
(* is never saved.                                                         *)

ValidClaim(i) ==
  /\ claim[i] # NoOne => status[i] \notin {"backlog", "ready"}
  /\ claim[i] # NoOne /\ attempts[i] # <<>> => Current(i).owner = claim[i]

ValidHistory(i) ==
  attempts[i] # <<>> =>
    /\ status[i] = "ready" /\ Current(i).status = "changes_requested"
         => Current(i).retiredBy # NoOne
    /\ status[i] \in AttemptStatuses => Current(i).status = status[i]

ValidDependencies(i) ==
  /\ status[i] # "absent" => plan[i].dependsOn \subseteq Present
  /\ status[i] \notin {"absent", "backlog", "blocked"} => DependenciesComplete(i)

\* Mutation of ValidReview: the review is only checked when the item completes.
AnyReview(i) == TRUE
ValidReview(i) == Structured(i) /\ Completed(status[i]) => AcceptedReview(i)

Valid ==
  /\ \A i \in Items :
       ValidClaim(i) /\ ValidHistory(i) /\ ValidDependencies(i) /\ ValidReview(i)
  /\ Acyclic(plan)

\* mutate: only a valid result is saved.
Saved == Validated => Valid'

-----------------------------------------------------------------------------
(* Entry into the queue.                                                   *)

\* addWorkItem: "ready" demands dependencies in the compatibility status "complete".
AddWorkItem(i, planned, s) ==
  /\ status[i] = "absent"
  /\ planned.dependsOn \subseteq Present
  /\ s = "ready" => \A d \in planned.dependsOn : status[d] = "complete"
  /\ plan' = [plan EXCEPT ![i] = planned]
  /\ status' = [status EXCEPT ![i] = s]
  /\ UNCHANGED <<auth, granted, claim, attempts, requested, workVars>>
  /\ Saved

\* Mutation of Replannable: a started item may be replanned at will.
AnyReplan(i, planned) == TRUE

\* An item that entered the queue may only be replanned on completed dependencies.
Replannable(i, planned) ==
  status[i] \notin {"backlog", "blocked"} => AllComplete(planned.dependsOn)

\* persistWorkGraph: replans every persisted item, which keeps its progress and,
\* unless they are planned again, its checks and scope, and adds the new ones.
PersistWorkGraph(graph) ==
  /\ ValidGraph(graph)
  /\ Present \subseteq DOMAIN graph
  /\ \A i \in Present : Replannable(i, graph[i])
  /\ plan' = [i \in Items |->
       IF i \in DOMAIN graph
       THEN [graph[i] EXCEPT !.checked = @ \/ plan[i].checked, !.scoped = @ \/ plan[i].scoped]
       ELSE plan[i]]
  /\ status' = [i \in Items |->
       IF i \notin DOMAIN graph \/ i \in Present THEN status[i]
       ELSE IF AllComplete(graph[i].dependsOn) THEN "ready" ELSE "backlog"]
  /\ UNCHANGED <<auth, granted, claim, attempts, requested, workVars>>
  /\ Saved

-----------------------------------------------------------------------------
(* Human decisions on the board.                                           *)

\* Mutation of RetiredHistory: the rework authorization does not retire the attempt.
UnretiredHistory(i, h) == attempts

\* The attempt a rework authorization retires: the last one, or for a claim of
\* before attempts were recorded, one rebuilt from the claim.
RetiredHistory(i, h) ==
  IF attempts[i] # <<>>
  THEN WithCurrent(i, [Current(i) EXCEPT
         !.owner = IF claim[i] = NoOne THEN @ ELSE claim[i],
         !.status = "changes_requested", !.retiredBy = h])
  ELSE IF claim[i] = NoOne THEN attempts
  ELSE [attempts EXCEPT ![i] = <<[auth |-> auth[i], owner |-> claim[i],
          findings |-> requested[i], status |-> "changes_requested", retiredBy |-> h]>>]

\* Mutation of NewAuthorization: a rework keeps the authorization it has.
KeptAuthorization(i) == IF auth[i] = 0 THEN granted[i] + 1 ELSE auth[i]

\* Every authorization is a grant of its own (its actor and time).
NewAuthorization(i) == granted[i] + 1

AuthorizeWorkItem(i, h) ==
  /\ "human" \in Triggers /\ granted[i] < MaxGrants[i]
  /\ status[i] \in {"backlog", "changes_requested"}
  /\ status[i] = "backlog" => claim[i] = NoOne
  /\ DependenciesComplete(i)
  /\ IF status[i] = "changes_requested"
     THEN /\ NotRunning(i)
          /\ attempts' = RetiredHistory(i, h)
          /\ claim' = [claim EXCEPT ![i] = NoOne]
     ELSE UNCHANGED <<attempts, claim>>
  /\ granted' = [granted EXCEPT ![i] = @ + 1]
  /\ auth' = [auth EXCEPT ![i] = NewAuthorization(i)]
  /\ status' = [status EXCEPT ![i] = "ready"]
  /\ UNCHANGED <<plan, requested, workVars>>
  /\ Saved

RevokeWorkItemAuthorization(i) ==
  /\ "human" \in Triggers
  /\ status[i] = "ready" /\ claim[i] = NoOne
  /\ auth' = [auth EXCEPT ![i] = 0]
  /\ status' = [status EXCEPT ![i] = "backlog"]
  /\ UNCHANGED <<plan, granted, claim, attempts, requested, workVars>>
  /\ Saved

-----------------------------------------------------------------------------
(* Execution.                                                              *)

ClaimWorkItem(i, o) ==
  /\ Number(i) < MaxAttempts[i]
  /\ status[i] = "ready"
  /\ auth[i] # 0
  /\ claim[i] = NoOne
  /\ DependenciesComplete(i)
  /\ attempts' = [attempts EXCEPT ![i] = Append(@,
       [auth |-> auth[i], owner |-> o, findings |-> requested[i],
        status |-> "in_progress", retiredBy |-> NoOne])]
  /\ claim' = [claim EXCEPT ![i] = o]
  /\ status' = [status EXCEPT ![i] = "in_progress"]
  /\ UNCHANGED <<plan, auth, granted, requested, workVars>>
  /\ Saved

\* Mutation of ExecutionEdge: execution resumes work that was sent back.
ResumingEdge(t, from, to) ==
  t = "execution" /\ <<from, to>> \in {<<"in_progress", "proving">>,
                                      <<"changes_requested", "in_progress">>}
ExecutionEdge(t, from, to) == t = "execution" /\ from = "in_progress" /\ to = "proving"

\* Mutation of RetryEdge: a retry puts the item back in the queue.
RequeueEdge(t, from, to) == t = "retry" /\ from = "blocked" /\ to = "ready"
RetryEdge(t, from, to) == t = "retry" /\ from = "blocked" /\ to = "in_progress"

\* Mutation of DoneByProof: an implementation is done without a delivery.
AnyDoneByProof(i) == TRUE
DoneByProof(i) == ~Implementer(i)

\* The edges transitionSystemWorkItem accepts for each trigger.
LegalSystemEdge(i, t, from, to) ==
  \/ t = "claim" /\ from = "ready" /\ to = "in_progress"
  \/ ExecutionEdge(t, from, to)
  \/ t = "proof" /\ from = "proving"
     /\ \/ to \in {"changes_requested", "awaiting_approval", "blocked"}
        \/ to = "done" /\ DoneByProof(i)
  \/ t = "approval" /\ from = "awaiting_approval" /\ to = "delivering"
  \/ t = "delivery" /\ from = "delivering" /\ to = "done"
  \/ t = "failure" /\ to = "blocked"
     /\ from \in {"ready", "in_progress", "proving", "changes_requested",
                  "awaiting_approval", "delivering"}
  \/ RetryEdge(t, from, to)

\* Mutation of FindingsAfter: a move drops the findings of the item.
FindingsDropped(i, to) == {}

\* The findings an item keeps when it moves to a status; a new request replaces them.
FindingsAfter(i, to) ==
  IF to = "changes_requested" THEN {Number(i)}
  ELSE IF to \in {"awaiting_approval", "done"} THEN {} ELSE requested[i]

TransitionSystemWorkItem(i, t, to) ==
  /\ t \in Triggers \cap SystemTriggers
  /\ LegalSystemEdge(i, t, status[i], to)
  /\ to # "blocked" => claim[i] # NoOne
  /\ requested' = [requested EXCEPT ![i] = FindingsAfter(i, to)]
  /\ attempts' = Tracked(i, to, FindingsAfter(i, to))
  /\ status' = [status EXCEPT ![i] = to]
  /\ UNCHANGED <<plan, auth, granted, claim, workVars>>
  /\ Saved

\* workItemTransitions: the edges of transitionWorkItem with the trigger "legacy" or none.
LegacyEdges ==
  [from \in TicketStatuses \cup LegacyStatuses |->
     CASE from = "backlog" -> {"ready", "blocked"}
       [] from = "ready" -> {"backlog", "in_progress", "blocked"}
       [] from = "in_progress" -> {"proving", "ready_for_review", "blocked"}
       [] from = "proving" -> {"changes_requested", "awaiting_approval", "blocked"}
       [] from = "changes_requested" -> {"blocked"}
       [] from = "awaiting_approval" -> {"delivering", "blocked"}
       [] from = "delivering" -> {"done", "blocked"}
       [] from = "blocked" -> {"ready", "in_progress"}
       [] from = "ready_for_review" -> {"complete", "blocked"}
       [] from \in {"done", "complete"} -> {}]

TransitionWorkItem(i, to) ==
  /\ "legacy" \in Triggers
  /\ status[i] # "absent" /\ to \in LegacyEdges[status[i]]
  /\ to \in {"ready", "in_progress"} => DependenciesComplete(i)
  /\ Structured(i) /\ to \in {"ready_for_review", "proving", "complete", "done"}
       => SuccessfulHandoff(i)
  /\ Structured(i) /\ Completed(to) => AcceptedReview(i)
  /\ status' = [status EXCEPT ![i] = to]
  /\ UNCHANGED <<plan, auth, granted, claim, attempts, requested, workVars>>
  /\ Saved

-----------------------------------------------------------------------------
(* Delegations, handoffs and independent review.                           *)

\* Mutation of MayDelegate: the owner of the claim is not looked at.
AnyoneMayDelegate(i, o) == o \in Owners
MayDelegate(i, o) == claim[i] \in {NoOne, o}

\* Every delegation runs on a thread of its own: threads number the delegations.
StartWorkItemDelegation(i, o) ==
  /\ delegation[i].thread < MaxDelegations[i]
  /\ status[i] = "in_progress"
  /\ DependenciesComplete(i)
  /\ NotRunning(i)
  /\ Implementer(i) => plan[i].scoped
  /\ MayDelegate(i, o)
  /\ claim' = [claim EXCEPT ![i] = o]
  /\ delegation' = [delegation EXCEPT ![i] =
       [thread |-> @.thread + 1, owner |-> o, status |-> "running"]]
  /\ UNCHANGED <<plan, status, auth, granted, attempts, requested, handoff, review>>
  /\ Saved

\* completeWorkItemDelegation and failWorkItemDelegation (interrupted or failed: no
\* code tells them apart): an event of another thread, or of one that already ended,
\* is refused.
EndWorkItemDelegation(i, thread, outcome) ==
  /\ delegation[i].thread = thread /\ delegation[i].status = "running"
  /\ delegation' = [delegation EXCEPT ![i].status = outcome]
  /\ UNCHANGED <<plan, status, auth, granted, claim, attempts, requested, handoff, review>>
  /\ Saved

\* A handoff may be recorded in any status (nothing reads one of an item that is
\* not for an implementer); one that claims the delegated work
\* is done must come from the completed thread.
RecordHandoff(i, thread, done) ==
  /\ Implementer(i) /\ status[i] # "absent"
  /\ handoff[i].id < MaxHandoffs[i]
  /\ thread <= delegation[i].thread /\ (~done => thread = 0)
  /\ done /\ delegation[i].thread > 0 =>
       delegation[i].status = "completed" /\ thread = delegation[i].thread
  /\ handoff' = [handoff EXCEPT ![i] =
       [id |-> @.id + 1, attempt |-> Number(i), thread |-> thread, done |-> done]]
  /\ UNCHANGED <<plan, status, auth, granted, claim, attempts, requested, delegation, review>>
  /\ Saved

ReviewStatus(i, outcome) ==
  IF status[i] = "ready_for_review"
  THEN CASE outcome = "accepted" -> "complete"
         [] outcome = "changes_requested" -> "ready"
         [] outcome = "blocked" -> "blocked"
  ELSE CASE outcome = "accepted" -> "awaiting_approval"
         [] outcome = "changes_requested" -> "changes_requested"
         [] outcome = "blocked" -> "blocked"

\* recordReview: the compatibility path keeps the attempts and frees the claim
\* on requested changes; the product path tracks the attempt and keeps the claim.
RecordReview(i, reviewer, outcome) ==
  /\ status[i] \in {"ready_for_review", "proving"}
  /\ Structured(i) /\ SuccessfulHandoff(i)
  /\ reviewer # delegation[i].owner
  /\ review' = [review EXCEPT ![i] = [handoff |-> handoff[i].id, attempt |-> Number(i),
                                      reviewer |-> reviewer, outcome |-> outcome]]
  /\ status' = [status EXCEPT ![i] = ReviewStatus(i, outcome)]
  /\ IF status[i] = "proving"
     THEN LET findings == IF outcome = "accepted" THEN {} ELSE {Number(i)} IN
          /\ requested' = [requested EXCEPT ![i] = findings]
          /\ attempts' = Tracked(i, ReviewStatus(i, outcome), findings)
          /\ UNCHANGED claim
     ELSE /\ claim' = [claim EXCEPT ![i] = IF outcome = "changes_requested" THEN NoOne ELSE @]
          /\ UNCHANGED <<requested, attempts>>
  /\ UNCHANGED <<plan, auth, granted, delegation, handoff>>
  /\ Saved

-----------------------------------------------------------------------------
\* Every call about item i but its review.
Handle(i) ==
  \/ \E g \in Graphs, s \in {"backlog", "ready"} : i \in DOMAIN g /\ AddWorkItem(i, g[i], s)
  \/ \E h \in Humans : AuthorizeWorkItem(i, h)
  \/ RevokeWorkItemAuthorization(i)
  \/ \E o \in Owners : ClaimWorkItem(i, o)
  \/ \E t \in SystemTriggers, to \in TicketStatuses : TransitionSystemWorkItem(i, t, to)
  \/ \E to \in TicketStatuses \cup LegacyStatuses : TransitionWorkItem(i, to)
  \/ \E o \in Owners : StartWorkItemDelegation(i, o)
  \/ \E thread \in 1..MaxDelegations[i], outcome \in {"completed", "failed"} :
       EndWorkItemDelegation(i, thread, outcome)
  \/ \E thread \in 0..MaxDelegations[i], done \in BOOLEAN : RecordHandoff(i, thread, done)

Judge(i) ==
  \E reviewer \in Owners \cup {Verifier}, outcome \in {"accepted", "changes_requested", "blocked"} :
    RecordReview(i, reviewer, outcome)

Operate(i) == Handle(i) \/ Judge(i)

Next ==
  \/ \E graph \in Graphs : PersistWorkGraph(graph)
  \/ \E i \in Items : Operate(i)

Spec == Init /\ [][Next]_vars

-----------------------------------------------------------------------------
(* Properties.                                                             *)

\* Even when nothing validates their results, the mutators never build a state that
\* validateMissionState would refuse for its claims, its attempt history or its
\* dependencies.
MutatorsKeepQueueValid ==
  /\ \A i \in Items : ValidClaim(i) /\ ValidHistory(i) /\ ValidDependencies(i)
  /\ Acyclic(plan)

\* Every attempt spends a human authorization of its own, given after the one of
\* the attempt before it (README: a human must move the ticket back to Ready
\* before another bounded attempt can begin).
FreshAuthorizationPerAttempt ==
  \A i \in Items : \A n \in 1..Number(i) :
    /\ attempts[i][n].auth \in 1..granted[i]
    /\ n > 1 => attempts[i][n - 1].auth < attempts[i][n].auth

\* Claim exclusivity over the whole history: every attempt but the last was
\* retired by a human, and the last is open exactly while the claim is held.
OneOpenAttempt ==
  \A i \in Items : \A n \in 1..Number(i) :
    attempts[i][n].retiredBy = NoOne <=> (n = Number(i) /\ claim[i] # NoOne)

\* A delegation runs only for the owner that holds the item's claim, so work on
\* an attempt ends before a human can free the item for another one.
RunningDelegationHoldsClaim ==
  \A i \in Items :
    delegation[i].status = "running" => claim[i] # NoOne /\ delegation[i].owner = claim[i]

\* The attempt history keeps why each rework was ordered: attempt n > 1 records the
\* findings that sent attempt n - 1 back, until its own review raises new ones.
ReworkCarriesFindings ==
  \A i \in Items : \A n \in 2..Number(i) :
    attempts[i][n].findings \in {{n - 1}, {n}}

\* Work is never resumed on an attempt that was sent back.
ChangesRequestedIsHardStop ==
  \A i \in Items :
    status[i] \in {"in_progress", "proving"} => Number(i) \notin requested[i]

\* Attempts before the last are never rewritten, and none is ever dropped.
EarlierAttemptsFrozen ==
  [][\A i \in Items :
       /\ Number(i) <= Len(attempts'[i])
       /\ \A n \in 1..(Number(i) - 1) : attempts'[i][n] = attempts[i][n]]_vars

\* "Prior attempts remain immutable history even after their claim is retired."
RetiredAttemptsImmutable ==
  [][\A i \in Items : \A n \in 1..Number(i) :
       attempts[i][n].retiredBy # NoOne => attempts'[i][n] = attempts[i][n]]_vars

\* A claim passes to another owner only after it was given up.
ClaimNeverStolen ==
  [][\A i \in Items :
       claim[i] # NoOne /\ claim'[i] # claim[i] => claim'[i] = NoOne]_vars

\* "The implementer cannot record its own independent review."
ImplementerNeverAcceptsOwnWork ==
  \A i \in Items : \A n \in 1..Number(i) :
    review[i].outcome = "accepted" /\ review[i].attempt = n =>
      review[i].reviewer # attempts[i][n].owner

\* Completion is final: neither the item nor the reviewed handoff it rests on
\* changes afterwards.
CompletionIsFinal ==
  [][\A i \in Items : Completed(status[i]) =>
       /\ status'[i] = status[i] /\ attempts'[i] = attempts[i]
       /\ Structured(i) => handoff'[i] = handoff[i] /\ review'[i] = review[i]]_vars
=============================================================================
