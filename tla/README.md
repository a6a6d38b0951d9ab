# Proof Board in TLA+

Proof Board keeps a durable queue of work tickets. A human authorizes a ticket,
a worker claims it for one bounded attempt, the attempt's result is handed off,
proved and reviewed independently, and a human approves the delivery, which
publishes a branch and opens a pull request. The authority over the state is one
class, `MissionService` in `src/src/domain.ts`; the local controller
(`src/src/http/server.ts`) drives it and TrueForge (`src/src/trueforge.ts`), and
a JSON file (`src/src/persistence.ts`) keeps it. This directory models them,
checks the models with TLC and proves their invariants with TLAPS. Source paths
are relative to the directory that holds `src/`.

## The system

| Component | State it keeps | Operations | Talks to | Hard part |
| --- | --- | --- | --- | --- |
| Ticket lifecycle (`domain.ts`) | work items: status, authorization, claim, attempts, findings, delegation; latest handoff and review | add, plan, authorize, revoke, claim, system and compatibility transitions, start/complete/fail delegation, record handoff, record review | called by the controller, the adapter and the board | order of legal calls; two claimants; stale delegation; history that must not change |
| Mission and delivery gate (`domain.ts`) | mission status, approvals with expiry, delivery attempts, deliveries | request and decide approval, record delivery attempt, result, delivery; mission transitions | ticket lifecycle | expiry checked at several points, a stale approval, one delivery per mission |
| Mission store (`MissionService.mutate`, `persistence.ts`) | the state and its revision in memory, the file | serialised mutate, compare-and-swap save, load | every caller; the file system | two services on one file, failure between rename and sync, a caller's stale read |
| Work graph (`domain.ts`) | dependencies of the items | validate, persist again | planner turn | replanning after work started |
| Execution bindings (`domain.ts`, `trueforge.ts`) | session, turn, sandbox, thread of mission, claim and attempt | attach | TrueForge | an identity replaced between attempts |
| Mission controller (`http/server.ts`) | promises of the operation in flight | create, plan, run, decide delivery, human moves, claim, failure recording | service, TrueForge, delivery adapter | a decision is not serialised with a run; restart at any await |
| TrueForge delivery (`trueforge.ts`) | none of its own; remote session, branch, pull request | request, resolve, reconcile approval | GitHub through TrueForge | lost answers, second creation |
| TrueForge turns (`trueforge.ts`) | session, its agent, running turns | coordinator turn, implementation turn, capture | TrueForge, Daytona | broken streams, turns without a reader, a replaced agent |
| Sandbox readiness (`daytona.ts`) | none | poll until started or deadline | Daytona | late readiness |
| Browser run coordinator (`http/public/run-state.js`) | the run in flight | run, refresh | controller | overlapping runs |
| Routes, views, diff parsing, diagnostics, demo, scripts | none that decides anything | | | texts and I/O only |

What makes each correct: the lifecycle keeps one open attempt per ticket, under
one human authorization of its own, and never rewrites history; the gate
delivers once, and only what a human approved unexpired for the current
attempt; the store loses no acknowledged update unless the power fails on a file
system that cannot sync a directory, and a caller's expected revision means what it
says; the controller never runs a ticket against a human
decision, every run of it ends, and it gives a mission up only for a cause; the
delivery adapter publishes under at most one approval, with the intent durable
before the effect.

## The modules

| Module | Models | Uses | Checked by |
| --- | --- | --- | --- |
| `TicketLifecycle` | the calls of `MissionService` about work items | | `MCTicketLifecycle` |
| `DeliveryGate` | its calls about the mission, approvals and deliveries | extends `TicketLifecycle` | `MCDeliveryGate` |
| `RevisionedRegister` | what the store promises its callers (abstract) | | as a property |
| `MissionStore` | `mutate`, `getState` and the JSON repository, await by await | refines `RevisionedRegister` | `MCMissionStore` |
| `MissionRun` | the controller from the creation of the mission to the approval gate, with the TrueForge turns and the capture | extends `TicketLifecycle` | `MCMissionRun` |
| `DeliveryProtocol` | the controller from the approval gate to the delivery, with the delivery adapter | its steps are steps of `DeliveryGate` | `MCDeliveryProtocol` |
| `TicketLifecycleProofs`, `TicketPlanProofs` | | | TLAPS |
| `DeliveryGateProofs`, `DeliveryOutcomeProofs` | | | TLAPS |
| `MissionStoreProofs` | | | TLAPS |
| `MissionRunProofs` | | uses `TicketLifecycleProofs` | TLAPS |
| `DeliveryProtocolProofs`, `DeliveryCallsProofs` | | | TLAPS |

There are two grains. In `TicketLifecycle` and `DeliveryGate` one action is one
call whose mutator ran to its end: `mutate` runs mutators one at a time, so calls
do not overlap, whoever makes them. `MissionStore` shows that this holds in the
presence of several services, failures and crashes. The controller's modules cut
at every `await`: between two steps, other callers, remote services and crashes
act. `MissionRun` makes its changes through the actions of `TicketLifecycle`;
`DeliveryProtocol` keeps a smaller state of its own (one ticket whose review was
accepted) and is shown to take only steps of `DeliveryGate`.

An operator that exists for a run with a changed definition is marked "Mutation
of ..." above the definition it stands for, and is not used otherwise.

## `TicketLifecycle`

A call that throws changes nothing (the service works on a clone) and is no step.
The service validates what a mutator built before it saves it, so every action
ends with `Saved`, which demands `Valid'` of the result. The constant `Validated`
says whether it does: `TRUE` is the code; with `FALSE` the calls run without
that net. That allows every behaviour of the code and more, so what is checked
there holds of the code, and it shows that the guards of the calls suffice by
themselves.

| Variable | In the code |
| --- | --- |
| `plan[i]` | `dependsOn`, `assignedRole`, and whether there are `requiredChecks` (`checked`) and `allowedFiles` (`scoped`) |
| `status[i]` | `WorkItem.status`, `"absent"` before the item exists |
| `auth[i]`, `granted[i]` | `executionAuthorization`, numbered by grant; a grant is told apart from another by its actor and time in the code |
| `claim[i]` | `claim.owner` |
| `attempts[i]` | `attempts`; an attempt carries its authorization, owner, findings, status and who retired it |
| `requested[i]` | `requestedChanges`, abstracted to the number of the attempt that raised them |
| `delegation[i]` | `delegation`; its thread numbers the delegations, as TrueForge gives each a fresh thread |
| `handoff[i]`, `review[i]` | the latest of `handoffs` and `reviews` of the item, the only ones any check reads |

| Action | Call |
| --- | --- |
| `AddWorkItem` | `addWorkItem` |
| `PersistWorkGraph` | `persistWorkGraph` with `validateWorkGraph` |
| `AuthorizeWorkItem`, `RevokeWorkItemAuthorization` | `authorizeWorkItem`, `revokeWorkItemAuthorization` (`moveWorkItemByHuman` only dispatches to them) |
| `ClaimWorkItem` | `claimWorkItem` |
| `TransitionSystemWorkItem` | `transitionSystemWorkItem`, one trigger at a time |
| `TransitionWorkItem` | `transitionWorkItem` with the trigger `legacy` or none |
| `StartWorkItemDelegation`, `EndWorkItemDelegation` | `startWorkItemDelegation`; `completeWorkItemDelegation` and `failWorkItemDelegation` |
| `RecordHandoff`, `RecordReview` | `recordHandoff`, `recordReview` |

Which triggers callers use is the constant `Triggers`: the product lifecycle
(every system trigger and `human`), the controller's (the same without
`retry`), or all of them with `legacy`. The controller itself makes one compatibility
call: a planned ticket that became ready without an authorization goes back to the
backlog. `MissionRun` has that call; the runs and theorems that leave `legacy` out
do not.

Abstracted: ids, texts and timestamps; the evidence that a handoff and a finding
quote (a handoff is `done` or not, and comes from a thread); the session and
sandbox a claim is bound to (in `MissionRun`); two missions in one file (no
operation on a work item reads another mission's items); `failed` and
`interrupted` delegations, which no code tells apart; the expected revision of a
call (in `MissionStore`); the mission's own status (`ensureOpen`), which only
removes behaviours and is added by `DeliveryGate`.

Runs (`MCTicketLifecycle`): two tickets as the controller makes them, an
inspection and an implementation that depends on it. The inspection is claimed
once and never delegated; the implementation is claimed twice (an attempt and
its rework). That is enough for every property: each speaks of one ticket's
consecutive attempts, or of a ticket and its dependency. Counters that have no
bound in the code are bounded by `MaxAttempts`, `MaxGrants`, `MaxDelegations` and
`MaxHandoffs`. Deadlock is not checked: a mission whose tickets are done or
blocked, or whose bounds are spent, has nothing left to do.

| Run | `Validated`, triggers | Shows |
| --- | --- | --- |
| `ticket_product` | `FALSE`, product triggers, two owners | every attempt spends its own later authorization; at most the last attempt is open, exactly while the claim is held; a delegation runs only under the claim; findings survive into the rework; earlier attempts are frozen; a claim is given up before it passes on; no call builds a state that validation would refuse |
| `ticket_controller` | `FALSE`, without `retry`, with replanning | an attempt that was sent back is never worked on again; replanning never leaves a started item on an open dependency nor a dependency cycle |
| `ticket_compatibility` | `TRUE`, all triggers | completion is final although compatibility and product calls mix |
| `ticket_retry` | `TRUE`; a violation | `failure` then `retry` resumes an attempt that was sent back |
| `ticket_retired` | `TRUE`; a violation | `failure` from `ready` rewrites the attempt a human retired |
| `ticket_self_review` | `TRUE`; a violation | the owner of an undelegated attempt accepts its own work |

One more was met and is not listed as a disagreement, because nothing promises
otherwise: with `retry` and replanning together, `MutatorsKeepQueueValid` fails
(a blocked ticket is replanned on an unfinished dependency and retried), and
validation refuses the result.

No liveness is stated here: humans and workers may stop at any time, and the
code schedules none of these calls.

## `DeliveryGate`

It extends the tickets by what belongs to the mission.

| Variable | In the code |
| --- | --- |
| `mission` | `Mission.status` |
| `reviewed[i]` | the id of the latest review of the item, as a number |
| `approvals` | `approvals` of the mission for the delivery action, in the order of their requests: work item, pinned attempt, handoff and review (0: not pinned), decision, whether `expiresAt` lies ahead (`live`), the delivery attempt recorded under it (`intent`) and that attempt's remote result (`pr`) |
| `delivery` | the delivery record |

| Action | Call |
| --- | --- |
| `TransitionMission` | `transitionMission`, with `ensureQueueApprovalReady` and `ensureQueueVerificationReady` |
| `RequestApproval` | `requestApproval`, `requestActionApproval` |
| `DecideApproval`, `Expire` | `decideApproval`; fifteen minutes pass |
| `RecordDeliveryAttempt`, `RecordDeliveryAttemptResult` | the calls of these names |
| `RecordDelivery`, `RecordFailedDelivery` | `recordDelivery` of either outcome, with `completeDeliveryAttempt`'s effect |
| `QueueCall`, `ReviewCall` | every call about work items, behind `ensureOpen` |

`ValidGate` is the part of `validateMissionState` about these; the calls end with
`GateSaved`. `authorizeAction` reads only.

Run `delivery_gate` (`MCDeliveryGate`, `Validated = FALSE`, the controller's
triggers, with deadlock off because a delivered mission stops): an
implementation that may be reworked once (two attempts, grants, handoffs and
reviews) next to an inspection that is never claimed, one approval that pins as
much or as little as a caller can, two candidate pull requests. Two tickets are
needed because a delivery looks at all the others; two attempts and two reviews
because the approval goes stale by a second one; two pull requests because the
first result must be kept; one approval because every property relates one
approval to the tickets, and several are in `delivery_protocol`. It shows:

* `DeliveredIsApprovedWork`: a delivered item is the approved attempt with its
  latest handoff and accepted latest review, and nothing else is unfinished;
* `DoneOnlyByApprovedDelivery`: an implementation that is done was delivered: the
  mission ended with it and a pull request, under an approval of its latest
  attempt. Neither a proof nor a review nor a plan completes one. The bare
  `delivery` trigger of `transitionSystemWorkItem` is left out, which no code under
  `src/src` uses, and so is `legacy`. The property says nothing about a read-back,
  which the service does not record: `delivery_readback` shows that the runbook's
  promise of one is not kept;
* `RemoteResultKept`, `DecisionsAreFinal`: the first remote result, a human's
  decision and the end of a mission stay;
* `GuardsKeepGateValid`: the guards alone keep what validation demands.

With `retry` the last one fails in a way that nothing forbids: a blocked ticket
whose delivery attempt is recorded can be resumed and sent back, its next claim
then fails validation, and the ticket stays unclaimable. The controller never
retries.

## `RevisionedRegister` and `MissionStore`

The register is the promise: a sequence of calls, each applied to the result of
the ones before; a call that was acknowledged is kept if the medium can be told to
keep it, one that was not may be applied, and even lost again. On a medium that
cannot, any of the latest calls may be lost. The store is the code. A mission state is the
sequence of the calls that led to it, its revision the length of that sequence.

| Variable | In the code |
| --- | --- |
| `disk`, `durable`, `lost` | what a read of the state file returns; what it would return after a power loss; what such a loss took |
| `syncs` | whether the file system can sync a directory: where it answers that it cannot, `syncDirectory` goes on as if it had, and the call is acknowledged |
| `cache[s]` | `MissionService.state`, unknown before the load and after a conflict |
| `phase[s]`, `call[s]`, `next[s]` | the call at the head of the service's `pending` queue, how far it is, and the state its mutator built |
| `writer` | the head of the repository's write queue |
| `load[c]`, `seen[c]`, `answer[c]` | a read of the file that was not taken over yet; what the caller had read when it fixed its expected revision; what it was told |

Steps: `GetState`, `Mutate`, `EnsureState`, `Loaded`, `RunMutator`,
`MutatorRefuses`, `Compare`, `Conflict`, `Rename`, `Sync`. Faults: `LoadFails`,
`SaveFails`, `SyncFails` (after the rename: the file has the state, the caller
an error, the service its old state), `Crash`, `PowerLoss` (renames whose
directory was not synced may be undone).

Run `mission_store`: two services, three calls of which two carry an expected
revision, two faults. Two services are what it takes for one to overtake the
other; a third call meets the state two others left; two faults let a failed
sync be followed by a crash. Both kinds of file systems are initial states. It shows
`ImplementsRegister` (the refinement, as a property with `INSTANCE ... WITH`),
`AcknowledgedIsKept` (an acknowledged call is on the file, and where directories can
be synced it survives a power loss; elsewhere nothing but a power loss takes it),
`GuardedCallSeesItsState`, `ConflictMeansNotApplied`, and under `FairSpec` that every call ends (`CallsEnd`).
Fairness: weak for what a service does by itself, since promises are settled in
turn; strong for the comparison of a queued save, because the write queue is
first come first served and a waiting save is reached after finitely many
others. No caller is assumed to make a call.

## `MissionRun`

The controller from `createOrOpenPrimaryMission` to the approval gate. Two
processes: the creation of the mission (`Creator`, opened or planned from an
objective) and the run (`Runner`); the controller serialises each with itself,
and a run waits for a creation. Each `proc[p]` is at a step named after the
function that it is about to execute.

| Variable | In the code |
| --- | --- |
| `mission` and the variables of `TicketLifecycle` | the saved state |
| `evidence` | what the evidence and reviews prove: the pinned commit was inspected, for which attempts a turn passed (`turned`), the capture found a fault (`failed`), a review was recorded (`reviewed`), a review was made (`judged`) |
| `artifact` | the captured artifact: the attempt, how many edits its diff and its file contents saw, whether the recorded diff can be parsed |
| `claimBox`, `box` | whether the claim names the session's sandbox; the sandbox as the run knows it |
| `agent`, `coding`, `version` | the agent on the TrueForge session, the coding turns under way (read by the run or by nobody), the edits made |
| `stale`, `faults`, `lapses` | whether the state moved since the run read its revision; the bound on faults; history for the properties |

| Actions | In the code |
| --- | --- |
| `CreateMission` ... `FinishPlanning` | `createOrOpenPrimaryMission`, `createOrPlanPrimaryMission`, `ensureWorkItems`, `persistIntakeWorkGraph` |
| `RunPrimaryMission` ... `BindExecution` | `runPrimaryMission`, `nextQueueWorkItem`, `prepareMissionForExecution`, `executePrimaryMission`, `claimForExecution`, the binding of the claim |
| `BoundAgent`, `CoordinatorTurn`, `RestoreAgent` | `executeCoordinatorTurn` with the bounded agent, and the repetition of an inspection that called no tool |
| `ExecuteRepositoryInspection` ... `PersistInspectedGraph` | `executeRepositoryInspection`, `persistInspectedWorkGraph` |
| `ExecuteImplementation` ... `ProveImplementation` | `executeImplementation`, the coding turn and its events, `requirePassedTurn` |
| `RecoverCheckpoint` ... `ReviewImplementation` | `executeProofAndReview`, `captureImplementationArtifact`, the handoff, the rework waiver, the review |
| `EnsureApproval` | `ensurePrimaryDeliveryApproval` up to the request, which `DeliveryProtocol` takes up |
| `BlockActiveWork`, `BlockTicket`, `BlockMission` | `blockActiveWork` |
| `Authorize`, `Revoke`, `ClaimPrimaryTicket` | humans and other owners on the board |
| `MakeSandbox`, `Edit`, `TurnEnds`, `OrphanEnds`, `StreamBreaks`, `Crash` | TrueForge, the connection to it, and the process |

Run `mission_run` (`MCMissionRun`, `Validated = TRUE`, 447,795 distinct states,
deadlock checked): the inspection is made once, the implementation may be
reworked once (two attempts, grants and handoffs), two edits, and one crash or one
claim by another owner. Two edits are enough to tear an artifact and to tell two
attempts' workspaces apart; the one crash or rival comes at every step of every
run. A second crash is beyond this instance. It shows:

* `CaptureMeetsItsSandbox`, `ArtifactIsOneState`: the capture measures the
  sandbox that the claim names, and what is handed over is one state of it,
  unless a turn without a reader still edits;
* `AcceptedByReviewOrWaiver`: work that awaits a human's approval was judged by a
  review made of this very attempt, or reworks an attempt that a recorded review, not
  a finding of the capture, had sent back and whose rework a human authorized;
* `CodingAgentUnrestricted`: coding starts with the agent that may edit;
* `BlockedForCause`: the mission is blocked only after a remote failure, a
  verdict, a race with another caller, an unreadable diff or a crash at one of
  two places that no later run gets over (an inspection in `proving`, and a
  recorded finding whose ticket is still in `proving`);
* `RunsEnd`, `PlanFollowsInspection` under `FairRunSpec`: a run and a creation
  end, and a finished inspection is planned or blocked, unless the process died
  in between (a third such place).

Fairness is weak fairness of `Continue(p)`, because an async function that was
called goes on when its promise settles and its remote calls have time limits,
and of the end of a followed turn, because TrueForge ends its turns. Humans,
rivals, clients, orphaned turns and crashes are not assumed to do anything.

`AcceptedByReviewOrWaiver` cannot say that every ticket's work was seen by a
reviewer. A review that could not be made (`unavailableSemanticReviewDecision`,
`http/server.ts:206` and `:219`) is recorded as `changes_requested`; if a human then
authorizes the rework, its review is waived because a review had sent the first
attempt back, and the rework reaches the human's approval without any review that
was made. `README.md` lines 7 and 162 of the repository say that a separate reviewer
evaluates the first captured attempt. The model has this path (`Verdicts(FALSE)`,
then `Waived`), and the property draws the line that the code does keep: such a
review never accepts, and a finding of the capture never waives the next review.

A coding turn whose completion was not recorded before the process died is started
again by the next run. No document excludes that, so no property is stated about
repeated turns; what the turn without a reader may do to the sandbox meanwhile is in
the model (`Edit` while `lapses` has `orphan`).

Run `mission_rework` is a violation of `ApprovedWorkWasCompleted`:
`requirePassedTurn` accepts the completed turn of an earlier attempt, so a rework
whose own turn ended with an error is captured, its review is waived, and it is
put before the human as completed.

## `DeliveryProtocol`

The ticket whose review was accepted, from the request of the approval to the
delivery. Operators' decisions (`decidePrimaryDelivery`) run next to each other
and to the run (`resumePrimaryDelivery`); nothing in the controller serialises
them. A step is one service call or one remote turn.

| Variable | In the code |
| --- | --- |
| `kind` | whether the approval publishes a captured artifact or opens an existing head |
| `ticket`, `mission`, `approvals`, `delivery` | the saved state, reduced to one ticket; an approval also has the tool call that TrueForge holds for it, and whether the pull request was read back |
| `branch`, `opened` | the remote branch and its pull request |
| `turns`, `reply[p]` | remote turns under way, and the answer that a process got |
| `proc[p]` | the step of an operator's request or of the run |

The actions follow `ensurePrimaryDeliveryApproval`, `decidePrimaryDelivery`,
`resumePrimaryDelivery`, `completePrimaryDelivery`, `resolvePullRequestApproval`,
both reconciliations and `blockPrimaryDelivery` in that order. Faults:
`LoseAnswer` (before or after the turn took effect), `Expire` at any time,
`Crash` with the remote turns going on, `Push` by somebody else.

Run `delivery_protocol`: one operator's request (again and again) beside the
run, two approvals, one crash or foreign push, both kinds. Two approvals are
needed for an expired one to be replaced and still used; two processes for the
race on the same approval. It shows:

* `IntentBeforeEffect`, `OnePublication`, `DeniedStaysDenied`: effects follow a
  durable decision and intent, one approval publishes, a rejection is never
  turned round;
* `EndsTogether`: ticket, mission, delivery record and pull request end
  together, although one process blocks what another delivers;
* `HeadDoneAfterReadback`: an existing head is done only after its read-back;
* `StepsAreServiceCalls`: under the mapping `Gate` every step is a step of
  `DeliveryGate` with `Validated = TRUE`, or changes nothing that the service keeps;
* `RequestsEnd`: under `FairSpec` (a started request goes on, a remote turn
  ends) every request ends;
* `ApprovedIsSettled`: if, besides, the operator keeps running the mission (weak
  fairness of `RunPrimaryMission`, an assumption of this property only), an
  approved delivery is delivered or blocked, or another approval takes over.

Run `delivery_readback` is a violation of `DoneIsReadBack`: an artifact's
delivery that is not interrupted is recorded as done on the answer of
`create_pull_request`, without the read-back that the runbook promises.

## Violations

Five runs show a disagreement between the code and what its comments, messages or
documents say; `findings` in `PROJECT.json` quotes both sides: `ticket_retry`,
`ticket_retired`, `ticket_self_review`, `mission_rework`, `delivery_readback`.
The model says what the code does; the property says what the text says.

## Proofs

All theorems hold for every set of tickets, owners, humans, services, calls and
operators' requests, every family of graphs and every bound, from the named
assumptions on constants only (`ConstantsAssumption`, `GateAssumption`,
`StoreAssumption`, `RunAssumption`, `ProtocolAssumption`), which TLC evaluates in
the runs. What a theorem assumes besides is in its statement. Every invariant and
every action property that a passing run checks is the statement of a theorem.

**`TicketLifecycleProofs`.** `TypeCorrect` holds for whatever calls, validated or
not, one lemma per kind of call. `FreshAuthorization`, `AtMostOneOpenAttempt`,
`DelegationUnderClaim` and `ReworkKeepsFindings` are the four main invariants of
`ticket_product`, when no caller uses the compatibility trigger (`"legacy" \notin
Triggers`). None of the four is inductive. `QueueInv` is: per item, `PhaseInv`
(the queue statuses hold no claim, the working ones do), `HistoryInv` (the claim
is the last attempt's, whose status follows the item), `LedgerInv` (a claimable
authorization is later than every spent one), `FindingsInv` (a ticket that nobody
holds still carries the findings of its last attempt) and `RunningInv`.
`SameItemInv` disposes of the items a call leaves alone; `MoveInv` covers every
call that moves a ticket together with its attempt.

The action properties follow from what one call may do. For any calls, validated
or not, every attempt but the last stays as it is (`HistoryIsAppendOnly`), and a
claim is given up before another owner has it (`ClaimsAreGivenUp`).
`CompletedForGood` proves `CompletionIsFinal` for any triggers: no call moves a
completed ticket or touches its attempts. That its handoff stays as well is the
work of validation (`Validated = TRUE`), because `recordHandoff` looks at no status:
the accepted review would be of an earlier handoff then (`ReviewedInv`: a review
is of a handoff that was recorded), and such a state is not saved.

**`TicketPlanProofs`** adds what holds without `retry` as well, which is how the
controller uses the service. `HardStop` proves `ChangesRequestedIsHardStop`: only
a claim puts a ticket to work (`OnlyClaimsStartWork`), and a claim opens an
attempt later than the one whose findings the ticket carries (`HardStopInv` with
`FindingsInv`); `ticket_retry` shows that the assumption is needed.
`GuardsKeepQueueValid` proves `MutatorsKeepQueueValid`: `PlannedInv` adds to
`QueueInv` that the plan of every ticket is closed, that a ticket not yet created
has none, and that started work rests on completed work; three lemmas show that
moving, adding and replanning tickets keeps it and keeps the plan acyclic.

**`DeliveryGateProofs`** holds for all triggers, validated or not.
`GateTypeCorrect` extends the types; `GateCases` splits a step into the kinds of
calls, and `ApprovalsGrow` says what any step may do to an approval that exists.
`FinalDecisions` follows from that and from `NothingAfterTheEnd`.
`DeliveredWorkWasApproved` needs little of what led to a delivery:
`RecordDelivery` checks all of it again in its own call (`DeliveryOfApproved`),
only `RecordDelivery` makes a mission delivered (`OnlyDeliveryDelivers`), and
afterwards nothing changes. `FirstResultKept` rests on `ResultInv`: a result
belongs to a recorded attempt, and the delivery record of an attempt has its
result.

**`DeliveryOutcomeProofs`** leaves triggers out. `DoneByDelivery` proves
`DoneOnlyByApprovedDelivery` for callers without the compatibility trigger and the
bare `delivery` trigger, and a planner that keeps roles (`RolesFixed`, as the
controller's graphs do): a call about tickets finishes no implementation
(`OnlyDeliveryFinishes`), the one delivery finishes only its own ticket, and the
mission is over then (`DoneInv`, `DoneStep`), so that nothing changes the delivery
that `DeliveredWorkWasApproved` speaks of. `GuardsKeepGate`
proves `GuardsKeepGateValid` without `legacy` and `retry`. The invariant
`GuardInv` adds to validation that the ticket of a recorded delivery attempt waits
for its delivery or has it; it is kept because tickets only go forward
(`TicketsForward`: a ticket that waits for its approval is not worked on again, so
that its attempt stays the approved one), which is what `retry` breaks.

**`MissionStoreProofs`.** `StoreTypeCorrect`; `StoreIsRegister`, the refinement:
`Spec => ImplementsRegister`, for any number of services and faults and both kinds of
file systems; `AcknowledgedCallsKept`: an acknowledged call is lost with a power loss
only, and only where directories cannot be synced (`KeptInv` adds that what is durable
is a beginning of the file); `ConflictNotApplied`;
`GuardedCallMeetsItsState`.
The comparison of revisions compares only numbers. `StoreInv` says why that is
enough: every copy (a cache, a load, a built state) is a beginning of what the
file holds, so that equal lengths are equal states; and a call on the file was
acknowledged, its caller was told of an error or died, or it is being synced, so a
pending call is never applied twice. For the guarded calls, `SeenInv` adds that
what a caller has read is a beginning of the file or contains a call that a power
loss took.

**`MissionRunProofs`** proves the three invariants and two action properties of
`mission_run`, and its types, for any number of attempts, edits, crashes, rivals
and humans. The invariant `RunInv` has four parts. `WorldInv` is about the saved
state and the session, wherever the processes are: work is claimed, the inspection
comes first, an attempt is handed over before it is reviewed and reviewed once,
an accepted one was judged or reworks one that was sent back,
evidence is about attempts that were made, the claim names no other sandbox than
the session's, a capture is of one state, and the session has the agent of the
mission unless the coordinator left something to finish. `RunnerOK` and
`CreatorOK` say what the two processes rely on at each step, which is what an
`await` can invalidate: what was read before it is still so, or `lapses` has the
interference. What a crash leaves unfinished has its own entry there, which is how
`BlockedForCause` can be kept by a later run. Lemmas first say what a call does to
the two tickets (`SystemTicket` and the like), then what a step of one process
keeps for the other, then there is one lemma for each group of actions.
`RunsGetNearer` gives each step of a run or a creation a rank, which also counts
what the mission and the sandbox have still to go through, and shows that it only
falls, from 39 at most: the repeated turns of the coordinator, the sandbox that is
attached while coding, the preparation of the mission and the catch clauses all
come to an end, and no other caller, crash or remote turn throws a run back. That
is the part of `RunsEnd` that needs no fairness. `TypeOK` of `TicketLifecycle` is
no invariant here, because the waiver of a rework is recorded as a review by none
of its reviewers; hence `TicketShape`.

**`DeliveryProtocolProofs`** proves the types, the five invariants of
`delivery_protocol`, and a bound on requests. In `ProtocolInv` each process has
made the decision that it carries out and recorded its intent before its effect
(`StepOK`), a turn under way and its answer belong to the process that waits for
it (`TurnOK`, `ReplyOK`), and of all approvals only the last can carry an intent
or be allowed (`ApprovalOK`): the run requests another only when every earlier one
is `Spent`, expired or denied without an intent, and stays so. `OnePublication` is
a consequence; it is not inductive, since it does not say which approval
publishes. `RequestsGetNearer` gives each step a rank and shows that a started
request only goes down in it, from 25 at most, whatever fails, crashes or is
decided meanwhile: no point of the delivery is reached twice, and a failure is
blocked twice at most. That is the part of `RequestsEnd` that needs no fairness.

**`DeliveryCallsProofs`** proves `StepsAreServiceCalls`, the refinement of the
gate: every step of the delivery is a step of `DeliveryGate` under `Gate`, with
validation, or a stutter. A step of the protocol either changes nothing that the
service keeps (`Quiet`) or has the effect of one call (`Calls`: a request, a
decision, an expiry, an intent, a read-back's result, a record, or a transition of
the ticket or the mission). Each effect is then shown to be the action of the gate
with that name. That the gate saves it, which is what `Validated = TRUE` asks, is
`ShownIsValid`: the invariants of the protocol, with `AttemptsInv` on the recorded
attempts, imply all that the validation of the state demands.

**Only model-checked** are the liveness properties `CallsEnd`, `RequestsEnd`,
`ApprovedIsSettled`, `RunsEnd` and `PlanFollowsInspection`: liveness under
fairness and `ENABLED` are out of the prover's reach. What remains for TLC of
`RequestsEnd` and `RunsEnd` is that a process that started is never stuck. The
properties of the five violation runs are false of the model and are not proved or
refuted beyond their counterexamples. No module uses recursive operators.

## Not modelled

`components` in `PROJECT.json` lists every part with its reason. In short:

* routes, views, the browser, diff parsing, diagnostics: texts and rendering,
  without state that decides anything. What the rest depends on (whether a
  recorded diff can be parsed, whether the sandbox gets ready) is a choice that
  the environment makes in `MissionRun`;
* `delegateToSubagent`, `proveImplementation`, `prepareSandbox` and
  `runSandboxVerification` of the adapter, which the controller does not call;
  delegations are modelled as calls of the service;
* the bounds on texts and lists of a work graph, and the one-time upgrade of
  graphs saved by older versions;
* a planned request for a mission that has its tickets already, which changes
  nothing;
* several processes on one state file, which the program does not support;
* demo, fixture and operational scripts: fixed sequences of the calls above.

`hazards` in `PROJECT.json` lists what is hard to test in this code, at its line,
with the properties that would catch it; the few without a property say why.
