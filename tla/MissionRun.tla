----------------------------- MODULE MissionRun -----------------------------
(***************************************************************************)
(* The local mission controller (http/server.ts) from the creation of the  *)
(* mission to the approval gate: it opens or plans the mission, inspects   *)
(* the repository, has the implementation coded in a TrueForge session,    *)
(* captures what is in the sandbox and has it reviewed.                    *)
(*                                                                         *)
(* The calls to the service are the actions of TicketLifecycle; the run    *)
(* and the creation of the mission are two processes of which one of each  *)
(* is under way, and everything between two awaits is one step.  Humans    *)
(* and other owners act on the same tickets, TrueForge works on its own,   *)
(* remote calls fail, event streams break off, and the process dies and    *)
(* starts again from the saved state.                                      *)
(*                                                                         *)
(* What follows the approval gate is DeliveryProtocol.  Delegations and    *)
(* the legacy work graph are not started by the controller.                *)
(***************************************************************************)
EXTENDS TicketLifecycle

CONSTANTS
  inspect, implement, NoItem,   \* the two tickets
  Runner, Creator, Nobody,      \* the run, the creation of the mission, and neither
  Worker, Rivals,               \* the owner the run claims as, and others
  Waiver,                       \* the reviewer that stands for a human's rework waiver
  Requests,                     \* "open", "plan": how clients ask for the mission
  MaxEdits, MaxFaults           \* bounds on edits of the workspace, and on crashes and
                                \* claims by others together

ASSUME RunAssumption ==
  /\ Items = {inspect, implement} /\ inspect # implement /\ NoItem \notin Items
  /\ Runner # Creator /\ Nobody \notin {Runner, Creator}
  /\ {Worker} \cup Rivals \subseteq Owners /\ Waiver \notin Owners \cup {Verifier}
  /\ Requests \subseteq {"open", "plan"} /\ MaxEdits \in Nat /\ MaxFaults \in Nat

VARIABLES
  mission,     \* status of the mission, or "none"
  evidence,    \* what the evidence and the reviews of the state prove; a recorded review
               \* may stand for one that could not be made, a judged attempt had one made
  artifact,    \* the last capture: of which attempt, the edits it saw in diff and files, and
               \* whether the diff shows the files
  claimBox,    \* whether the claim of the implementation names the sandbox of the session
  box,         \* the sandbox; an announced one is in the event stream of the run
  agent,       \* the agent of the session: of the mission, or bounded for the coordinator
  version,     \* edits made in the sandbox
  coding,      \* coding turns under way
  proc,        \* where the two processes are
  stale,       \* the state changed since the run read its revision
  faults, lapses   \* crashes and claims by others so far, and what went wrong or got in between

sessionVars == <<box, agent, version, coding>>
historyVars == <<stale, faults, lapses>>
runVars == <<vars, mission, evidence, artifact, claimBox, sessionVars, proc, historyVars>>

Steps == {"idle", "opening", "find", "session", "create", "tidy", "graph", "backlog", "intake",
          "planned", "pick", "prepare", "claim", "claiming", "bind", "inspect", "bound",
          "looking", "again", "last", "restore", "restored", "prove", "finish", "plan", "implement", "start",
          "coding", "attach", "coded", "proved", "recover", "capture", "files", "sendback",
          "handoff", "judge", "review", "approval", "block", "blockTicket", "blockMission"}

\* A process works on an item; saw is the status in which the run found it, or the
\* request that is served; ok is whether the coordinator's turn succeeded so far.
Process == [step: Steps, item: Items \cup {NoItem}, ok: BOOLEAN,
            saw: {"", "open", "plan", "resumed", "ready", "in_progress", "proving",
                  "awaiting_approval"}]
Idle == [step |-> "idle", item |-> NoItem, ok |-> TRUE, saw |-> ""]

\* Only the agent of the mission edits; the coordinator's reads and is cut off.
MissionAgent == "mission"
CoordinatorAgent == "bounded"

\* A turn for an attempt, read by the run or by nobody, whose agent can edit.
Turn == [attempt: Nat, by: {Runner, Nobody}, able: BOOLEAN]

RunTypeOK ==
  /\ mission \in {"none", "draft", "planning", "executing", "awaiting_approval", "blocked"}
  /\ LET n == MaxAttempts[implement] IN
     /\ evidence \in [proof: SUBSET {"intake", "inspect"}, turned: SUBSET (1..n),
                      failed: SUBSET (1..n), reviewed: SUBSET (1..n), judged: SUBSET (1..n)]
     /\ artifact \in [attempt: 0..n, diff: 0..MaxEdits, files: 0..MaxEdits, shown: BOOLEAN]
  /\ claimBox \in BOOLEAN
  /\ box \in {"none", "announced", "lost", "known"}
  /\ agent \in {MissionAgent, CoordinatorAgent}
  /\ version \in 0..MaxEdits
  /\ coding \subseteq Turn
  /\ proc \in [{Runner, Creator} -> Process]
  /\ stale \in BOOLEAN /\ faults \in 0..MaxFaults
  /\ lapses \subseteq {"remote", "verdict", "race", "proving", "unplanned", "sentback",
                      "unreadable", "restore", "orphan"}

RunInit ==
  /\ Init
  /\ mission = "none"
  /\ evidence = [proof |-> {}, turned |-> {}, failed |-> {}, reviewed |-> {}, judged |-> {}]
  /\ artifact = [attempt |-> 0, diff |-> 0, files |-> 0, shown |-> FALSE]
  /\ claimBox = FALSE /\ box = "none" /\ agent = MissionAgent /\ version = 0 /\ coding = {}
  /\ proc = [p \in {Runner, Creator} |-> Idle]
  /\ stale = FALSE /\ faults = 0 /\ lapses = {}

-----------------------------------------------------------------------------
(* The graphs the controller plans: a preflight inspection, what the       *)
(* planner makes of it, and the same without the inspection.               *)

Inspection == [dependsOn |-> {}, role |-> "planner", checked |-> FALSE, scoped |-> FALSE]
Implementation(deps) ==
  [dependsOn |-> deps, role |-> "implementer", checked |-> TRUE, scoped |-> TRUE]

PreflightGraph == [i \in {inspect} |-> Inspection]
PlannedGraph == [i \in Items |-> IF i = inspect THEN Inspection ELSE Implementation({inspect})]
ImplementationOnlyGraph == [i \in {implement} |-> Implementation({})]

-----------------------------------------------------------------------------
(* Control flow.                                                           *)

At(p, step) == proc[p].step = step
Goto(p, step) == proc' = [proc EXCEPT ![p].step = step]
Item(p) == proc[p].item

Ends == proc' = [proc EXCEPT ![Runner] = Idle]

\* createOperation: a run that waits for the creation goes on or fails with it, and fails
\* before anything is blocked.
CreationEnds(ok) ==
  proc' = [proc EXCEPT ![Creator] = Idle,
    ![Runner] = IF ~At(Runner, "opening") THEN @
                ELSE IF ok THEN [Idle EXCEPT !.step = "pick"] ELSE Idle]

\* The catch of executePrimaryMission: the failure is recorded and active work is blocked.
Fails == proc' = [proc EXCEPT ![Runner] = [Idle EXCEPT !.step = "block"]]

Done(p) == IF p = Creator THEN CreationEnds(TRUE) ELSE Ends
Broken(p) == IF p = Creator THEN CreationEnds(FALSE) ELSE Fails

\* What may stop a run; it is forgotten when the next one starts.
Causes == {"remote", "verdict", "race", "unreadable"}
Lapse(why) == lapses' = lapses \cup {why} /\ UNCHANGED <<stale, faults>>
Forget(whys) == lapses' = lapses \ whys /\ UNCHANGED <<stale, faults>>
RemoteFailure(p) == Broken(p) /\ Lapse("remote")

Store == <<vars, mission, evidence, artifact, claimBox>>
Local == UNCHANGED <<Store, sessionVars>>           \* only the processes move
OnlyTickets == UNCHANGED <<mission, evidence, artifact, claimBox, sessionVars, historyVars>>
OnlyMission == UNCHANGED <<vars, evidence, artifact, claimBox, sessionVars>>
OnlyEvidence == UNCHANGED <<vars, mission, claimBox, sessionVars>>

\* addEvidence, with the attempt of the ticket it is about.
AddEvidence(kind, of) == evidence' = [evidence EXCEPT ![kind] = @ \cup {of}]

\* A system transition that the service refuses fails the run.
Moves(i, trigger, to) == LegalSystemEdge(i, trigger, status[i], to) /\ claim[i] # NoOne
Advance(trigger, to, next) ==
  /\ IF Moves(Item(Runner), trigger, to)
     THEN TransitionSystemWorkItem(Item(Runner), trigger, to) /\ Goto(Runner, next)
     ELSE Fails /\ UNCHANGED vars
  /\ OnlyTickets

\* Where others come between what the run read and what it then does.
Between == {"prepare", "claim", "claiming", "tidy", "backlog"}
Interferes ==
  /\ stale' = (stale \/ At(Runner, "claiming"))
  /\ lapses' = IF proc[Runner].step \in Between THEN lapses \cup {"race"} ELSE lapses

-----------------------------------------------------------------------------
(* createOrOpenPrimaryMission and createOrPlanPrimaryMission.              *)

Request(kind) == [Idle EXCEPT !.step = "find", !.saw = kind]

\* To plan a mission that has its tickets changes nothing: such requests are left out.
CreateMission(kind) ==
  /\ At(Creator, "idle") /\ kind \in Requests
  /\ kind = "plan" => Present = {}
  /\ proc' = [proc EXCEPT ![Creator] = Request(kind)]
  /\ Local /\ UNCHANGED historyVars

\* A mission with another objective is a conflict.
FindMission ==
  /\ At(Creator, "find")
  /\ \/ mission = "none" /\ Goto(Creator, "session")
     \/ mission # "none" /\ proc[Creator].saw = "open" /\ Goto(Creator, "tidy")
     \/ mission # "none" /\ proc[Creator].saw = "plan"
        /\ (CreationEnds(FALSE) \/ Goto(Creator, "bound"))
  /\ Local /\ UNCHANGED historyVars

ResolveSession ==
  /\ At(Creator, "session")
  /\ Goto(Creator, "create") \/ CreationEnds(FALSE)
  /\ Local /\ UNCHANGED historyVars

CreateDraft ==
  /\ At(Creator, "create") /\ mission = "none"
  /\ mission' = "draft"
  /\ Goto(Creator, IF proc[Creator].saw = "open" THEN "tidy" ELSE "bound")
  /\ OnlyMission /\ UNCHANGED historyVars

\* ensureWorkItems: the preflight inspection is planned, and what became ready without
\* a human's authorization goes back to the backlog.
Unauthorized(i) == status[i] = "ready" /\ claim[i] = NoOne /\ auth[i] = 0

EnsureWorkItems(p) ==
  /\ At(p, "tidy")
  /\ IF Present = {} THEN Goto(p, "graph")
     ELSE IF \E i \in Items : Unauthorized(i)
     THEN \E i \in Items :
            /\ Unauthorized(i)
            /\ proc' = [proc EXCEPT ![p].step = "backlog", ![p].item = i]
     ELSE Done(p)
  /\ Local /\ UNCHANGED historyVars

PersistPreflightGraph ==
  /\ At(Creator, "graph")
  /\ PersistWorkGraph(PreflightGraph)
  /\ proc' = [proc EXCEPT ![Creator].step = "backlog", ![Creator].item = inspect]
  /\ Interferes /\ UNCHANGED <<mission, evidence, artifact, claimBox, sessionVars, faults>>

MoveToBacklog(p) ==
  /\ At(p, "backlog")
  /\ IF status[Item(p)] = "ready"
     THEN /\ TransitionWorkItem(Item(p), "backlog")
          /\ IF proc[p].saw = "plan" THEN Goto(p, "planned") ELSE Done(p)
     ELSE Broken(p) /\ UNCHANGED vars
  /\ IF p = Creator THEN Interferes /\ UNCHANGED faults ELSE UNCHANGED historyVars
  /\ UNCHANGED <<mission, evidence, artifact, claimBox, sessionVars>>

\* The result of the inspection does not name the evidence of the pinned commit.
InspectionRejected == CreationEnds(FALSE)

\* persistIntakeWorkGraph
PersistIntakeGraph ==
  /\ At(Creator, "intake")
  /\ \/ /\ PersistWorkGraph(ImplementationOnlyGraph)
        /\ proc' = [proc EXCEPT ![Creator].step = "backlog", ![Creator].item = implement]
     \/ InspectionRejected /\ UNCHANGED vars
  /\ OnlyTickets

FinishPlanning ==
  /\ At(Creator, "planned")
  /\ mission' = IF mission = "draft" THEN "planning" ELSE mission
  /\ CreationEnds(TRUE)
  /\ OnlyMission /\ UNCHANGED historyVars

-----------------------------------------------------------------------------
(* runPrimaryMission: it opens the mission, picks a ticket and prepares    *)
(* the mission.                                                            *)

RunPrimaryMission ==
  /\ At(Runner, "idle")
  /\ proc' = [proc EXCEPT ![Runner].step = "opening",
                          ![Creator] = IF At(Creator, "idle") THEN Request("open") ELSE @]
  /\ Local /\ Forget(Causes)

Active(i) ==
  claim[i] # NoOne /\ status[i] \in {"in_progress", "proving", "awaiting_approval", "delivering"}
Runnable(i) == status[i] = "ready" /\ claim[i] = NoOne /\ auth[i] # 0

\* nextQueueWorkItem: the active ticket, or else a ready one; none ends the run.
NextQueueWorkItem ==
  /\ At(Runner, "pick")
  /\ LET actives == {i \in Items : Active(i)} IN
     \/ \E i \in IF actives # {} THEN actives ELSE {j \in Items : Runnable(j)} :
          proc' = [proc EXCEPT ![Runner] =
                     [Idle EXCEPT !.step = "prepare", !.item = i, !.saw = status[i]]]
     \/ (\A i \in Items : ~Active(i) /\ ~Runnable(i)) /\ Ends
  /\ Local /\ UNCHANGED historyVars

\* Mutation of Prepared: a status the mission does not have.
Running(m) == "running"
Prepared(m) == IF m = "draft" THEN "planning" ELSE "executing"

PrepareMissionForExecution ==
  /\ At(Runner, "prepare") /\ mission \in {"draft", "planning"}
  /\ mission' = Prepared(mission)
  /\ UNCHANGED proc
  /\ OnlyMission /\ UNCHANGED historyVars

\* executePrimaryMission: by the status in which the ticket was found.
Dispatch ==
  /\ At(Runner, "prepare") /\ mission \notin {"draft", "planning"}
  /\ IF mission = "blocked" THEN Fails
     ELSE Goto(Runner, CASE proc[Runner].saw = "proving" -> "recover"
                         [] proc[Runner].saw = "awaiting_approval" -> "approval"
                         [] proc[Runner].saw = "ready" -> "claim"
                         [] proc[Runner].saw = "in_progress" -> "bind")
  /\ Local /\ UNCHANGED historyVars

\* claimForExecution reads the revision under which the ticket is then claimed.
ClaimForExecution ==
  /\ At(Runner, "claim")
  /\ Goto(Runner, "claiming")
  /\ stale' = FALSE
  /\ Local /\ UNCHANGED <<faults, lapses>>

ClaimReadyWorkItem ==
  /\ At(Runner, "claiming")
  /\ LET i == Item(Runner) IN
     IF Runnable(i) /\ ~stale
     THEN /\ ClaimWorkItem(i, Worker)
          /\ claimBox' = IF i = implement THEN box = "known" ELSE claimBox
          /\ Goto(Runner, "bind")
     ELSE Fails /\ UNCHANGED <<vars, claimBox>>
  /\ stale' = FALSE
  /\ UNCHANGED <<mission, evidence, artifact, sessionVars, faults, lapses>>

\* Mutation of Bound: the claim is not bound again.
BoundOnce == claimBox
Bound == box = "known"

\* The session is looked up and the claim is bound to it and to its sandbox.
BindExecution ==
  /\ At(Runner, "bind")
  /\ \/ /\ claimBox' = IF Item(Runner) = implement THEN Bound ELSE claimBox
        /\ Goto(Runner, IF Item(Runner) = inspect THEN "inspect" ELSE "implement")
        /\ UNCHANGED historyVars
     \/ RemoteFailure(Runner) /\ UNCHANGED claimBox
  /\ UNCHANGED <<vars, mission, evidence, artifact, sessionVars>>

-----------------------------------------------------------------------------
(* executeCoordinatorTurn: the agent of the session is bounded for a       *)
(* read-only turn, of an inspection or a review, and restored after it.    *)

Reviews(p) == p = Runner /\ Item(p) = implement

\* updateSessionAgent: one that failed may have taken effect.
UpdateSessionAgent(spec, updated) == agent' \in IF updated THEN {spec} ELSE {agent, spec}

BoundAgent(p) ==
  /\ At(p, "bound")
  /\ \/ UpdateSessionAgent(CoordinatorAgent, TRUE) /\ Goto(p, "looking")
     \/ /\ UpdateSessionAgent(CoordinatorAgent, FALSE)
        /\ proc' = [proc EXCEPT ![p].step = "restore", ![p].ok = FALSE]
  /\ UNCHANGED <<Store, box, version, coding, historyVars>>

\* What the events of a turn show: how it ended ("limit" is the end of its iterations),
\* and whether a tool was called and answered.
TurnEvents == [ended: {"done", "limit", "failed"}, called: BOOLEAN]

\* requireCompletedTurn: the agent of an inspection may be stopped once its call is answered.
CompletedTurn(p, e) == e.ended = "done" \/ (e.ended = "limit" /\ ~Reviews(p) /\ e.called)

\* An inspection rests on its call, a review makes none.
Verifiable(p, e) == CompletedTurn(p, e) /\ e.called = ~Reviews(p)

\* Mutation of AskedAgain: a silent turn is repeated for as long as it is silent.
AlwaysAskedAgain(p, e) ==
  IF Reviews(p) \/ e.ended # "done" \/ e.called THEN "none"
  ELSE IF At(p, "looking") THEN "again" ELSE "looking"

\* An inspection that ends without a call is asked for at most twice more.
AskedAgain(p, e) ==
  IF Reviews(p) \/ e.ended # "done" \/ e.called \/ At(p, "last") THEN "none"
  ELSE IF At(p, "looking") THEN "again" ELSE "last"

\* Mutation of AfterTurn: the agent is only restored after a failure.
RestoreFailed(ok) == IF ok THEN "restored" ELSE "restore"
AfterTurn(ok) == "restore"

\* What was answered may still not be what was asked for.
CoordinatorTurn(p) ==
  /\ At(p, "looking") \/ At(p, "again") \/ At(p, "last")
  /\ \E e \in TurnEvents, right \in BOOLEAN :
       LET ok == right /\ Verifiable(p, e) IN
       IF AskedAgain(p, e) # "none" THEN Goto(p, AskedAgain(p, e))
       ELSE proc' = [proc EXCEPT ![p].step = AfterTurn(ok), ![p].ok = ok]
  /\ Local /\ UNCHANGED historyVars

\* Without its agent restored, the turn failed.
RestoreAgent(p) ==
  /\ At(p, "restore")
  /\ \/ UpdateSessionAgent(MissionAgent, TRUE) /\ Goto(p, "restored") /\ Forget({"restore"})
     \/ /\ UpdateSessionAgent(MissionAgent, FALSE)
        /\ proc' = [proc EXCEPT ![p].step = "restored", ![p].ok = FALSE]
        /\ Lapse("restore")
  /\ UNCHANGED <<Store, box, version, coding>>

-----------------------------------------------------------------------------
(* inspectRepository, for the intake or for the inspection ticket, and     *)
(* executeRepositoryInspection.                                            *)

ExecuteRepositoryInspection ==
  /\ At(Runner, "inspect")
  /\ Goto(Runner, IF "inspect" \in evidence.proof THEN "prove" ELSE "bound")
  /\ Local /\ UNCHANGED historyVars

\* The answer of the turn proves that the repository is at the pinned commit.
Inspected(p) == At(p, "restored") /\ ~Reviews(p) /\ proc[p].ok

InspectionPassed(p) ==
  /\ Inspected(p)
  /\ AddEvidence("proof", IF p = Creator THEN "intake" ELSE "inspect")
  /\ Goto(p, IF p = Creator THEN "intake" ELSE "prove")
  /\ OnlyEvidence /\ UNCHANGED <<artifact, historyVars>>

\* recordInspectionFailure blocks the mission.
InspectionFailed(p) ==
  /\ At(p, "restored") /\ ~Reviews(p) /\ ~proc[p].ok
  /\ mission' = "blocked"
  /\ RemoteFailure(p)
  /\ OnlyMission

ProveInspection == At(Runner, "prove") /\ Advance("execution", "proving", "finish")
FinishInspection == At(Runner, "finish") /\ Advance("proof", "done", "plan")

\* Mutation of PlanningFails: the run ends as if there was nothing to plan.
PlanningSkipped == Ends /\ Lapse("remote")
PlanningFails == RemoteFailure(Runner)

\* persistInspectedWorkGraph, then ensureWorkItems
PersistInspectedGraph ==
  /\ At(Runner, "plan")
  /\ \/ PersistWorkGraph(PlannedGraph) /\ Goto(Runner, "tidy") /\ UNCHANGED historyVars
     \/ PlanningFails /\ UNCHANGED vars
  /\ UNCHANGED <<mission, evidence, artifact, claimBox, sessionVars>>

-----------------------------------------------------------------------------
(* executeImplementation and the coding turn (executeTurn).                *)

RepositoryProved == evidence.proof # {}

TurnCompleted(n) == n \in evidence.turned

ExecuteImplementation ==
  /\ At(Runner, "implement")
  /\ IF TurnCompleted(Number(implement)) THEN Goto(Runner, "proved")
     ELSE IF RepositoryProved /\ status[implement] = "in_progress" THEN Goto(Runner, "start")
     ELSE Fails
  /\ Local /\ UNCHANGED historyVars

StartTurn ==
  /\ At(Runner, "start")
  /\ \/ /\ coding' = coding \cup
             {[attempt |-> Number(implement), by |-> Runner, able |-> agent = MissionAgent]}
        /\ Goto(Runner, "coding") /\ UNCHANGED historyVars
     \/ RemoteFailure(Runner) /\ UNCHANGED coding
  /\ UNCHANGED <<Store, box, agent, version>>

\* What TrueForge does in a turn: it makes the sandbox, and the agent edits in it.
MakeSandbox(t) ==
  /\ box = "none"
  /\ box' = IF t.by = Runner THEN "announced" ELSE "lost"
  /\ UNCHANGED <<Store, agent, version, coding, proc, historyVars>>

Edit(t) ==
  /\ t.able /\ box # "none" /\ version < MaxEdits
  /\ version' = version + 1
  /\ UNCHANGED <<Store, box, agent, coding, proc, historyVars>>

\* sandbox.created: first the mission, then the claim is bound to the sandbox.
AttachSandbox ==
  /\ At(Runner, "coding") /\ box = "announced"
  /\ box' = "known" /\ Goto(Runner, "attach")
  /\ UNCHANGED <<Store, agent, version, coding, historyVars>>

AttachExecution ==
  /\ At(Runner, "attach")
  /\ claimBox' = TRUE /\ Goto(Runner, "coding")
  /\ UNCHANGED <<vars, mission, evidence, artifact, sessionVars, historyVars>>

\* runtimeEvidence: only a turn that completed becomes passed evidence.
TurnEvidence(t, completed) ==
  IF completed THEN AddEvidence("turned", t.attempt) ELSE UNCHANGED evidence

\* turn.done, with or without an error: neither fails the run.
TurnEnds(t, completed) ==
  /\ At(Runner, "coding") /\ t.by = Runner /\ box # "announced"
  /\ coding' = coding \ {t}
  /\ TurnEvidence(t, completed)
  /\ Goto(Runner, "coded")
  /\ IF completed THEN UNCHANGED historyVars ELSE Lapse("remote")
  /\ UNCHANGED <<vars, mission, artifact, claimBox, box, agent, version>>

\* Nobody follows the turn any more: what it announces is lost.
Orphaned == coding' = {[t EXCEPT !.by = Nobody] : t \in coding}
SandboxAfterLoss == IF box = "announced" THEN "lost" ELSE box

\* The event stream breaks off, with an error or as if it had ended.
StreamBreaks ==
  /\ At(Runner, "coding")
  /\ Orphaned /\ box' = SandboxAfterLoss
  /\ Fails \/ Goto(Runner, "coded")
  /\ Lapse("remote")
  /\ UNCHANGED <<Store, agent, version>>

OrphanEnds(t) ==
  /\ t.by = Nobody
  /\ coding' = coding \ {t}
  /\ UNCHANGED <<Store, box, agent, version, proc, historyVars>>

\* requirePassedTurn: some turn of the ticket completed.
RequirePassedTurn ==
  /\ At(Runner, "coded")
  /\ IF evidence.turned # {} THEN Goto(Runner, "proved") ELSE Fails
  /\ Local /\ UNCHANGED historyVars

ProveImplementation == At(Runner, "proved") /\ Advance("execution", "proving", "recover")

-----------------------------------------------------------------------------
(* executeProofAndReview                                                   *)

HandedOver(n) == handoff[implement].done /\ handoff[implement].attempt = n
ReviewOf(n) == IF review[implement].attempt = n THEN review[implement].outcome ELSE "none"

\* It goes on from the last checkpoint: the review, or the handoff without one.
RecoverCheckpoint ==
  /\ At(Runner, "recover")
  /\ LET n == Number(implement) IN
     IF Item(Runner) = inspect THEN Fails
     ELSE IF HandedOver(n) /\ ReviewOf(n) = "accepted" THEN Goto(Runner, "approval")
     ELSE IF HandedOver(n) /\ ReviewOf(n) = "none"
     THEN proc' = [proc EXCEPT ![Runner].step = "review", ![Runner].saw = "resumed",
                               ![Runner].ok = TRUE]
     ELSE Goto(Runner, "capture")
  /\ Local /\ UNCHANGED historyVars

\* Mutation of CaptureRetryable: it fails the run.
RetryFails == Fails

\* recordRetryableProofFailure: the ticket stays in review and the run ends.
CaptureRetryable == Ends

\* captureImplementationArtifact finds something wrong with what was implemented.
CaptureFinding ==
  /\ AddEvidence("failed", Number(implement))
  /\ Goto(Runner, "sendback")

\* Mutation of MeasuredDiff: the diff of the earlier attempt is kept.
KeptDiff == IF artifact.diff = 0 THEN version ELSE artifact.diff
MeasuredDiff == version

\* The claim names the sandbox of the session, as far as one is known; only a known one
\* is measured; and there is something to hand over only after an edit.
ClaimMatchesSession == claimBox = (box = "known")
Measurable == box = "known"
ContentBearing == version > 0

NewArtifact == [attempt |-> Number(implement), diff |-> MeasuredDiff, files |-> 0, shown |-> FALSE]

\* captureImplementationArtifact: the sandbox is measured command by command, the diff
\* first and then the content of the files.
CaptureDiff ==
  /\ At(Runner, "capture")
  /\ \/ CaptureFinding /\ UNCHANGED <<artifact, historyVars>>
     \/ /\ ClaimMatchesSession
        /\ CaptureRetryable /\ UNCHANGED <<artifact, evidence, historyVars>>
     \/ /\ ClaimMatchesSession /\ Measurable /\ ContentBearing
        /\ artifact' = NewArtifact
        /\ IF coding = {} THEN Forget({"orphan"}) ELSE Lapse("orphan")
        /\ Goto(Runner, "files") /\ UNCHANGED evidence
  /\ OnlyEvidence

CaptureFiles ==
  /\ At(Runner, "files")
  /\ \/ CaptureFinding /\ UNCHANGED artifact
     \/ CaptureRetryable /\ UNCHANGED <<artifact, evidence>>
     \/ /\ \E shown \in BOOLEAN : artifact' = [artifact EXCEPT !.files = version, !.shown = shown]
        /\ Goto(Runner, "handoff") /\ UNCHANGED evidence
  /\ OnlyEvidence /\ UNCHANGED historyVars

\* recordProofFindingAndRequestChanges
RequestChanges ==
  /\ At(Runner, "sendback")
  /\ TransitionSystemWorkItem(implement, "proof", "changes_requested")
  /\ Ends
  /\ OnlyTickets

\* validateStructuredHandoffCorrelation: the handoff rests on a capture of its attempt.
HandoffCorrelated == artifact.attempt = Number(implement)

RecordImplementationHandoff ==
  /\ At(Runner, "handoff") /\ HandoffCorrelated
  /\ RecordHandoff(implement, 0, TRUE)
  /\ Goto(Runner, "judge")
  /\ OnlyTickets

\* A human authorized the rework of attempt k, which was sent back.
SentBack(k) ==
  /\ attempts[implement][k].status = "changes_requested"
  /\ attempts[implement][k].retiredBy # NoOne

\* A rework that a review had asked for and a human authorized needs no other review.
Waived(n) == n > 1 /\ ReviewOf(n - 1) = "changes_requested" /\ SentBack(n - 1)

\* parseContentDiffEvidence: the recorded diff, which is cut to its bound, can be read.
DiffReadable == artifact.shown

\* buildReviewContext: there is a handoff to review and a diff to review it by.
ReviewContext == HandedOver(Number(implement)) /\ DiffReadable

\* Without one nothing can be reviewed or waived, and the run fails.
Unreviewable(step) == At(Runner, step) /\ ~ReviewContext /\ Fails /\ Lapse("unreadable")

JudgeImplementation ==
  /\ \/ /\ At(Runner, "judge") /\ Waived(Number(implement)) /\ ReviewContext
        /\ RecordReview(implement, Waiver, "accepted") /\ Goto(Runner, "approval")
        /\ UNCHANGED historyVars
     \/ /\ At(Runner, "judge") /\ ~Waived(Number(implement))
        /\ proc' = [proc EXCEPT ![Runner].step = "review", ![Runner].ok = TRUE]
        /\ UNCHANGED <<vars, historyVars>>
     \/ Waived(Number(implement)) /\ Unreviewable("judge") /\ UNCHANGED vars
  /\ UNCHANGED <<mission, evidence, artifact, claimBox, sessionVars>>

GetReviewContext ==
  /\ \/ At(Runner, "review") /\ ReviewContext /\ Goto(Runner, "bound") /\ UNCHANGED historyVars
     \/ Unreviewable("review")
  /\ Local

\* contractReviewDecisionFromEvents
Decisions == {"accepted", "changes_requested", "blocked"}

\* Mutation of Verdicts: a review that could not be made may pass.
AnyVerdict(made) == Decisions

\* DeterministicImplementationVerifier: a review that could not be made requests changes.
Verdicts(made) == IF made THEN Decisions ELSE {"changes_requested"}

\* reviewImplementation: a recovered review that blocks the ticket just ends the run.
ReviewImplementation ==
  /\ At(Runner, "restored") /\ Reviews(Runner)
  /\ \E outcome \in Verdicts(proc[Runner].ok) :
       /\ RecordReview(implement, Verifier, outcome)
       /\ evidence' = [evidence EXCEPT
            !.reviewed = @ \cup {Number(implement)},
            !.judged = IF proc[Runner].ok THEN @ \cup {Number(implement)} ELSE @]
       /\ IF outcome = "accepted" THEN Goto(Runner, "approval") /\ UNCHANGED historyVars
          ELSE IF outcome = "blocked" /\ proc[Runner].saw # "resumed" THEN Fails /\ Lapse("verdict")
          ELSE Ends /\ UNCHANGED historyVars
  /\ UNCHANGED <<mission, artifact, claimBox, sessionVars>>

\* primaryDeliveryArtifactFromProof: the artifact is what was captured for this attempt, in
\* the sandbox its claim names.
ArtifactProved == claimBox /\ artifact.attempt = Number(implement) /\ artifact.files > 0

\* The accepted work rests on a capture that nothing else in the attempt contradicts.
Approvable ==
  /\ ArtifactProved
  /\ status[implement] = "awaiting_approval" /\ RepositoryProved
  /\ Number(implement) \notin evidence.failed

\* ensurePrimaryDeliveryApproval, up to the approval request
EnsureApproval ==
  /\ At(Runner, "approval")
  /\ \/ Approvable /\ mission' = "awaiting_approval" /\ Ends /\ UNCHANGED historyVars
     \/ Approvable /\ RemoteFailure(Runner) /\ UNCHANGED mission
     \/ ~Approvable /\ Fails /\ UNCHANGED <<mission, historyVars>>
  /\ OnlyMission

-----------------------------------------------------------------------------
(* blockActiveWork: an error ends it silently.                             *)

BlockActiveWork ==
  /\ At(Runner, "block")
  /\ LET active == {i \in Items : Active(i)} IN
     IF active = {} THEN Goto(Runner, "blockMission")
     ELSE \E i \in active : proc' = [proc EXCEPT ![Runner].step = "blockTicket", ![Runner].item = i]
  /\ Local /\ UNCHANGED historyVars

BlockTicket ==
  /\ At(Runner, "blockTicket")
  /\ TransitionSystemWorkItem(Item(Runner), "failure", "blocked")
  /\ Goto(Runner, "blockMission")
  /\ OnlyTickets

BlockMission ==
  /\ At(Runner, "blockMission")
  /\ mission' = "blocked" /\ Ends
  /\ OnlyMission /\ Forget(Causes)

-----------------------------------------------------------------------------
(* Others on the board, and the process.                                   *)

Others == UNCHANGED <<mission, evidence, artifact, sessionVars, proc>>

Authorize(i) ==
  /\ \E h \in Humans : AuthorizeWorkItem(i, h)
  /\ Interferes /\ Others /\ UNCHANGED <<claimBox, faults>>

Revoke(i) ==
  /\ RevokeWorkItemAuthorization(i)
  /\ Interferes /\ Others /\ UNCHANGED <<claimBox, faults>>

\* claimPrimaryTicket
ClaimPrimaryTicket(i, o) ==
  /\ faults < MaxFaults /\ faults' = faults + 1
  /\ ClaimWorkItem(i, o)
  /\ claimBox' = IF i = implement THEN box = "known" ELSE claimBox
  /\ Interferes /\ Others

\* What a crash leaves that a later run does not get over.
Unfinished ==
  (IF status[inspect] = "proving" THEN {"proving"} ELSE {})
  \cup (IF status[inspect] = "done" /\ status[implement] = "absent" THEN {"unplanned"} ELSE {})
  \cup (IF status[implement] = "proving" /\ Number(implement) \in evidence.failed
        THEN {"sentback"} ELSE {})

Crash ==
  /\ faults < MaxFaults /\ faults' = faults + 1
  /\ \E p \in {Runner, Creator} : ~At(p, "idle")
  /\ proc' = [p \in {Runner, Creator} |-> Idle]
  /\ Orphaned /\ box' = SandboxAfterLoss
  /\ stale' = FALSE
  /\ lapses' = lapses \cup Unfinished
  /\ UNCHANGED <<Store, agent, version>>

-----------------------------------------------------------------------------
\* What a process does once it was started.
Create ==
  \/ FindMission \/ ResolveSession \/ CreateDraft \/ PersistPreflightGraph
  \/ PersistIntakeGraph \/ FinishPlanning

Run ==
  \/ NextQueueWorkItem \/ PrepareMissionForExecution \/ Dispatch
  \/ ClaimForExecution \/ ClaimReadyWorkItem \/ BindExecution
  \/ ExecuteRepositoryInspection \/ ProveInspection \/ FinishInspection \/ PersistInspectedGraph
  \/ ExecuteImplementation \/ StartTurn \/ AttachSandbox \/ AttachExecution
  \/ RequirePassedTurn \/ ProveImplementation \/ RecoverCheckpoint
  \/ CaptureDiff \/ CaptureFiles \/ RequestChanges \/ RecordImplementationHandoff
  \/ JudgeImplementation \/ GetReviewContext \/ ReviewImplementation \/ EnsureApproval
  \/ BlockActiveWork \/ BlockTicket \/ BlockMission

Continue(p) ==
  \/ p = Creator /\ Create
  \/ p = Runner /\ Run
  \/ EnsureWorkItems(p) \/ MoveToBacklog(p)
  \/ BoundAgent(p) \/ CoordinatorTurn(p) \/ RestoreAgent(p)
  \/ InspectionPassed(p) \/ InspectionFailed(p)

CodingTurn == \E t \in coding, completed \in BOOLEAN : TurnEnds(t, completed)

RunNext ==
  \/ \E kind \in {"open", "plan"} : CreateMission(kind)
  \/ RunPrimaryMission
  \/ \E p \in {Runner, Creator} : Continue(p)
  \/ \E t \in coding : MakeSandbox(t) \/ Edit(t) \/ OrphanEnds(t)
  \/ CodingTurn
  \/ StreamBreaks
  \/ \E i \in Items : Authorize(i) \/ Revoke(i) \/ (\E o \in Rivals : ClaimPrimaryTicket(i, o))
  \/ Crash

RunSpec == RunInit /\ [][RunNext]_runVars

\* A started process goes on, and a turn that is followed ends.
FairRunSpec ==
  /\ RunSpec
  /\ \A p \in {Runner, Creator} : WF_runVars(Continue(p))
  /\ WF_runVars(CodingTurn)

-----------------------------------------------------------------------------
(* Properties.                                                             *)

\* The controller does not give a mission up for nothing: it is only ever blocked by a run
\* with a remote failure, a verdict, another's call in the middle of its own calls or a
\* recorded diff that cannot be read, or after a crash at one of two places.
BlockedForCause ==
  [][mission # "blocked" /\ mission' = "blocked" =>
       (lapses \cup lapses') \cap (Causes \cup {"proving", "sentback"}) # {}]_runVars

\* Coding starts with the agent of the mission, whatever crash or failure left the
\* coordinator's agent behind, unless it could not be restored.
CodingAgentUnrestricted ==
  [][\A t \in coding' \ coding : t.by = Runner => t.able \/ "restore" \in lapses]_runVars

\* The capture never finds the claim bound to another sandbox than the mission.
CaptureMeetsItsSandbox == At(Runner, "capture") => claimBox = (box = "known")

\* What was handed over is one state of the sandbox, of this attempt, unless a turn that
\* nobody follows may still edit.
ArtifactIsOneState ==
  handoff[implement].id > 0 =>
    \/ "orphan" \in lapses
    \/ artifact.attempt # handoff[implement].attempt   \* a later capture is under way
    \/ artifact.files \in {0, artifact.diff}

\* What awaits a human's approval had a review made of this very attempt, or is a rework
\* that a human authorized after a recorded review, not a finding of the capture, had sent
\* the attempt before it back.  A review that could not be made never accepts, but it is
\* recorded, and sends back: behind a waiver there may be no review that was made at all.
AcceptedByReviewOrWaiver ==
  status[implement] = "awaiting_approval" =>
    LET n == Number(implement) IN
    n \in evidence.judged \/ (n - 1 \in evidence.reviewed /\ SentBack(n - 1))

\* Every run and every creation of the mission ends.
RunsEnd == \A p \in {Runner, Creator} : ~At(p, "idle") ~> At(p, "idle")

\* An inspection that is done is followed by a planned implementation, or its failure
\* blocks the mission, unless the process died in between.
PlanFollowsInspection ==
  status[inspect] = "done" ~>
    status[implement] # "absent" \/ mission = "blocked" \/ "unplanned" \in lapses

\* "Human-authorized rework completed and is ready for final delivery approval.": the
\* waiver of its review is given to a rework whose turn completed.
ApprovedWorkWasCompleted ==
  status[implement] = "awaiting_approval" /\ review[implement].reviewer = Waiver =>
    Number(implement) \in evidence.turned
=============================================================================
