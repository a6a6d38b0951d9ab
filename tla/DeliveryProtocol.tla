--------------------------- MODULE DeliveryProtocol ---------------------------
(***************************************************************************)
(* The delivery of the implementation ticket, step by step: how the local  *)
(* mission controller (http/server.ts) requests an approval, carries out   *)
(* an operator's decision, and resumes a delivery in a later run, through  *)
(* the TrueForge delivery adapter (trueforge.ts), which pushes the branch, *)
(* creates the pull request and reads it back.                             *)
(*                                                                         *)
(* A step is one service call or one remote turn; everything between two   *)
(* awaits belongs to the step.  Operators' decisions run next to each      *)
(* other and next to the one run of the process.  Approvals expire,        *)
(* answers of remote turns are lost, the process dies and starts again     *)
(* while a remote turn goes on, and others push to the delivery branch.    *)
(*                                                                         *)
(* The ticket has an accepted review of its current attempt; nothing in    *)
(* the controller changes that before the delivery ends.                   *)
(***************************************************************************)
EXTENDS Naturals, Sequences, FiniteSets

CONSTANTS
  Operators,      \* requests that carry an operator's decision
  Runner,         \* the run of the process
  Nobody,         \* whose answer nobody waits for any more
  Kinds,          \* the ways of delivery of this instance
  MaxApprovals,   \* bound on approvals ever requested
  MaxFaults       \* bound on crashes and on pushes by others

ASSUME ProtocolAssumption ==
  /\ Runner \notin Operators /\ Nobody \notin Operators \cup {Runner}
  /\ Kinds \subseteq {"artifact", "head"}
  /\ MaxApprovals \in Nat \ {0} /\ MaxFaults \in Nat

Processes == Operators \cup {Runner}

VARIABLES
  kind,        \* what is approved: publishing the captured artifact, or an existing head
  ticket,      \* status of the implementation ticket and of its attempt
  mission,     \* status of the mission
  approvals,   \* the approvals in the order of their requests
  delivery,    \* the approval of the recorded delivery, or 0
  branch,      \* the remote delivery branch
  opened,      \* whether its pull request exists
  turns,       \* remote turns under way: what they do, for which approval and for whom
  reply,       \* reply[p]: the answer process p got to its remote turn
  proc,        \* proc[p]: where process p is
  faults

protocolVars == <<kind, ticket, mission, approvals, delivery, branch, opened, turns, reply, proc, faults>>
storeVars == <<ticket, mission, approvals, delivery>>
remoteVars == <<branch, opened, turns, reply>>

\* An approval with the tool call it holds, the delivery attempt recorded under it, that
\* attempt's remote result, and whether the pull request was read back.
Approval == [decision: {"pending", "approved", "rejected", "cancelled"}, live: BOOLEAN,
             call: {"held", "allowed", "denied"}, intent: {"none", "pending", "completed"},
             result: BOOLEAN, readback: BOOLEAN]

Steps == {"idle", "prepare", "choose", "ensure", "suspend", "request", "await",
          "revalidate", "deny", "denying", "advance", "mission", "verify",
          "intent", "resolve", "pushing", "create", "creating", "reconcile", "readback",
          "result", "record", "block", "blockTicket", "blockMission", "stop"}

\* A process works on approval n, or saw the ticket as saw; passes counts the times it has
\* still to block the delivery.
Process == [step: Steps, n: 0..MaxApprovals, passes: 0..2,
            saw: {"", "awaiting_approval", "delivering"}]

Turn == [op: {"push", "create", "deny"}, n: 1..MaxApprovals, by: Processes \cup {Nobody}]

Idle == [step |-> "idle", n |-> 0, passes |-> 0, saw |-> ""]

ProtocolTypeOK ==
  /\ kind \in Kinds
  /\ ticket \in {"awaiting_approval", "delivering", "done", "blocked"}
  /\ mission \in {"executing", "awaiting_approval", "verifying", "delivered", "blocked"}
  /\ approvals \in Seq(Approval) /\ Len(approvals) <= MaxApprovals
  /\ delivery \in 0..Len(approvals)
  /\ branch \in {"none", "approved", "other"}
  /\ opened \in BOOLEAN
  /\ turns \subseteq Turn
  /\ reply \in [Processes -> {"none", "ok", "refused"}]
  /\ proc \in [Processes -> Process]
  /\ faults \in 0..MaxFaults

\* Mutation of NewApproval: it is requested and not yet pending.
UnknownApproval == [decision |-> "requested", live |-> TRUE, call |-> "held",
                    intent |-> "none", result |-> FALSE, readback |-> FALSE]

NewApproval == [decision |-> "pending", live |-> TRUE, call |-> "held",
                intent |-> "none", result |-> FALSE, readback |-> FALSE]

\* The review was accepted.  An approval of an existing head was requested before
\* artifacts were captured; it is in the state, and the head is on the branch.
Init ==
  /\ kind \in Kinds
  /\ ticket = "awaiting_approval"
  /\ mission = IF kind = "head" THEN "awaiting_approval" ELSE "executing"
  /\ approvals = IF kind = "head" THEN <<NewApproval>> ELSE <<>>
  /\ delivery = 0
  /\ branch = IF kind = "head" THEN "approved" ELSE "none"
  /\ opened = FALSE
  /\ turns = {}
  /\ reply = [p \in Processes |-> "none"]
  /\ proc = [p \in Processes |-> Idle]
  /\ faults = 0

-----------------------------------------------------------------------------
(* Control flow.                                                           *)

At(p, step) == proc[p].step = step
Goto(p, step) == proc' = [proc EXCEPT ![p].step = step]
Ends(p) == proc' = [proc EXCEPT ![p] = Idle]
OfApproval(p) == approvals[proc[p].n]

\* The catch clauses: a failed delivery is blocked by the function that made it and, in a
\* run, by the run once more.  (The evidence of the failure is written next to it.)
Fails(p, passes) == proc' = [proc EXCEPT ![p] = [Idle EXCEPT !.step = "block", !.passes = passes]]

\* Mutation of DeliveryFails: the error is returned and nothing is blocked.
FailsSilently(p) == Ends(p)
DeliveryFails(p) == Fails(p, IF p = Runner THEN 2 ELSE 1)

\* Mutation of PassEnds: blocking is tried again and again.
PassRepeats(p) == Fails(p, 1)

\* The end of a pass over the delivery that is to be blocked.
PassEnds(p) ==
  IF proc[p].passes = 2 THEN Fails(p, 1) ELSE Ends(p)

Local == UNCHANGED <<kind, storeVars, remoteVars, faults>>    \* only the process moves
Read(p) == reply' = [reply EXCEPT ![p] = "none"]              \* p takes its answer
Remote == UNCHANGED <<kind, storeVars, branch, opened, faults>>

\* Process p starts a remote turn and waits for its answer.
Send(p, op, waiting) ==
  /\ turns' = turns \cup {[op |-> op, n |-> proc[p].n, by |-> p]}
  /\ UNCHANGED reply
  /\ Goto(p, waiting)
  /\ Remote

Open == mission # "delivered"       \* ensureOpen; no mission fails here
Active == ticket \in {"awaiting_approval", "delivering"}

\* requireApprovalRepositoryProof, requireCurrentDeliveryApprovalCorrelation: while the
\* ticket waits or is delivered, its attempt, handoff, review and captured artifact are the
\* ones approved.
Correlated == Active

\* Mutation of Executable: an expired approval still counts.
ApprovedOnce(n) == approvals[n].decision = "approved" /\ Correlated
Executable(n) == approvals[n].decision = "approved" /\ approvals[n].live /\ Correlated

\* What inspectDeliveryHead reads: the branch has the approved changes.
BranchAsApproved == branch = "approved"

-----------------------------------------------------------------------------
(* runPrimaryMission: one run at a time, on the ticket that waits for its  *)
(* approval or is being delivered.                                         *)

\* createOrOpenPrimaryMission has nothing to do; nextQueueWorkItem finds the ticket.
RunPrimaryMission ==
  /\ At(Runner, "idle") /\ Active
  /\ proc' = [proc EXCEPT ![Runner].step = "prepare", ![Runner].saw = ticket]
  /\ Local

\* prepareMissionForExecution: a blocked or delivered mission does not run.
PrepareMissionForExecution ==
  /\ At(Runner, "prepare")
  /\ IF mission \in {"blocked", "delivered"} THEN Fails(Runner, 1) ELSE Goto(Runner, "choose")
  /\ Local

\* An approved delivery goes on where the ticket stands.
ResumePrimaryDelivery(n) ==
  IF ~Correlated THEN Fails(Runner, 1)
  ELSE proc' = [proc EXCEPT ![Runner] = [Idle EXCEPT !.n = n, !.step =
                  IF ticket = "awaiting_approval" THEN "advance" ELSE "mission"]]

\* A ticket awaiting approval whose last approval is not approved needs one; otherwise
\* the delivery resumes.
Choose ==
  /\ At(Runner, "choose")
  /\ LET n == Len(approvals) IN
     IF n > 0 /\ approvals[n].decision = "approved" THEN ResumePrimaryDelivery(n)
     ELSE IF proc[Runner].saw = "delivering" THEN Fails(Runner, 1)
     ELSE proc' = [proc EXCEPT ![Runner] = [Idle EXCEPT !.step = "ensure"]]
  /\ Local

-----------------------------------------------------------------------------
(* ensurePrimaryDeliveryApproval                                           *)

\* The first approval that is pending or approved and has not expired.
ActiveRequest(n) == approvals[n].decision \in {"pending", "approved"} /\ approvals[n].live

EnsurePrimaryDeliveryApproval ==
  /\ At(Runner, "ensure")
  /\ IF ticket # "awaiting_approval" THEN Fails(Runner, 1)
     ELSE IF \E n \in 1..Len(approvals) : ActiveRequest(n) THEN Goto(Runner, "await")
     ELSE Goto(Runner, "suspend")
  /\ Local

\* requestPullRequestApproval: a turn ends at the push, which TrueForge holds.
Suspend ==
  /\ At(Runner, "suspend")
  /\ Goto(Runner, "request") \/ Fails(Runner, 1)
  /\ Local

\* requestActionApproval: TrueForge holds the call to publish an artifact.
RequestActionApproval ==
  /\ At(Runner, "request") /\ Len(approvals) < MaxApprovals /\ kind = "artifact"
  /\ IF Open
     THEN approvals' = Append(approvals, NewApproval) /\ Goto(Runner, "await")
     ELSE Fails(Runner, 1) /\ UNCHANGED approvals
  /\ UNCHANGED <<kind, ticket, mission, delivery, remoteVars, faults>>

\* Past the bound on approvals the run is not followed.
RequestBeyondBound ==
  /\ At(Runner, "request") /\ (Len(approvals) = MaxApprovals \/ kind = "head")
  /\ Ends(Runner)
  /\ Local

\* The mission awaits the approval, unless the decision was faster: then its tickets do
\* not admit the transition.
AwaitApproval ==
  /\ At(Runner, "await")
  /\ IF ~Correlated THEN Fails(Runner, 1) /\ UNCHANGED mission
     ELSE IF mission # "executing" THEN Ends(Runner) /\ UNCHANGED mission
     ELSE IF ticket # "awaiting_approval" THEN Fails(Runner, 1) /\ UNCHANGED mission
     ELSE mission' = "awaiting_approval" /\ Ends(Runner)
  /\ UNCHANGED <<kind, ticket, approvals, delivery, remoteVars, faults>>

-----------------------------------------------------------------------------
(* decidePrimaryDelivery                                                   *)

\* Mutation of MayDecide: a decision may be changed.
MayRevise(n, decision) ==
  /\ Correlated /\ Open
  /\ decision = "approved" => approvals[n].live

\* The state is read, checked, read again and decided under its revision.
MayDecide(n, decision) ==
  /\ approvals[n].decision = "pending" /\ Correlated /\ Open
  /\ decision = "approved" => approvals[n].live

Decided(p, n, decision) ==
  /\ approvals' = [approvals EXCEPT ![n].decision = decision]
  /\ proc' = [proc EXCEPT ![p].n = n,
                          ![p].step = IF decision = "approved" THEN "advance" ELSE "deny"]
  /\ UNCHANGED <<kind, ticket, mission, delivery, remoteVars, faults>>

DecidePrimaryDelivery(p, n, decision) ==
  /\ At(p, "idle")
  /\ kind = "head" => decision # "approved"
  /\ MayDecide(n, decision)
  /\ Decided(p, n, decision)

\* Before an existing head is approved, the remote branch is read again.
StartApprovalOfHead(p, n) ==
  /\ At(p, "idle") /\ kind = "head" /\ Correlated
  /\ proc' = [proc EXCEPT ![p].step = "revalidate", ![p].n = n]
  /\ Local

\* revalidatePrimaryDeliveryHead, and the decision under what is the state by then.  An
\* error leaves everything as it was.
RevalidatePrimaryDeliveryHead(p) ==
  /\ At(p, "revalidate")
  /\ \/ BranchAsApproved /\ MayDecide(proc[p].n, "approved")
        /\ Decided(p, proc[p].n, "approved")
     \/ Ends(p) /\ Local

\* A denial is sent to TrueForge outside of the try block: if it fails, the request ends
\* and nothing is blocked.
Deny(p) == At(p, "deny") /\ Send(p, "deny", "denying")

Denied(p) ==
  /\ At(p, "denying")
  /\ \/ reply[p] = "ok" /\ Fails(p, 1)
     \/ reply[p] = "refused" /\ Ends(p)
  /\ Read(p) /\ UNCHANGED turns /\ Remote

-----------------------------------------------------------------------------
(* The approved delivery: decidePrimaryDelivery or resumePrimaryDelivery,  *)
(* then completePrimaryDelivery.                                           *)

Advances == ticket = "awaiting_approval"

AdvanceTicket(p) ==
  /\ At(p, "advance")
  /\ IF Advances /\ Open THEN ticket' = "delivering" /\ Goto(p, "mission")
     ELSE DeliveryFails(p) /\ UNCHANGED ticket
  /\ UNCHANGED <<kind, mission, approvals, delivery, remoteVars, faults>>

ReadMission(p) ==
  /\ At(p, "mission")
  /\ Goto(p, IF mission = "awaiting_approval" THEN "verify" ELSE "intent")
  /\ Local

VerifyMission(p) ==
  /\ At(p, "verify")
  /\ IF mission = "awaiting_approval" /\ ticket \in {"delivering", "done"}
     THEN mission' = "verifying" /\ Goto(p, "intent")
     ELSE DeliveryFails(p) /\ UNCHANGED mission
  /\ UNCHANGED <<kind, ticket, approvals, delivery, remoteVars, faults>>

\* recordDeliveryAttempt: whether this call created the attempt.
Owns(n) == approvals[n].intent = "none"

\* persistedPullRequestReadback, or else the remote effect or its reconciliation.
AfterIntent(n) ==
  IF approvals[n].readback THEN "result" ELSE IF Owns(n) THEN "resolve" ELSE "reconcile"

\* Mutation of RecordDeliveryAttempt: the effect comes first and the record with its result.
EffectBeforeIntent(p) ==
  /\ At(p, "intent")
  /\ IF Open /\ Executable(proc[p].n) THEN Goto(p, AfterIntent(proc[p].n)) ELSE DeliveryFails(p)
  /\ Local

RecordDeliveryAttempt(p) ==
  /\ At(p, "intent")
  /\ LET n == proc[p].n IN
     IF Open /\ Executable(n)
     THEN /\ approvals' = [approvals EXCEPT ![n].intent = IF @ = "none" THEN "pending" ELSE @]
          /\ Goto(p, AfterIntent(n))
     ELSE DeliveryFails(p) /\ UNCHANGED approvals
  /\ UNCHANGED <<kind, ticket, mission, delivery, remoteVars, faults>>

\* executeProtectedAction checks the approval once more and then answers the held call;
\* for an existing head, it reads the branch again before it does.
ResolvePullRequestApproval(p) ==
  /\ At(p, "resolve")
  /\ IF Open /\ Executable(proc[p].n) /\ (kind = "head" => BranchAsApproved)
     THEN Send(p, IF kind = "artifact" THEN "push" ELSE "create",
               IF kind = "artifact" THEN "pushing" ELSE "creating")
     ELSE DeliveryFails(p) /\ Local

\* The answer to push_files has the published commit.
Pushed(p) ==
  /\ At(p, "pushing")
  /\ \/ reply[p] = "ok" /\ Goto(p, "create")
     \/ reply[p] = "refused" /\ DeliveryFails(p)
  /\ Read(p) /\ UNCHANGED turns /\ Remote

\* createPullRequestAfterPublishedArtifact: a turn asks for the pull request and the
\* call that TrueForge holds for it is allowed under the same approval.
CreatePullRequestAfterPublishedArtifact(p) ==
  /\ At(p, "create")
  /\ \/ Send(p, "create", "creating")
     \/ DeliveryFails(p) /\ Local

\* Mutation of AfterCreation: an existing head is delivered without a read-back.
NoReadback == "result"

\* Only resolvePullRequestApproval reads the pull request back that it created.
AfterCreation == IF kind = "head" THEN "readback" ELSE "result"

Created(p) ==
  /\ At(p, "creating")
  /\ \/ reply[p] = "ok" /\ Goto(p, AfterCreation)
     \/ reply[p] = "refused" /\ DeliveryFails(p)
  /\ Read(p) /\ UNCHANGED turns /\ Remote

\* reconcileVerifiedArtifactDelivery: the branch is as approved, and the known pull request,
\* or the one found, is read back.  If none is found, it is created.
ReconcileArtifact(p) ==
  /\ kind = "artifact" /\ BranchAsApproved
  /\ Goto(p, IF OfApproval(p).result \/ opened THEN "readback" ELSE "create")

\* reconcilePullRequestApproval: it never creates the pull request of an existing head.
ReconcileHead(p) ==
  /\ kind = "head" /\ (OfApproval(p).result \/ opened)
  /\ Goto(p, "readback")

ReconcilePullRequestApproval(p) ==
  /\ At(p, "reconcile")
  /\ ReconcileArtifact(p) \/ ReconcileHead(p) \/ DeliveryFails(p)
  /\ Local

\* The pull request that is read is open, on the approved branch and head.
PullRequestAsApproved == opened /\ BranchAsApproved

\* verifyCreatedPullRequest: what was read is evidence, if it is the approved head.
VerifyCreatedPullRequest(p) ==
  /\ At(p, "readback")
  /\ \/ /\ PullRequestAsApproved /\ Open
        /\ approvals' = [approvals EXCEPT ![proc[p].n].readback = TRUE]
        /\ Goto(p, "result")
     \/ DeliveryFails(p) /\ UNCHANGED approvals
  /\ UNCHANGED <<kind, ticket, mission, delivery, remoteVars, faults>>

RecordDeliveryAttemptResult(p) ==
  /\ At(p, "result")
  /\ approvals' = [approvals EXCEPT ![proc[p].n].result = TRUE]
  /\ Goto(p, "record")
  /\ UNCHANGED <<kind, ticket, mission, delivery, remoteVars, faults>>

\* Mutation of MayRecord: the mission is not looked at.
ApprovedForRecord(n) == delivery = 0 /\ Executable(n)
MayRecord(n) == delivery = 0 /\ mission = "verifying" /\ Executable(n)

\* addEvidence, recordDelivery and completeDeliveryAttempt.
RecordDelivery(p) ==
  /\ At(p, "record")
  /\ LET n == proc[p].n IN
     IF MayRecord(n) /\ ticket = "delivering"
     THEN /\ delivery' = n
          /\ approvals' = [approvals EXCEPT ![n].intent = "completed"]
          /\ ticket' = "done"
          /\ mission' = "delivered"
          /\ Ends(p)
     ELSE DeliveryFails(p) /\ UNCHANGED storeVars
  /\ UNCHANGED <<kind, remoteVars, faults>>

-----------------------------------------------------------------------------
(* blockPrimaryDelivery and blockActiveWork: read and write the ticket,    *)
(* then the mission; an error ends the pass silently.                      *)

ReadTicketToBlock(p) ==
  /\ At(p, "block")
  /\ Goto(p, IF Active THEN "blockTicket" ELSE "blockMission")
  /\ Local

\* Mutation of BlockTicket: the status that was read is still believed.
BlockTicketAsRead(p) ==
  /\ At(p, "blockTicket")
  /\ ticket' = "blocked" /\ Goto(p, "blockMission")
  /\ UNCHANGED <<kind, mission, approvals, delivery, remoteVars, faults>>

BlockTicket(p) ==
  /\ At(p, "blockTicket")
  /\ IF Active THEN ticket' = "blocked" /\ Goto(p, "blockMission")
     ELSE PassEnds(p) /\ UNCHANGED ticket
  /\ UNCHANGED <<kind, mission, approvals, delivery, remoteVars, faults>>

ReadMissionToBlock(p) ==
  /\ At(p, "blockMission")
  /\ IF mission \in {"blocked", "delivered"} THEN PassEnds(p) ELSE Goto(p, "stop")
  /\ Local

BlockMission(p) ==
  /\ At(p, "stop")
  /\ mission' = IF mission \in {"blocked", "delivered"} THEN mission ELSE "blocked"
  /\ PassEnds(p)
  /\ UNCHANGED <<kind, ticket, approvals, delivery, remoteVars, faults>>

-----------------------------------------------------------------------------
(* TrueForge and GitHub, the clock and the process.                        *)

\* What a remote turn does when it gets to it: a held call is answered once, and one
\* branch has one pull request.
Accepts(t) ==
  /\ t.op \in {"push", "deny"} \/ kind = "head" => approvals[t.n].call = "held"
  /\ t.op = "create" => ~opened /\ branch # "none"

Serve(t) ==
  /\ turns' = turns \ {t}
  /\ reply' = IF t.by = Nobody THEN reply
              ELSE [reply EXCEPT ![t.by] = IF Accepts(t) THEN "ok" ELSE "refused"]
  /\ approvals' = IF Accepts(t) /\ (t.op # "create" \/ kind = "head")
                  THEN [approvals EXCEPT ![t.n].call = IF t.op = "deny" THEN "denied" ELSE "allowed"]
                  ELSE approvals
  /\ branch' = IF Accepts(t) /\ t.op = "push" THEN "approved" ELSE branch
  /\ opened' = (opened \/ (Accepts(t) /\ t.op = "create"))
  /\ UNCHANGED <<kind, ticket, mission, delivery, proc, faults>>

\* The answer is lost, before or after the turn did what it does: the waiting process is
\* told of an error.
LoseAnswer(p) ==
  /\ proc[p].step \in {"denying", "pushing", "creating"}
  /\ turns' = {IF t.by = p THEN [t EXCEPT !.by = Nobody] ELSE t : t \in turns}
  /\ Read(p)
  /\ IF At(p, "denying") THEN Ends(p) ELSE DeliveryFails(p)
  /\ Remote

Expire(n) ==
  /\ approvals[n].live
  /\ approvals' = [approvals EXCEPT ![n].live = FALSE]
  /\ UNCHANGED <<kind, ticket, mission, delivery, remoteVars, proc, faults>>

Fault == faults < MaxFaults /\ faults' = faults + 1

\* The process dies and starts again; its remote turns go on.
Crash ==
  /\ Fault /\ \E p \in Processes : ~At(p, "idle")
  /\ proc' = [p \in Processes |-> Idle]
  /\ turns' = {[t EXCEPT !.by = Nobody] : t \in turns}
  /\ reply' = [p \in Processes |-> "none"]
  /\ UNCHANGED <<kind, storeVars, branch, opened>>

\* Somebody else pushes to the delivery branch.
Push ==
  /\ Fault /\ branch = "approved"
  /\ branch' = "other"
  /\ UNCHANGED <<kind, storeVars, opened, turns, reply, proc>>

-----------------------------------------------------------------------------
\* What process p does once it has started.
Continue(p) ==
  \/ p = Runner /\ (\/ PrepareMissionForExecution \/ Choose \/ EnsurePrimaryDeliveryApproval
                    \/ Suspend \/ RequestActionApproval \/ RequestBeyondBound \/ AwaitApproval)
  \/ RevalidatePrimaryDeliveryHead(p) \/ Deny(p) \/ Denied(p)
  \/ AdvanceTicket(p) \/ ReadMission(p) \/ VerifyMission(p) \/ RecordDeliveryAttempt(p)
  \/ ResolvePullRequestApproval(p) \/ Pushed(p) \/ CreatePullRequestAfterPublishedArtifact(p)
  \/ Created(p) \/ ReconcilePullRequestApproval(p) \/ VerifyCreatedPullRequest(p)
  \/ RecordDeliveryAttemptResult(p) \/ RecordDelivery(p)
  \/ ReadTicketToBlock(p) \/ BlockTicket(p) \/ ReadMissionToBlock(p) \/ BlockMission(p)

Next ==
  \/ RunPrimaryMission
  \/ \E p \in Operators, n \in 1..Len(approvals) :
       \/ \E d \in {"approved", "rejected", "cancelled"} : DecidePrimaryDelivery(p, n, d)
       \/ StartApprovalOfHead(p, n)
  \/ \E p \in Processes : Continue(p) \/ LoseAnswer(p)
  \/ \E t \in turns : Serve(t)
  \/ \E n \in 1..Len(approvals) : Expire(n)
  \/ Crash
  \/ Push

Spec == Init /\ [][Next]_protocolVars

\* A started request goes on, and a remote turn ends.
FairSpec ==
  /\ Spec
  /\ \A p \in Processes : WF_protocolVars(Continue(p))
  /\ WF_protocolVars(\E t \in turns : Serve(t))

-----------------------------------------------------------------------------
(* Properties.                                                             *)

\* Nothing reaches the repository before the decision and the intent are durable: a push
\* or a pull request of an artifact, or a pull request of a head, was sent under an
\* approved approval whose delivery attempt is recorded, whatever crashed since.
IntentBeforeEffect ==
  /\ \A t \in turns : t.op # "deny" => approvals[t.n].intent # "none"
  /\ \A n \in 1..Len(approvals) : approvals[n].call = "allowed" =>
       approvals[n].decision = "approved" /\ approvals[n].intent # "none"
  /\ opened => \E n \in 1..Len(approvals) : approvals[n].call = "allowed"

\* A rejected or cancelled push is never allowed, not even by a run that resumes.
DeniedStaysDenied ==
  \A n \in 1..Len(approvals) :
    approvals[n].decision \in {"rejected", "cancelled"} => approvals[n].call # "allowed"

\* The ticket, the mission and the delivery record end together, and only with a pull
\* request that was really created under the recorded approval.
EndsTogether ==
  /\ ticket = "done" <=> delivery # 0
  /\ mission = "delivered" <=> delivery # 0
  /\ delivery # 0 => opened /\ approvals[delivery].call = "allowed" /\ approvals[delivery].result

\* At most one of the ticket's approvals ever publishes, although approvals expire, are
\* requested again, and are decided while a run requests the next.
OnePublication ==
  Cardinality({n \in 1..Len(approvals) : approvals[n].call = "allowed"}) <= 1

\* An existing head is delivered only after its pull request was read back.
HeadDoneAfterReadback ==
  kind = "head" /\ ticket = "done" => approvals[delivery].readback

\* Every step is a call that the service admits for a ticket of one implementation, or it
\* changes nothing that the service keeps.
Gate == INSTANCE DeliveryGate WITH
  Items <- {"implement"}, Graphs <- {}, Humans <- {"human"}, Owners <- {"worker"},
  Verifier <- "verifier", NoOne <- "none", NoItem <- "none", NoPR <- "none",
  PullRequests <- {"pull"}, Validated <- TRUE,
  Triggers <- {"human", "execution", "proof", "approval", "failure"},
  MaxAttempts <- [i \in {"implement"} |-> 1], MaxGrants <- [i \in {"implement"} |-> 1],
  MaxDelegations <- [i \in {"implement"} |-> 0], MaxHandoffs <- [i \in {"implement"} |-> 1],
  MaxReviews <- [i \in {"implement"} |-> 1],
  plan <- [i \in {"implement"} |-> [dependsOn |-> {}, role |-> "implementer",
                                    checked |-> TRUE, scoped |-> TRUE]],
  status <- [i \in {"implement"} |-> ticket],
  auth <- [i \in {"implement"} |-> 1], granted <- [i \in {"implement"} |-> 1],
  claim <- [i \in {"implement"} |-> "worker"],
  attempts <- [i \in {"implement"} |-> <<[auth |-> 1, owner |-> "worker", findings |-> {},
                                         status |-> ticket, retiredBy |-> "none"]>>],
  requested <- [i \in {"implement"} |-> {}],
  delegation <- [i \in {"implement"} |-> [thread |-> 0, owner |-> "none", status |-> "none"]],
  handoff <- [i \in {"implement"} |-> [id |-> 1, attempt |-> 1, thread |-> 0, done |-> TRUE]],
  review <- [i \in {"implement"} |-> [handoff |-> 1, attempt |-> 1, reviewer |-> "verifier",
                                      outcome |-> "accepted"]],
  reviewed <- [i \in {"implement"} |-> 1],
  approvals <- [n \in 1..Len(approvals) |->
                 [item |-> "implement", attempt |-> 1, handoff |-> 1, review |-> 1,
                  decision |-> approvals[n].decision, live |-> approvals[n].live,
                  intent |-> approvals[n].intent,
                  pr |-> IF approvals[n].result THEN "pull" ELSE "none"]],
  delivery <- IF delivery = 0
              THEN [status |-> "none", approval |-> 0, item |-> "none", attempt |-> 0, pr |-> "none"]
              ELSE [status |-> "delivered", approval |-> delivery, item |-> "implement",
                    attempt |-> 1, pr |-> "pull"]

StepsAreServiceCalls == [][Gate!GateNext]_(Gate!allVars)

\* Every request ends, with whatever answer.
RequestsEnd == \A p \in Processes : ~At(p, "idle") ~> At(p, "idle")

\* An approved delivery does not stay open, whatever crashes: if the operator keeps running
\* the mission, the ticket is delivered or blocked, unless another approval takes over.
ApprovedIsSettled ==
  WF_protocolVars(RunPrimaryMission) =>
    \A n \in 1..MaxApprovals :
      (Len(approvals) = n /\ approvals[n].decision = "approved")
        ~> (ticket \in {"done", "blocked"} \/ Len(approvals) > n)

\* docs/demo-runbook.md: "creates and reads the one pull request. Done is valid only after
\* that correlated read-back."
DoneIsReadBack ==
  ticket = "done" => approvals[delivery].readback
=============================================================================
