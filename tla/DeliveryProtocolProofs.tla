------------------------ MODULE DeliveryProtocolProofs ------------------------
(***************************************************************************)
(* Proofs about DeliveryProtocol, for any number of operators, both ways   *)
(* of delivery, and any bounds on approvals, crashes and foreign pushes:   *)
(* types, that nothing reaches the repository before the decision and the  *)
(* intent are durable, that a denied push is never allowed, that at most   *)
(* one approval publishes, that ticket, mission and delivery end together, *)
(* and that a request comes to its end in a bounded number of steps.       *)
(***************************************************************************)
EXTENDS DeliveryProtocol, SequenceTheorems, FiniteSetTheorems, TLAPS

-----------------------------------------------------------------------------
(* The inductive invariant.                                                *)

\* From the delivery attempt on, the intent is durable.
UnderIntent == {"resolve", "pushing", "create", "creating", "reconcile", "readback",
                "result", "record"}
AfterDecision == {"advance", "mission", "verify", "intent"} \cup UnderIntent
AfterAdvance == {"mission", "verify", "intent"} \cup UnderIntent

\* A process waits for the answer to one kind of remote turn.
Waits == {"pushing", "creating", "denying"}
WaitsFor == [push |-> "pushing", create |-> "creating", deny |-> "denying"]

\* An approval that can no longer be carried out, and one that never was.
Dead(n) == ~approvals[n].live \/ approvals[n].decision \in {"rejected", "cancelled"}
Spent(n) == Dead(n) /\ approvals[n].intent = "none"

\* A process carries out the decision that was made.
DecidedStep(r) ==
  /\ r.step \in AfterDecision =>
       r.n \in 1..Len(approvals) /\ approvals[r.n].decision = "approved"
  /\ r.step \in {"deny", "denying"} =>
       r.n \in 1..Len(approvals) /\ approvals[r.n].decision \in {"rejected", "cancelled"}
  /\ r.step = "revalidate" => r.n \in 1..Len(approvals)

\* It has advanced the ticket, and its intent is recorded before its effect.
IntendedStep(r) ==
  /\ r.step \in AfterAdvance => ticket # "awaiting_approval"
  /\ r.step \in UnderIntent => approvals[r.n].intent # "none"
  /\ r.step \in {"pushing", "create"} => kind = "artifact"

\* It records a result only of a pull request that exists.
OpenedStep(r) ==
  /\ r.step \in {"result", "record"} =>
       opened /\ (kind = "head" => approvals[r.n].readback)
  /\ r.step = "record" => approvals[r.n].result

\* The run requests an approval only once the others are spent.
RequestStep(p, r) ==
  r.step \in {"suspend", "request"} =>
    p = Runner /\ \A n \in 1..Len(approvals) : Spent(n)

StepOK(p, r) == DecidedStep(r) /\ IntendedStep(r) /\ OpenedStep(r) /\ RequestStep(p, r)

StepsInv == \A p \in Processes : StepOK(p, proc[p])

\* Only the last approval can be carried out; what exists was allowed.
ApprovalOK(n) ==
  /\ approvals[n].call = "allowed" =>
       approvals[n].decision = "approved" /\ approvals[n].intent # "none"
  /\ approvals[n].intent # "none" =>
       approvals[n].decision = "approved" /\ ticket # "awaiting_approval"
  /\ approvals[n].readback => opened
  /\ n < Len(approvals) => Spent(n)

Published == \E n \in 1..Len(approvals) : approvals[n].call = "allowed"

ApprovalsInv ==
  /\ \A n \in 1..Len(approvals) : ApprovalOK(n)
  /\ opened \/ (kind = "artifact" /\ branch # "none") => Published

\* A turn under way does what was decided, and its process waits for its answer.
TurnOK(t) ==
  /\ t.n \in 1..Len(approvals)
  /\ t.op = "deny" => approvals[t.n].decision \in {"rejected", "cancelled"}
  /\ t.op # "deny" => approvals[t.n].intent # "none"
  /\ t.by # Nobody => /\ proc[t.by].step = WaitsFor[t.op] /\ proc[t.by].n = t.n
                     /\ reply[t.by] = "none"

TurnsInv == \A t \in turns : TurnOK(t)

ReplyOK(p) ==
  /\ reply[p] # "none" => proc[p].step \in Waits
  /\ reply[p] = "ok" /\ proc[p].step = "creating" => opened

RepliesInv == \A p \in Processes : ReplyOK(p)

EndsInv == EndsTogether /\ HeadDoneAfterReadback

ProtocolInv ==
  /\ ProtocolTypeOK
  /\ StepsInv
  /\ ApprovalsInv
  /\ TurnsInv
  /\ RepliesInv
  /\ EndsInv

-----------------------------------------------------------------------------
(* Lemmas about approvals and steps.                                       *)

\* An approval of the history is an approval.
LEMMA ApprovalAt ==
  ASSUME approvals \in Seq(Approval), NEW n \in 1..Len(approvals)
  PROVE  approvals[n] \in Approval
BY ElementOfSeq

\* A change of one approval leaves the others and their number alone.
LEMMA ApprovalChanged ==
  ASSUME approvals \in Seq(Approval), NEW n \in 1..Len(approvals), NEW a \in Approval,
         approvals' = [approvals EXCEPT ![n] = a]
  PROVE  /\ approvals' \in Seq(Approval)
         /\ Len(approvals') = Len(approvals)
         /\ approvals'[n] = a
         /\ \A k \in 1..Len(approvals) : k # n => approvals'[k] = approvals[k]
BY ExceptSeq

\* Nothing is asked of a process that is about no approval.
Free == {"idle", "prepare", "choose", "ensure", "await", "block", "blockTicket",
         "blockMission", "stop"}

\* Nothing is asked of a process at such a step, now or afterwards.
LEMMA FreeStep ==
  ASSUME NEW p, NEW r, r.step \in Free
  PROVE  StepOK(p, r) /\ StepOK(p, r)'
BY DEF Free, StepOK, DecidedStep, IntendedStep, OpenedStep, RequestStep, AfterDecision,
       AfterAdvance, UnderIntent

\* The process that ends, and the one that blocks the delivery.
LEMMA EndingStep ==
  ASSUME NEW k \in 0..2
  PROVE  /\ Idle \in Process /\ Idle.step \in Free
         /\ [Idle EXCEPT !.step = "block", !.passes = k] \in Process
         /\ [Idle EXCEPT !.step = "block", !.passes = k].step \in Free
<1>1. Idle \in Process /\ Idle.step \in Free
  BY ProtocolAssumption DEF Idle, Process, Steps, Free
<1>2. "block" \in Steps /\ "block" \in Free
  BY DEF Steps, Free
<1> QED
  BY <1>1, <1>2 DEF Process

-----------------------------------------------------------------------------
(* What every step of the protocol keeps of the approvals it finds.        *)

Forward(n) ==
  /\ approvals[n].decision # "pending" => approvals'[n].decision = approvals[n].decision
  /\ approvals[n].intent # "none" => approvals'[n].intent # "none"
  /\ approvals[n].readback => approvals'[n].readback
  /\ approvals[n].result => approvals'[n].result
  /\ Spent(n) => (~approvals'[n].live \/ approvals'[n].decision \in {"rejected", "cancelled"})
                  /\ approvals'[n].intent = "none"

StoreForward ==
  /\ kind' = kind
  /\ ticket # "awaiting_approval" => ticket' # "awaiting_approval"
  /\ opened => opened'
  /\ Len(approvals) \in Nat /\ Len(approvals') \in Nat
  /\ Len(approvals') >= Len(approvals)
  /\ \A n \in 1..Len(approvals) : Forward(n)

\* While no approval is added, a process keeps what it relies on.
LEMMA StepKept ==
  ASSUME StoreForward, NEW p, NEW r, StepOK(p, r),
         Len(approvals') = Len(approvals) \/ p # Runner \/ r.step \notin {"suspend", "request"}
  PROVE  StepOK(p, r)'
<1>1. DecidedStep(r)'
  BY DEF StepOK, StoreForward, Forward, DecidedStep
<1>2. IntendedStep(r)'
  BY DEF StepOK, StoreForward, Forward, DecidedStep, IntendedStep, AfterDecision, AfterAdvance
<1>3. OpenedStep(r)'
  BY DEF StepOK, StoreForward, Forward, DecidedStep, OpenedStep, AfterDecision, UnderIntent
<1>4. RequestStep(p, r)'
  BY DEF StepOK, StoreForward, Forward, RequestStep, Spent, Dead
<1> QED
  BY <1>1, <1>2, <1>3, <1>4 DEF StepOK

\* A turn keeps what it relies on while the process that waits for it stays.
LEMMA TurnKept ==
  ASSUME StoreForward, NEW t, TurnOK(t),
         t.by # Nobody => proc'[t.by] = proc[t.by] /\ reply'[t.by] = reply[t.by]
  PROVE  TurnOK(t)'
BY DEF StoreForward, Forward, TurnOK

\* A process moves, and has no answer any more: what concerns the others stays true.
LEMMA ProcessGoes ==
  ASSUME ProtocolTypeOK, StepsInv, TurnsInv, RepliesInv, StoreForward,
         NEW p \in Processes, NEW r \in Process,
         proc' = [proc EXCEPT ![p] = r],
         reply' = [reply EXCEPT ![p] = "none"],
         Len(approvals') = Len(approvals) \/ p = Runner,
         StepOK(p, r)'
  PROVE  /\ StepsInv' /\ RepliesInv'
         /\ proc' \in [Processes -> Process] /\ proc'[p] = r /\ reply'[p] = "none"
         /\ \A t \in turns : t.by # p => TurnOK(t)'
<1>1. /\ proc' \in [Processes -> Process] /\ proc'[p] = r /\ reply'[p] = "none"
      /\ \A q \in Processes : q # p => proc'[q] = proc[q] /\ reply'[q] = reply[q]
  BY DEF ProtocolTypeOK
<1>2. StepsInv'
  <2> SUFFICES ASSUME NEW q \in Processes PROVE StepOK(q, proc[q])'
    BY DEF StepsInv
  <2>1. CASE q = p
    BY <1>1, <2>1
  <2>2. CASE q # p
    <3>1. PICK s : s = proc[q] /\ s = proc'[q]
      BY <1>1, <2>2
    <3>2. StepOK(q, s)
      BY <3>1 DEF StepsInv
    <3>3. StepOK(q, s)'
      BY <2>2, <3>1, <3>2, StepKept DEF StepOK, RequestStep
    <3> QED
      BY <3>1, <3>3
  <2> QED
    BY <2>1, <2>2
<1>3. RepliesInv'
  <2> SUFFICES ASSUME NEW q \in Processes PROVE ReplyOK(q)'
    BY DEF RepliesInv
  <2>1. ReplyOK(q)
    BY DEF RepliesInv
  <2>2. CASE q = p
    BY <2>2, <1>1 DEF ReplyOK
  <2>3. CASE q # p
    BY <2>1, <2>3, <1>1 DEF ReplyOK, StoreForward
  <2> QED
    BY <2>2, <2>3
<1>4. ASSUME NEW t \in turns, t.by # p PROVE TurnOK(t)'
  <2>1. t \in Turn /\ TurnOK(t)
    BY DEF ProtocolTypeOK, TurnsInv
  <2>2. t.by # Nobody => proc'[t.by] = proc[t.by] /\ reply'[t.by] = reply[t.by]
    BY <1>1, <1>4, <2>1 DEF Turn
  <2> QED
    BY <2>1, <2>2, TurnKept
<1> QED
  BY <1>1, <1>2, <1>3, <1>4

\* No turn is under way for a process that waits for none, or has its answer.
LEMMA NoTurnFor ==
  ASSUME ProtocolTypeOK, TurnsInv, RepliesInv, NEW p \in Processes,
         proc[p].step \notin Waits \/ reply[p] # "none"
  PROVE  /\ \A t \in turns : t.by # p
         /\ proc[p].step \notin Waits => reply[p] = "none"
<1>1. ASSUME NEW t \in turns PROVE t.by # p
  <2>1. t \in Turn /\ TurnOK(t) /\ WaitsFor[t.op] \in Waits
    BY DEF ProtocolTypeOK, TurnsInv, Turn, WaitsFor, Waits
  <2> QED
    BY <2>1, ProtocolAssumption DEF TurnOK, Processes
<1> QED
  BY <1>1 DEF RepliesInv, ReplyOK

\* A step of a process that waits for no turn, and sends none.
LEMMA ProcessMoves ==
  ASSUME ProtocolTypeOK, StepsInv, TurnsInv, RepliesInv, StoreForward,
         NEW p \in Processes, NEW r \in Process,
         proc[p].step \notin Waits,
         proc' = [proc EXCEPT ![p] = r],
         UNCHANGED <<turns, reply>>,
         Len(approvals') = Len(approvals) \/ p = Runner,
         StepOK(p, r)'
  PROVE  StepsInv' /\ TurnsInv' /\ RepliesInv' /\ proc' \in [Processes -> Process]
<1>1. reply[p] = "none" /\ \A t \in turns : t.by # p
  BY NoTurnFor
<1>2. reply' = [reply EXCEPT ![p] = "none"]
  BY <1>1 DEF ProtocolTypeOK
<1> QED
  BY <1>1, <1>2, ProcessGoes DEF TurnsInv

-----------------------------------------------------------------------------
(* Where a process goes.                                                   *)

\* A step to the next point of the same work.
LEMMA GotoStep ==
  ASSUME ProtocolTypeOK, NEW p \in Processes, NEW s \in Steps, Goto(p, s)
  PROVE  \E r \in Process : /\ r.step = s /\ r.n = proc[p].n
                            /\ proc' = [proc EXCEPT ![p] = r]
<1>1. proc[p] \in Process
  BY DEF ProtocolTypeOK
<1>2. [proc[p] EXCEPT !.step = s] \in Process
  BY <1>1 DEF Process
<1>3. [proc[p] EXCEPT !.step = s].step = s /\ [proc[p] EXCEPT !.step = s].n = proc[p].n
  BY <1>1 DEF Process
<1>4. proc' = [proc EXCEPT ![p] = [proc[p] EXCEPT !.step = s]]
  BY DEF Goto
<1> QED
  BY <1>2, <1>3, <1>4

\* The end of a request, of a delivery that failed, and of a pass that blocks it.
Stops(p) == Ends(p) \/ (\E k \in 0..2 : Fails(p, k)) \/ DeliveryFails(p) \/ PassEnds(p)

\* Each of these ends is a step to a point where nothing is asked of the process.
LEMMA StopStep ==
  ASSUME NEW p \in Processes, Stops(p)
  PROVE  \E r \in Process : r.step \in Free /\ proc' = [proc EXCEPT ![p] = r]
<1>1. CASE Ends(p)
  BY <1>1, EndingStep, 0 \in 0..2 DEF Ends
<1>2. CASE \E k \in 0..2 : Fails(p, k)
  BY <1>2, EndingStep DEF Fails
<1>3. CASE DeliveryFails(p)
  <2>1. \E k \in 0..2 : Fails(p, k)
    BY <1>3 DEF DeliveryFails
  <2> QED
    BY <2>1, <1>2
<1>4. CASE PassEnds(p)
  <2>1. Ends(p) \/ \E k \in 0..2 : Fails(p, k)
    BY <1>4 DEF PassEnds
  <2> QED
    BY <2>1, <1>1, <1>2
<1> QED
  BY <1>1, <1>2, <1>3, <1>4 DEF Stops

-----------------------------------------------------------------------------
(* Steps in which only the process moves.                                  *)

\* A process moves to a point whose demands are met, and nothing else changes.
LEMMA LocalStep ==
  ASSUME ProtocolInv, NEW p \in Processes, NEW r \in Process,
         proc[p].step \notin Waits,
         proc' = [proc EXCEPT ![p] = r], Local,
         StepOK(p, r)
  PROVE  ProtocolInv'
<1>1. StoreForward
  BY DEF Local, storeVars, remoteVars, StoreForward, Forward, ProtocolInv, ProtocolTypeOK,
         Spent, Dead
<1>2. StepOK(p, r)'
  BY DEF Local, storeVars, remoteVars, StepOK, DecidedStep, IntendedStep, OpenedStep,
         RequestStep, Spent, Dead
<1>3. StepsInv' /\ TurnsInv' /\ RepliesInv' /\ proc' \in [Processes -> Process]
  BY <1>1, <1>2, ProcessMoves DEF ProtocolInv, Local, storeVars, remoteVars
<1>4. ApprovalsInv' /\ EndsInv'
  BY DEF Local, storeVars, remoteVars, ProtocolInv, ApprovalsInv, ApprovalOK, Published,
         Spent, Dead, EndsInv, EndsTogether, HeadDoneAfterReadback
<1>5. ProtocolTypeOK'
  BY <1>3 DEF Local, storeVars, remoteVars, ProtocolInv, ProtocolTypeOK
<1> QED
  BY <1>3, <1>4, <1>5 DEF ProtocolInv

\* A request ends, or goes on to block the delivery, and nothing else changes.
LEMMA LocalStop ==
  ASSUME ProtocolInv, NEW p \in Processes, proc[p].step \notin Waits, Local, Stops(p)
  PROVE  ProtocolInv'
BY StopStep, FreeStep, LocalStep

\* A step to another point of the work on the same approval.
LEMMA LocalGoto ==
  ASSUME ProtocolInv, NEW p \in Processes, NEW s \in Steps,
         proc[p].step \notin Waits, Local, Goto(p, s),
         \A r : r.step = s /\ r.n = proc[p].n => StepOK(p, r)
  PROVE  ProtocolInv'
BY GotoStep, LocalStep DEF ProtocolInv

\* The run: choosing what to do with the ticket, up to the request of an approval.
LEMMA RunLocal ==
  ASSUME ProtocolInv,
         \/ RunPrimaryMission \/ PrepareMissionForExecution \/ Choose
         \/ EnsurePrimaryDeliveryApproval \/ Suspend \/ RequestBeyondBound
  PROVE  ProtocolInv'
<1> Runner \in Processes /\ 1 \in 0..2
  BY DEF Processes
<1> DEFINE w == proc[Runner]
<1>0. w \in Process /\ StepOK(Runner, w)
  BY DEF ProtocolInv, ProtocolTypeOK, StepsInv
<1>1. CASE RunPrimaryMission
  <2>1. [w EXCEPT !.step = "prepare", !.saw = ticket] \in Process
    <3>1. ticket \in {"", "awaiting_approval", "delivering"} /\ "prepare" \in Steps
      BY <1>1 DEF RunPrimaryMission, Active, Steps
    <3>2. [w EXCEPT !.step = "prepare"] \in Process
      BY <1>0, <3>1 DEF Process
    <3> QED
      BY <3>1, <3>2 DEF Process
  <2>2. [w EXCEPT !.step = "prepare", !.saw = ticket].step \in Free
    BY <1>0 DEF Process, Free
  <2>3. proc' = [proc EXCEPT ![Runner] = [w EXCEPT !.step = "prepare", !.saw = ticket]]
    BY <1>1 DEF RunPrimaryMission
  <2>4. proc[Runner].step \notin Waits /\ Local
    BY <1>1 DEF RunPrimaryMission, At, Waits
  <2> HIDE DEF w
  <2> QED
    BY <2>1, <2>2, <2>3, <2>4, FreeStep, LocalStep
<1>2. CASE PrepareMissionForExecution
  <2>1. Local /\ proc[Runner].step \notin Waits
    BY <1>2 DEF PrepareMissionForExecution, At, Waits
  <2>2. Fails(Runner, 1) \/ Goto(Runner, "choose")
    BY <1>2 DEF PrepareMissionForExecution
  <2>3. "choose" \in Steps /\ "choose" \in Free
    BY DEF Steps, Free
  <2>4. CASE Fails(Runner, 1)
    BY <2>1, <2>4, LocalStop DEF Stops
  <2>5. CASE Goto(Runner, "choose")
    BY <2>1, <2>3, <2>5, LocalGoto, FreeStep
  <2> QED
    BY <2>2, <2>4, <2>5
<1>3. CASE Choose
  <2> DEFINE n == Len(approvals)
  <2>1. Local /\ proc[Runner].step \notin Waits
    BY <1>3 DEF Choose, At, Waits
  <2>2. CASE n > 0 /\ approvals[n].decision = "approved" /\ Correlated
    <3> DEFINE s == IF ticket = "awaiting_approval" THEN "advance" ELSE "mission"
               r == [Idle EXCEPT !.n = n, !.step = s]
    <3>1. proc' = [proc EXCEPT ![Runner] = r]
      BY <1>3, <2>2 DEF Choose, ResumePrimaryDelivery
    <3>2. n \in 1..Len(approvals) /\ n \in 0..MaxApprovals
      BY <2>2, ProtocolAssumption DEF ProtocolInv, ProtocolTypeOK
    <3>3. r \in Process /\ r.n = n /\ r.step = s
      <4>1. Idle \in Process /\ s \in Steps
        BY EndingStep, 0 \in 0..2 DEF Steps
      <4>2. [Idle EXCEPT !.n = n] \in Process /\ [Idle EXCEPT !.n = n].n = n
        BY <3>2, <4>1 DEF Process
      <4> QED
        BY <4>1, <4>2 DEF Process
    <3> HIDE DEF r
    <3>4. DecidedStep(r) /\ IntendedStep(r) /\ OpenedStep(r) /\ RequestStep(Runner, r)
      BY <2>2, <3>2, <3>3 DEF DecidedStep, IntendedStep, OpenedStep, RequestStep,
                              AfterDecision, AfterAdvance, UnderIntent
    <3> QED
      BY <2>1, <3>1, <3>3, <3>4, LocalStep DEF StepOK
  <2>3. CASE ~(n > 0 /\ approvals[n].decision = "approved" /\ Correlated)
    <3>1. \/ Fails(Runner, 1)
          \/ proc' = [proc EXCEPT ![Runner] = [Idle EXCEPT !.step = "ensure"]]
      BY <1>3, <2>3 DEF Choose, ResumePrimaryDelivery
    <3>2. CASE Fails(Runner, 1)
      BY <2>1, <3>2, LocalStop DEF Stops
    <3>3. CASE proc' = [proc EXCEPT ![Runner] = [Idle EXCEPT !.step = "ensure"]]
      <4>1. [Idle EXCEPT !.step = "ensure"] \in Process /\ [Idle EXCEPT !.step = "ensure"].step \in Free
        <5>1. "ensure" \in Steps /\ "ensure" \in Free /\ Idle \in Process
          BY EndingStep, 0 \in 0..2 DEF Steps, Free
        <5> QED
          BY <5>1 DEF Process
      <4> QED
        BY <2>1, <3>3, <4>1, FreeStep, LocalStep
    <3> QED
      BY <3>1, <3>2, <3>3
  <2> QED
    BY <2>2, <2>3
<1>4. CASE EnsurePrimaryDeliveryApproval
  <2>1. Local /\ proc[Runner].step \notin Waits
    BY <1>4 DEF EnsurePrimaryDeliveryApproval, At, Waits
  <2>2. "await" \in Steps /\ "suspend" \in Steps /\ "await" \in Free
    BY DEF Steps, Free
  <2>3. CASE Fails(Runner, 1)
    BY <2>1, <2>3, LocalStop DEF Stops
  <2>4. CASE Goto(Runner, "await")
    BY <2>1, <2>2, <2>4, LocalGoto, FreeStep
  <2>5. CASE /\ ticket = "awaiting_approval" /\ Goto(Runner, "suspend")
             /\ ~\E n \in 1..Len(approvals) : ActiveRequest(n)
    <3>1. \A n \in 1..Len(approvals) : Spent(n)
      <4> SUFFICES ASSUME NEW n \in 1..Len(approvals) PROVE Spent(n)
        OBVIOUS
      <4>1. approvals[n] \in Approval /\ ApprovalOK(n)
        BY ApprovalAt DEF ProtocolInv, ProtocolTypeOK, ApprovalsInv
      <4> QED
        BY <2>5, <4>1 DEF ActiveRequest, ApprovalOK, Spent, Dead, Approval
    <3>2. \A r : r.step = "suspend" /\ r.n = proc[Runner].n => StepOK(Runner, r)
      BY <3>1 DEF StepOK, DecidedStep, IntendedStep, OpenedStep, RequestStep, AfterDecision,
                  AfterAdvance, UnderIntent
    <3> QED
      BY <2>1, <2>2, <2>5, <3>2, LocalGoto
  <2> QED
    BY <1>4, <2>3, <2>4, <2>5 DEF EnsurePrimaryDeliveryApproval
<1>5. CASE Suspend
  <2>1. Local /\ proc[Runner].step \notin Waits /\ proc[Runner].step = "suspend"
    BY <1>5 DEF Suspend, At, Waits
  <2>2. CASE Fails(Runner, 1)
    BY <2>1, <2>2, LocalStop DEF Stops
  <2>3. CASE Goto(Runner, "request")
    <3>1. \A r : r.step = "request" /\ r.n = proc[Runner].n => StepOK(Runner, r)
      BY <1>0, <2>1 DEF StepOK, DecidedStep, IntendedStep, OpenedStep, RequestStep,
                        AfterDecision, AfterAdvance, UnderIntent
    <3> QED
      BY <2>1, <2>3, <3>1, LocalGoto DEF Steps
  <2> QED
    BY <1>5, <2>2, <2>3 DEF Suspend
<1>6. CASE RequestBeyondBound
  <2>1. Local /\ proc[Runner].step \notin Waits /\ Ends(Runner)
    BY <1>6 DEF RequestBeyondBound, At, Waits
  <2> QED
    BY <2>1, LocalStop DEF Stops
<1> QED
  BY <1>1, <1>2, <1>3, <1>4, <1>5, <1>6

\* The delivery: what is decided by looking at the state, and the passes that block it.
LEMMA DeliveryLocal ==
  ASSUME ProtocolInv, NEW p \in Processes,
         \/ ReadMission(p) \/ ReconcilePullRequestApproval(p)
         \/ ReadTicketToBlock(p) \/ ReadMissionToBlock(p)
         \/ \E n \in 1..Len(approvals) : StartApprovalOfHead(p, n)
  PROVE  ProtocolInv'
<1> DEFINE w == proc[p]
<1>0. w \in Process /\ StepOK(p, w)
  BY DEF ProtocolInv, ProtocolTypeOK, StepsInv
<1>1. CASE ReadMission(p)
  <2>1. Local /\ w.step = "mission" /\ w.step \notin Waits
    BY <1>1 DEF ReadMission, At, Waits
  <2>2. PICK s \in {"verify", "intent"} : Goto(p, s)
    BY <1>1 DEF ReadMission
  <2>3. \A r : r.step = s /\ r.n = w.n => StepOK(p, r)
    BY <1>0, <2>1 DEF StepOK, DecidedStep, IntendedStep, OpenedStep, RequestStep,
                      AfterDecision, AfterAdvance, UnderIntent
  <2>4. s \in Steps
    BY DEF Steps
  <2> QED
    BY <2>1, <2>2, <2>3, <2>4, LocalGoto
<1>2. CASE ReconcilePullRequestApproval(p)
  <2>1. Local /\ w.step = "reconcile" /\ w.step \notin Waits
    BY <1>2 DEF ReconcilePullRequestApproval, At, Waits
  <2>2. CASE DeliveryFails(p)
    BY <2>1, <2>2, LocalStop DEF Stops
  <2>3. CASE ReconcileArtifact(p) \/ ReconcileHead(p)
    <3>1. PICK s \in {"readback", "create"} : Goto(p, s) /\ (s = "create" => kind = "artifact")
      BY <2>3 DEF ReconcileArtifact, ReconcileHead
    <3>2. \A r : r.step = s /\ r.n = w.n => StepOK(p, r)
      BY <1>0, <2>1, <3>1 DEF StepOK, DecidedStep, IntendedStep, OpenedStep, RequestStep,
                              AfterDecision, AfterAdvance, UnderIntent
    <3>3. s \in Steps
      BY DEF Steps
    <3> QED
      BY <2>1, <3>1, <3>2, <3>3, LocalGoto
  <2> QED
    BY <1>2, <2>2, <2>3 DEF ReconcilePullRequestApproval
<1>3. CASE ReadTicketToBlock(p)
  <2>1. Local /\ w.step \notin Waits
    BY <1>3 DEF ReadTicketToBlock, At, Waits
  <2>2. PICK s \in {"blockTicket", "blockMission"} : Goto(p, s)
    BY <1>3 DEF ReadTicketToBlock
  <2>3. s \in Steps /\ s \in Free
    BY DEF Steps, Free
  <2> QED
    BY <2>1, <2>2, <2>3, FreeStep, LocalGoto
<1>4. CASE ReadMissionToBlock(p)
  <2>1. Local /\ w.step \notin Waits
    BY <1>4 DEF ReadMissionToBlock, At, Waits
  <2>2. PassEnds(p) \/ Goto(p, "stop")
    BY <1>4 DEF ReadMissionToBlock
  <2>3. "stop" \in Steps /\ "stop" \in Free
    BY DEF Steps, Free
  <2>4. CASE PassEnds(p)
    BY <2>1, <2>4, LocalStop DEF Stops
  <2>5. CASE Goto(p, "stop")
    BY <2>1, <2>3, <2>5, FreeStep, LocalGoto
  <2> QED
    BY <2>2, <2>4, <2>5
<1>5. CASE \E n \in 1..Len(approvals) : StartApprovalOfHead(p, n)
  <2>1. PICK n \in 1..Len(approvals) : StartApprovalOfHead(p, n)
    BY <1>5
  <2>2. Local /\ w.step \notin Waits
    BY <2>1 DEF StartApprovalOfHead, At, Waits
  <2> DEFINE r == [w EXCEPT !.step = "revalidate", !.n = n]
  <2>3. r \in Process /\ r.step = "revalidate" /\ r.n = n
    <3>1. "revalidate" \in Steps /\ n \in 0..MaxApprovals
      BY ProtocolAssumption DEF Steps, ProtocolInv, ProtocolTypeOK
    <3>2. [w EXCEPT !.step = "revalidate"] \in Process /\ [w EXCEPT !.step = "revalidate"].step = "revalidate"
      BY <1>0, <3>1 DEF Process
    <3> QED
      BY <3>1, <3>2 DEF Process
  <2>4. proc' = [proc EXCEPT ![p] = r]
    BY <2>1 DEF StartApprovalOfHead
  <2> HIDE DEF r
  <2>5. StepOK(p, r)
    BY <2>3 DEF StepOK, DecidedStep, IntendedStep, OpenedStep, RequestStep, AfterDecision,
                AfterAdvance, UnderIntent
  <2> QED
    BY <2>2, <2>3, <2>4, <2>5, LocalStep
<1> QED
  BY <1>1, <1>2, <1>3, <1>4, <1>5

-----------------------------------------------------------------------------
(* Steps that change the mission or the ticket.                            *)

\* The mission alone changes.
LEMMA MissionStep ==
  ASSUME ProtocolInv, NEW p \in Processes, NEW r \in Process, proc[p].step \notin Waits,
         proc' = [proc EXCEPT ![p] = r], StepOK(p, r),
         UNCHANGED <<kind, ticket, approvals, delivery, remoteVars, faults>>,
         mission' \in {"executing", "awaiting_approval", "verifying", "delivered", "blocked"},
         mission' = "delivered" <=> mission = "delivered"
  PROVE  ProtocolInv'
<1>1. StoreForward
  BY DEF remoteVars, StoreForward, Forward, ProtocolInv, ProtocolTypeOK, Spent, Dead
<1>2. StepOK(p, r)'
  BY DEF remoteVars, StepOK, DecidedStep, IntendedStep, OpenedStep, RequestStep, Spent, Dead
<1>3. StepsInv' /\ TurnsInv' /\ RepliesInv' /\ proc' \in [Processes -> Process]
  BY <1>1, <1>2, ProcessMoves DEF ProtocolInv, remoteVars
<1>4. ApprovalsInv' /\ EndsInv'
  BY DEF remoteVars, ProtocolInv, ApprovalsInv, ApprovalOK, Published, Spent, Dead, EndsInv,
         EndsTogether, HeadDoneAfterReadback
<1>5. ProtocolTypeOK'
  BY <1>3 DEF remoteVars, ProtocolInv, ProtocolTypeOK
<1> QED
  BY <1>3, <1>4, <1>5 DEF ProtocolInv

\* The ticket alone changes: it is taken into delivery or blocked.
LEMMA TicketStep ==
  ASSUME ProtocolInv, NEW p \in Processes, NEW r \in Process, proc[p].step \notin Waits,
         proc' = [proc EXCEPT ![p] = r], StepOK(p, r)',
         UNCHANGED <<kind, mission, approvals, delivery, remoteVars, faults>>,
         ticket # "done", ticket' \in {"delivering", "blocked"}
  PROVE  ProtocolInv'
<1>1. StoreForward
  BY DEF remoteVars, StoreForward, Forward, ProtocolInv, ProtocolTypeOK, Spent, Dead
<1>3. StepsInv' /\ TurnsInv' /\ RepliesInv' /\ proc' \in [Processes -> Process]
  BY <1>1, ProcessMoves DEF ProtocolInv, remoteVars
<1>4. ApprovalsInv' /\ EndsInv'
  BY DEF remoteVars, ProtocolInv, ApprovalsInv, ApprovalOK, Published, Spent, Dead, EndsInv,
         EndsTogether, HeadDoneAfterReadback
<1>5. ProtocolTypeOK'
  BY <1>3 DEF remoteVars, ProtocolInv, ProtocolTypeOK
<1> QED
  BY <1>3, <1>4, <1>5 DEF ProtocolInv

\* awaitPrimaryDeliveryApproval, the verification and the blocking of the mission.
LEMMA MissionSteps ==
  ASSUME ProtocolInv, NEW p \in Processes,
         \/ AwaitApproval /\ p = Runner
         \/ VerifyMission(p)
         \/ BlockMission(p)
  PROVE  ProtocolInv'
<1> DEFINE w == proc[p]
<1>0. w \in Process /\ StepOK(p, w)
  BY DEF ProtocolInv, ProtocolTypeOK, StepsInv
<1>1. CASE AwaitApproval /\ p = Runner
  <2>1. Stops(p) /\ w.step \notin Waits
    BY <1>1, 1 \in 0..2 DEF AwaitApproval, Stops, At, Waits
  <2>2. PICK r \in Process : r.step \in Free /\ proc' = [proc EXCEPT ![p] = r]
    BY <2>1, StopStep
  <2>3. mission' = mission \/ (mission = "executing" /\ mission' = "awaiting_approval")
    BY <1>1 DEF AwaitApproval
  <2> QED
    BY <1>1, <2>1, <2>2, <2>3, FreeStep, MissionStep DEF AwaitApproval, ProtocolInv, ProtocolTypeOK
<1>2. CASE VerifyMission(p)
  <2>1. w.step = "verify" /\ w.step \notin Waits
    BY <1>2 DEF VerifyMission, At, Waits
  <2>2. CASE mission = "awaiting_approval" /\ mission' = "verifying" /\ Goto(p, "intent")
    <3>1. PICK r \in Process : /\ r.step = "intent" /\ r.n = w.n
                               /\ proc' = [proc EXCEPT ![p] = r]
      BY <2>2, GotoStep DEF Steps, ProtocolInv
    <3>2. StepOK(p, r)
      BY <1>0, <2>1, <3>1 DEF StepOK, DecidedStep, IntendedStep, OpenedStep, RequestStep,
                              AfterDecision, AfterAdvance, UnderIntent
    <3> QED
      BY <1>2, <2>1, <2>2, <3>1, <3>2, MissionStep DEF VerifyMission
  <2>3. CASE DeliveryFails(p) /\ UNCHANGED mission
    <3>1. PICK r \in Process : r.step \in Free /\ proc' = [proc EXCEPT ![p] = r]
      BY <2>3, StopStep DEF Stops
    <3> QED
      BY <1>2, <2>1, <2>3, <3>1, FreeStep, MissionStep DEF VerifyMission, ProtocolInv, ProtocolTypeOK
  <2> QED
    BY <1>2, <2>2, <2>3 DEF VerifyMission
<1>3. CASE BlockMission(p)
  <2>1. PICK r \in Process : r.step \in Free /\ proc' = [proc EXCEPT ![p] = r]
    BY <1>3, StopStep DEF BlockMission, Stops
  <2>2. w.step \notin Waits
    BY <1>3 DEF BlockMission, At, Waits
  <2>3. \/ mission \in {"blocked", "delivered"} /\ mission' = mission
        \/ mission \notin {"blocked", "delivered"} /\ mission' = "blocked"
    BY <1>3 DEF BlockMission
  <2> QED
    BY <1>3, <2>1, <2>2, <2>3, FreeStep, MissionStep DEF BlockMission
<1> QED
  BY <1>1, <1>2, <1>3

\* The approved ticket is taken into delivery, and a failed one is blocked.
LEMMA TicketSteps ==
  ASSUME ProtocolInv, NEW p \in Processes, AdvanceTicket(p) \/ BlockTicket(p)
  PROVE  ProtocolInv'
<1> DEFINE w == proc[p]
<1>0. w \in Process /\ StepOK(p, w)
  BY DEF ProtocolInv, ProtocolTypeOK, StepsInv
<1>1. CASE AdvanceTicket(p)
  <2>1. w.step = "advance" /\ w.step \notin Waits
    BY <1>1 DEF AdvanceTicket, At, Waits
  <2>2. CASE ticket = "awaiting_approval" /\ ticket' = "delivering" /\ Goto(p, "mission")
    <3>1. PICK r \in Process : /\ r.step = "mission" /\ r.n = w.n
                               /\ proc' = [proc EXCEPT ![p] = r]
      BY <2>2, GotoStep DEF Steps, ProtocolInv
    <3>2. approvals' = approvals
      BY <1>1 DEF AdvanceTicket
    <3>3. StepOK(p, r)'
      BY <1>0, <2>1, <2>2, <3>1, <3>2
         DEF StepOK, DecidedStep, IntendedStep, OpenedStep, RequestStep,
             AfterDecision, AfterAdvance, UnderIntent
    <3> QED
      BY <1>1, <2>1, <2>2, <3>1, <3>3, TicketStep DEF AdvanceTicket
  <2>3. CASE DeliveryFails(p) /\ UNCHANGED ticket
    BY <1>1, <2>1, <2>3, LocalStop DEF AdvanceTicket, Stops, Local, storeVars
  <2> QED
    BY <1>1, <2>2, <2>3 DEF AdvanceTicket, Advances
<1>2. CASE BlockTicket(p)
  <2>1. w.step \notin Waits
    BY <1>2 DEF BlockTicket, At, Waits
  <2>2. CASE Active /\ ticket' = "blocked" /\ Goto(p, "blockMission")
    <3>1. PICK r \in Process : r.step = "blockMission" /\ proc' = [proc EXCEPT ![p] = r]
      BY <2>2, GotoStep DEF Steps, ProtocolInv
    <3>2. StepOK(p, r)'
      BY <3>1, FreeStep DEF Free
    <3> QED
      BY <1>2, <2>1, <2>2, <3>1, <3>2, TicketStep DEF BlockTicket, Active
  <2>3. CASE PassEnds(p) /\ UNCHANGED ticket
    BY <1>2, <2>1, <2>3, LocalStop DEF BlockTicket, Stops, Local, storeVars
  <2> QED
    BY <1>2, <2>2, <2>3 DEF BlockTicket
<1> QED
  BY <1>1, <1>2

-----------------------------------------------------------------------------
(* Steps that write to an approval, or request one.                        *)

\* What an approval may become in one step of a process.
Becomes(n, a) ==
  /\ a.live => approvals[n].live
  /\ a.call = approvals[n].call
  /\ approvals[n].decision # "pending" => a.decision = approvals[n].decision
  /\ approvals[n].intent # "none" => a.intent # "none"
  /\ a.intent # "none" => a.decision = "approved" /\ ticket # "awaiting_approval"
  /\ Spent(n) => a.intent = "none"
  /\ approvals[n].readback => a.readback
  /\ a.readback => opened
  /\ approvals[n].result => a.result

\* A legal change of one approval keeps what processes and turns rely on, and what holds
\* of every approval.
LEMMA ApprovalForward ==
  ASSUME ProtocolInv, NEW n \in 1..Len(approvals), NEW a \in Approval, Becomes(n, a),
         approvals' = [approvals EXCEPT ![n] = a],
         UNCHANGED <<kind, opened>>,
         ticket # "awaiting_approval" => ticket' # "awaiting_approval"
  PROVE  /\ StoreForward
         /\ approvals' \in Seq(Approval) /\ Len(approvals') = Len(approvals)
         /\ \A k \in 1..Len(approvals) : ApprovalOK(k)'
         /\ \A k \in 1..Len(approvals) : /\ approvals'[k].call = approvals[k].call
                                         /\ approvals[k].result => approvals'[k].result
                                         /\ approvals[k].readback => approvals'[k].readback
<1>1. approvals \in Seq(Approval) /\ Len(approvals) \in Nat /\ \A k \in 1..Len(approvals) : ApprovalOK(k)
  BY DEF ProtocolInv, ProtocolTypeOK, ApprovalsInv
<1>2. /\ approvals' \in Seq(Approval) /\ Len(approvals') = Len(approvals)
      /\ approvals'[n] = a
      /\ \A k \in 1..Len(approvals) : k # n => approvals'[k] = approvals[k]
  BY <1>1, ApprovalChanged
<1>3. \A k \in 1..Len(approvals) : Forward(k)
  BY <1>2 DEF Becomes, Forward, Spent, Dead
<1>4. StoreForward
  BY <1>1, <1>2, <1>3 DEF StoreForward
<1>5. \A k \in 1..Len(approvals) : ApprovalOK(k)'
  <2> SUFFICES ASSUME NEW k \in 1..Len(approvals) PROVE ApprovalOK(k)'
    OBVIOUS
  <2>1. ApprovalOK(k)
    BY <1>1
  <2>2. CASE k = n
    BY <1>2, <2>1, <2>2 DEF ApprovalOK, Becomes, Spent, Dead
  <2>3. CASE k # n
    BY <1>2, <2>1, <2>3 DEF ApprovalOK, Spent, Dead
  <2> QED
    BY <2>2, <2>3
<1>6. \A k \in 1..Len(approvals) : /\ approvals'[k].call = approvals[k].call
                                   /\ approvals[k].result => approvals'[k].result
                                   /\ approvals[k].readback => approvals'[k].readback
  BY <1>2 DEF Becomes
<1> QED
  BY <1>2, <1>4, <1>5, <1>6

\* A process writes to one approval and nothing else changes.
LEMMA ApprovalStep ==
  ASSUME ProtocolInv, NEW p \in Processes, NEW r \in Process, proc[p].step \notin Waits,
         proc' = [proc EXCEPT ![p] = r],
         NEW n \in 1..Len(approvals), NEW a \in Approval, Becomes(n, a),
         approvals' = [approvals EXCEPT ![n] = a],
         UNCHANGED <<kind, ticket, mission, delivery, remoteVars, faults>>,
         approvals'[n] = a => StepOK(p, r)'
  PROVE  ProtocolInv'
<1>1. /\ StoreForward
      /\ approvals' \in Seq(Approval) /\ Len(approvals') = Len(approvals)
      /\ \A k \in 1..Len(approvals) : ApprovalOK(k)'
      /\ \A k \in 1..Len(approvals) : /\ approvals'[k].call = approvals[k].call
                                      /\ approvals[k].result => approvals'[k].result
                                      /\ approvals[k].readback => approvals'[k].readback
  BY ApprovalForward DEF remoteVars
<1>2. approvals'[n] = a
  BY ApprovalChanged DEF ProtocolInv, ProtocolTypeOK
<1>3. StepsInv' /\ TurnsInv' /\ RepliesInv' /\ proc' \in [Processes -> Process]
  BY <1>1, <1>2, ProcessMoves DEF ProtocolInv, remoteVars
<1>4. ApprovalsInv'
  BY <1>1 DEF remoteVars, ProtocolInv, ApprovalsInv, Published
<1>5. EndsInv'
  BY <1>1 DEF remoteVars, ProtocolInv, ProtocolTypeOK, EndsInv, EndsTogether, HeadDoneAfterReadback
<1>6. ProtocolTypeOK'
  BY <1>1, <1>3 DEF remoteVars, ProtocolInv, ProtocolTypeOK
<1> QED
  BY <1>3, <1>4, <1>5, <1>6 DEF ProtocolInv

\* The decision is made, by an operator or once the head was read again.
LEMMA DecisionSteps ==
  ASSUME ProtocolInv, NEW p \in Processes,
         \/ \E n \in 1..Len(approvals), d \in {"approved", "rejected", "cancelled"} :
              DecidePrimaryDelivery(p, n, d)
         \/ RevalidatePrimaryDeliveryHead(p)
  PROVE  ProtocolInv'
<1> DEFINE w == proc[p]
<1>0. w \in Process /\ StepOK(p, w)
  BY DEF ProtocolInv, ProtocolTypeOK, StepsInv
<1>1. ASSUME NEW n \in 1..Len(approvals), NEW d \in {"approved", "rejected", "cancelled"},
             w.step \notin Waits, MayDecide(n, d), Decided(p, n, d)
      PROVE  ProtocolInv'
  <2> DEFINE s == IF d = "approved" THEN "advance" ELSE "deny"
             a == [approvals[n] EXCEPT !.decision = d]
  <2>1. approvals[n] \in Approval /\ approvals[n].decision = "pending" /\ ApprovalOK(n)
    BY <1>1, ApprovalAt DEF MayDecide, ProtocolInv, ProtocolTypeOK, ApprovalsInv
  <2>2. a \in Approval /\ a.decision = d
    BY <2>1 DEF Approval
  <2>3. Becomes(n, a)
    BY <2>1 DEF Approval, Becomes, ApprovalOK, Spent, Dead
  <2>4. PICK r \in Process : r.n = n /\ r.step = s /\ proc' = [proc EXCEPT ![p] = r]
    <3>1. s \in Steps /\ n \in 0..MaxApprovals
      BY ProtocolAssumption DEF Steps, ProtocolInv, ProtocolTypeOK
    <3>2. [w EXCEPT !.n = n] \in Process /\ [w EXCEPT !.n = n].n = n
      BY <1>0, <3>1 DEF Process
    <3>3. [w EXCEPT !.n = n, !.step = s] \in Process
      BY <3>1, <3>2 DEF Process
    <3>4. [w EXCEPT !.n = n, !.step = s].n = n /\ [w EXCEPT !.n = n, !.step = s].step = s
      BY <3>1, <3>2 DEF Process
    <3>5. proc' = [proc EXCEPT ![p] = [w EXCEPT !.n = n, !.step = s]]
      BY <1>1 DEF Decided
    <3> QED
      BY <3>3, <3>4, <3>5
  <2>5. approvals' = [approvals EXCEPT ![n] = a]
    BY <1>1 DEF Decided
  <2>6. Len(approvals') = Len(approvals) /\ approvals'[n] = a
    BY <2>2, <2>5, ApprovalChanged DEF ProtocolInv, ProtocolTypeOK
  <2>7. s \in {"advance", "deny"} /\ (s = "advance" <=> d = "approved")
    OBVIOUS
  <2>8. UNCHANGED <<kind, ticket, mission, delivery, remoteVars, faults>>
    BY <1>1 DEF Decided
  <2> HIDE DEF a, s
  <2>9. StepOK(p, r)'
    BY <2>2, <2>4, <2>6, <2>7 DEF StepOK, DecidedStep, IntendedStep, OpenedStep, RequestStep,
                                  AfterDecision, AfterAdvance, UnderIntent
  <2> QED
    BY <1>1, <2>2, <2>3, <2>4, <2>5, <2>8, <2>9, ApprovalStep
<1>2. CASE \E n \in 1..Len(approvals), d \in {"approved", "rejected", "cancelled"} :
             DecidePrimaryDelivery(p, n, d)
  BY <1>1, <1>2 DEF DecidePrimaryDelivery, At, Waits
<1>3. CASE RevalidatePrimaryDeliveryHead(p)
  <2>1. w.step = "revalidate" /\ w.step \notin Waits /\ w.n \in 1..Len(approvals)
    BY <1>0, <1>3 DEF RevalidatePrimaryDeliveryHead, At, Waits, StepOK, DecidedStep
  <2>2. CASE MayDecide(w.n, "approved") /\ Decided(p, w.n, "approved")
    BY <1>1, <2>1, <2>2
  <2>3. CASE Ends(p) /\ Local
    BY <2>1, <2>3, LocalStop DEF Stops
  <2> QED
    BY <1>3, <2>2, <2>3 DEF RevalidatePrimaryDeliveryHead
<1> QED
  BY <1>2, <1>3

\* The intent, the read-back and the result are recorded under the approval.
LEMMA RecordSteps ==
  ASSUME ProtocolInv, NEW p \in Processes,
         \/ RecordDeliveryAttempt(p) \/ VerifyCreatedPullRequest(p)
         \/ RecordDeliveryAttemptResult(p)
  PROVE  ProtocolInv'
<1> DEFINE w == proc[p]
           n == w.n
<1>0. w \in Process /\ StepOK(p, w)
  BY DEF ProtocolInv, ProtocolTypeOK, StepsInv
<1>1. w.step \in {"intent", "readback", "result"} /\ w.step \notin Waits
  BY DEF RecordDeliveryAttempt, VerifyCreatedPullRequest, RecordDeliveryAttemptResult, At, Waits
<1>2. n \in 1..Len(approvals) /\ approvals[n].decision = "approved" /\ ticket # "awaiting_approval"
  BY <1>0, <1>1 DEF StepOK, DecidedStep, IntendedStep, AfterDecision, AfterAdvance, UnderIntent
<1>3. approvals[n] \in Approval /\ ApprovalOK(n)
  BY <1>2, ApprovalAt DEF ProtocolInv, ProtocolTypeOK, ApprovalsInv
<1>4. CASE RecordDeliveryAttempt(p)
  <2>1. CASE DeliveryFails(p) /\ UNCHANGED approvals
    BY <1>1, <1>4, <2>1, LocalStop DEF Stops, RecordDeliveryAttempt, Local, storeVars
  <2>2. CASE Executable(n) /\ approvals' = [approvals EXCEPT ![n].intent = IF @ = "none" THEN "pending" ELSE @]
             /\ Goto(p, AfterIntent(n))
    <3> DEFINE i == IF approvals[n].intent = "none" THEN "pending" ELSE approvals[n].intent
               a == [approvals[n] EXCEPT !.intent = i]
               s == AfterIntent(n)
    <3>1. w.step = "intent"
      BY <1>4 DEF RecordDeliveryAttempt, At
    <3>2. a \in Approval /\ i # "none" /\ a.intent = i /\ a.decision = "approved"
          /\ a.readback = approvals[n].readback
      BY <1>2, <1>3 DEF Approval
    <3>3. Becomes(n, a)
      BY <1>2, <1>3, <2>2 DEF Approval, Becomes, ApprovalOK, Executable, Spent, Dead
    <3>4. approvals' = [approvals EXCEPT ![n] = a]
      BY <2>2
    <3>5. s \in {"result", "resolve", "reconcile"} /\ (s = "result" => approvals[n].readback)
      BY DEF AfterIntent
    <3>6. PICK r \in Process : r.step = s /\ r.n = n /\ proc' = [proc EXCEPT ![p] = r]
      <4>1. s \in Steps
        BY <3>5 DEF Steps
      <4> QED
        BY <2>2, <4>1, GotoStep DEF ProtocolInv
    <3>7. Len(approvals') = Len(approvals) /\ approvals'[n] = a
      BY <1>2, <3>2, <3>4, ApprovalChanged DEF ProtocolInv, ProtocolTypeOK
    <3>8. ticket' = ticket /\ kind' = kind /\ opened' = opened
      BY <1>4 DEF RecordDeliveryAttempt, remoteVars
    <3> HIDE DEF a, s
    <3>9. StepOK(p, r)'
      BY <1>2, <1>3, <3>2, <3>5, <3>6, <3>7, <3>8
         DEF StepOK, DecidedStep, IntendedStep, OpenedStep, RequestStep, ApprovalOK,
             AfterDecision, AfterAdvance, UnderIntent
    <3> QED
      BY <1>1, <1>2, <1>4, <3>2, <3>3, <3>4, <3>6, <3>9, ApprovalStep DEF RecordDeliveryAttempt
  <2> QED
    BY <1>4, <2>1, <2>2 DEF RecordDeliveryAttempt
<1>5. CASE VerifyCreatedPullRequest(p)
  <2>1. CASE DeliveryFails(p) /\ UNCHANGED approvals
    BY <1>1, <1>5, <2>1, LocalStop DEF Stops, VerifyCreatedPullRequest, Local, storeVars
  <2>2. CASE opened /\ approvals' = [approvals EXCEPT ![n].readback = TRUE] /\ Goto(p, "result")
    <3> DEFINE a == [approvals[n] EXCEPT !.readback = TRUE]
    <3>1. w.step = "readback"
      BY <1>5 DEF VerifyCreatedPullRequest, At
    <3>2. /\ a \in Approval /\ a.readback /\ a.decision = approvals[n].decision
          /\ a.intent = approvals[n].intent
      BY <1>3 DEF Approval
    <3>3. Becomes(n, a)
      BY <1>2, <1>3, <2>2 DEF Approval, Becomes, ApprovalOK, Spent, Dead
    <3>4. approvals' = [approvals EXCEPT ![n] = a]
      BY <2>2
    <3>6. PICK r \in Process : r.step = "result" /\ r.n = n /\ proc' = [proc EXCEPT ![p] = r]
      BY <2>2, GotoStep DEF ProtocolInv, Steps
    <3>7. Len(approvals') = Len(approvals) /\ approvals'[n] = a
      BY <1>2, <3>2, <3>4, ApprovalChanged DEF ProtocolInv, ProtocolTypeOK
    <3>8. ticket' = ticket /\ kind' = kind /\ opened' = opened
      BY <1>5 DEF VerifyCreatedPullRequest, remoteVars
    <3> HIDE DEF a
    <3>9. StepOK(p, r)'
      BY <1>0, <1>2, <2>2, <3>1, <3>2, <3>6, <3>7, <3>8
         DEF StepOK, DecidedStep, IntendedStep, OpenedStep, RequestStep,
             AfterDecision, AfterAdvance, UnderIntent
    <3> QED
      BY <1>1, <1>2, <1>5, <3>2, <3>3, <3>4, <3>6, <3>9, ApprovalStep DEF VerifyCreatedPullRequest
  <2> QED
    BY <1>5, <2>1, <2>2 DEF VerifyCreatedPullRequest, PullRequestAsApproved
<1>6. CASE RecordDeliveryAttemptResult(p)
  <2> DEFINE a == [approvals[n] EXCEPT !.result = TRUE]
  <2>1. w.step = "result"
    BY <1>6 DEF RecordDeliveryAttemptResult, At
  <2>2. /\ a \in Approval /\ a.result /\ a.decision = approvals[n].decision
        /\ a.intent = approvals[n].intent /\ a.readback = approvals[n].readback
    BY <1>3 DEF Approval
  <2>3. Becomes(n, a)
    BY <1>2, <1>3 DEF Approval, Becomes, ApprovalOK, Spent, Dead
  <2>4. approvals' = [approvals EXCEPT ![n] = a]
    BY <1>6 DEF RecordDeliveryAttemptResult
  <2>6. PICK r \in Process : r.step = "record" /\ r.n = n /\ proc' = [proc EXCEPT ![p] = r]
    BY <1>6, GotoStep DEF RecordDeliveryAttemptResult, ProtocolInv, Steps
  <2>7. Len(approvals') = Len(approvals) /\ approvals'[n] = a
    BY <1>2, <2>2, <2>4, ApprovalChanged DEF ProtocolInv, ProtocolTypeOK
  <2>8. ticket' = ticket /\ kind' = kind /\ opened' = opened
    BY <1>6 DEF RecordDeliveryAttemptResult, remoteVars
  <2> HIDE DEF a
  <2>9. StepOK(p, r)'
    BY <1>0, <1>2, <2>1, <2>2, <2>6, <2>7, <2>8
       DEF StepOK, DecidedStep, IntendedStep, OpenedStep, RequestStep,
           AfterDecision, AfterAdvance, UnderIntent
  <2> QED
    BY <1>1, <1>2, <1>6, <2>2, <2>3, <2>4, <2>6, <2>9, ApprovalStep DEF RecordDeliveryAttemptResult
<1> QED
  BY <1>4, <1>5, <1>6

\* An approval is requested once all the others are spent.
LEMMA RequestStepKeeps ==
  ASSUME ProtocolInv, RequestActionApproval
  PROVE  ProtocolInv'
<1> DEFINE w == proc[Runner]
<1>0. Runner \in Processes /\ w.step = "request" /\ w.step \notin Waits
  BY DEF Processes, RequestActionApproval, At, Waits
<1>1. CASE Fails(Runner, 1) /\ UNCHANGED approvals
  BY <1>0, <1>1, LocalStop, 1 \in 0..2 DEF RequestActionApproval, Stops, Local, storeVars
<1>2. CASE approvals' = Append(approvals, NewApproval) /\ Goto(Runner, "await")
  <2>1. /\ approvals \in Seq(Approval) /\ Len(approvals) \in Nat
        /\ Len(approvals) < MaxApprovals
        /\ \A n \in 1..Len(approvals) : Spent(n) /\ ApprovalOK(n)
    BY <1>0 DEF ProtocolInv, ProtocolTypeOK, StepsInv, StepOK, RequestStep, ApprovalsInv,
                RequestActionApproval
  <2>2. /\ approvals' \in Seq(Approval) /\ Len(approvals') = Len(approvals) + 1
        /\ \A n \in 1..Len(approvals) : approvals'[n] = approvals[n]
        /\ approvals'[Len(approvals) + 1] = NewApproval
    <3>1. NewApproval \in Approval
      BY DEF NewApproval, Approval
    <3> QED
      BY <1>2, <2>1, <3>1, AppendProperties
  <2>3. UNCHANGED <<kind, ticket, mission, delivery, branch, opened, turns, reply, faults>>
    BY DEF RequestActionApproval, remoteVars
  <2>4. StoreForward
    BY <2>1, <2>2, <2>3 DEF StoreForward, Forward, Spent, Dead
  <2>5. PICK r \in Process : r.step = "await" /\ proc' = [proc EXCEPT ![Runner] = r]
    BY <1>0, <1>2, GotoStep DEF Steps, ProtocolInv
  <2>6. StepOK(Runner, r)'
    BY <2>5, FreeStep DEF Free
  <2>7. StepsInv' /\ TurnsInv' /\ RepliesInv' /\ proc' \in [Processes -> Process]
    BY <1>0, <2>3, <2>4, <2>5, <2>6, ProcessMoves DEF ProtocolInv
  <2>8. ApprovalsInv'
    <3>1. ASSUME NEW n \in 1..Len(approvals') PROVE ApprovalOK(n)'
      <4>1. CASE n \in 1..Len(approvals)
        BY <2>1, <2>2, <2>3, <4>1 DEF ApprovalOK, Spent, Dead
      <4>2. CASE n = Len(approvals) + 1
        BY <2>1, <2>2, <4>2 DEF ApprovalOK, NewApproval
      <4> QED
        BY <2>1, <2>2, <4>1, <4>2
    <3>2. Published => Published'
      BY <2>1, <2>2 DEF Published
    <3> QED
      BY <2>3, <3>1, <3>2 DEF ProtocolInv, ApprovalsInv
  <2>9. EndsInv'
    <3>1. delivery # 0 => delivery \in 1..Len(approvals)
      BY <2>1 DEF ProtocolInv, ProtocolTypeOK
    <3> QED
      BY <2>2, <2>3, <3>1 DEF ProtocolInv, EndsInv, EndsTogether, HeadDoneAfterReadback
  <2>10. ProtocolTypeOK'
    BY <2>1, <2>2, <2>3, <2>7, ProtocolAssumption DEF ProtocolInv, ProtocolTypeOK
  <2> QED
    BY <2>7, <2>8, <2>9, <2>10 DEF ProtocolInv
<1> QED
  BY <1>1, <1>2 DEF RequestActionApproval

\* Only one approval has an intent, and if something is published, it is allowed.
LEMMA TheLastOne ==
  ASSUME ProtocolTypeOK, ApprovalsInv,
         NEW n \in 1..Len(approvals), approvals[n].intent # "none"
  PROVE  /\ n = Len(approvals)
         /\ Published => approvals[n].call = "allowed"
<1>1. Len(approvals) \in Nat
  BY DEF ProtocolTypeOK
<1>2. \A k \in 1..Len(approvals) : approvals[k].intent # "none" => k = Len(approvals)
  BY <1>1 DEF ApprovalsInv, ApprovalOK, Spent
<1> QED
  BY <1>2 DEF ApprovalsInv, ApprovalOK, Published

\* The delivery is recorded, with the ticket and the mission.
LEMMA RecordDeliveryKeeps ==
  ASSUME ProtocolInv, NEW p \in Processes, RecordDelivery(p)
  PROVE  ProtocolInv'
<1> DEFINE w == proc[p]
           n == w.n
<1>0. w \in Process /\ StepOK(p, w) /\ w.step = "record" /\ w.step \notin Waits
  BY DEF ProtocolInv, ProtocolTypeOK, StepsInv, RecordDelivery, At, Waits
<1>1. CASE DeliveryFails(p) /\ UNCHANGED storeVars
  BY <1>0, <1>1, LocalStop DEF Stops, RecordDelivery, Local
<1>2. CASE /\ MayRecord(n) /\ delivery' = n
           /\ approvals' = [approvals EXCEPT ![n].intent = "completed"]
           /\ ticket' = "done" /\ mission' = "delivered" /\ Ends(p)
  <2>1. /\ n \in 1..Len(approvals) /\ approvals[n].decision = "approved"
        /\ ticket # "awaiting_approval" /\ approvals[n].intent # "none"
        /\ opened /\ approvals[n].result /\ (kind = "head" => approvals[n].readback)
    BY <1>0 DEF StepOK, DecidedStep, IntendedStep, OpenedStep, AfterDecision, AfterAdvance,
                UnderIntent
  <2>2. /\ approvals[n] \in Approval /\ ApprovalOK(n) /\ approvals[n].call = "allowed"
        /\ n = Len(approvals)
    BY <2>1, ApprovalAt, TheLastOne DEF ProtocolInv, ProtocolTypeOK, ApprovalsInv
  <2> DEFINE a == [approvals[n] EXCEPT !.intent = "completed"]
  <2>3. /\ a \in Approval /\ a.call = "allowed" /\ a.result
        /\ a.readback = approvals[n].readback
    BY <2>1, <2>2 DEF Approval
  <2>4. Becomes(n, a)
    BY <2>1, <2>2 DEF Approval, Becomes, ApprovalOK, Spent
  <2>5. approvals' = [approvals EXCEPT ![n] = a]
    BY <1>2
  <2>6. UNCHANGED <<kind, branch, opened, turns, reply, faults>>
    BY DEF RecordDelivery, remoteVars
  <2>7. PICK r \in Process : r.step \in Free /\ proc' = [proc EXCEPT ![p] = r]
    BY <1>2, StopStep DEF Stops
  <2> HIDE DEF a
  <2>8. /\ StoreForward
        /\ approvals' \in Seq(Approval) /\ Len(approvals') = Len(approvals)
        /\ \A k \in 1..Len(approvals) : ApprovalOK(k)'
        /\ \A k \in 1..Len(approvals) : approvals'[k].call = approvals[k].call
    BY <1>2, <2>1, <2>3, <2>4, <2>5, <2>6, ApprovalForward
  <2>9. approvals'[n] = a
    BY <2>1, <2>3, <2>5, ApprovalChanged DEF ProtocolInv, ProtocolTypeOK
  <2>10. StepsInv' /\ TurnsInv' /\ RepliesInv' /\ proc' \in [Processes -> Process]
    BY <1>0, <2>6, <2>7, <2>8, FreeStep, ProcessMoves DEF ProtocolInv
  <2>11. ApprovalsInv'
    BY <2>6, <2>8 DEF ProtocolInv, ApprovalsInv, Published
  <2>12. EndsInv'
    <3>1. n # 0 /\ delivery' = n /\ ticket' = "done" /\ mission' = "delivered" /\ opened'
      BY <1>2, <2>1, <2>6
    <3>2. PICK k : k = n
      OBVIOUS
    <3>3. approvals'[k] = a /\ delivery' = k
      BY <2>9, <3>1, <3>2
    <3> QED
      BY <2>1, <2>3, <2>6, <3>1, <3>2, <3>3 DEF EndsInv, EndsTogether, HeadDoneAfterReadback
  <2>13. ProtocolTypeOK'
    BY <1>2, <2>1, <2>6, <2>8, <2>10 DEF ProtocolInv, ProtocolTypeOK
  <2> QED
    BY <2>10, <2>11, <2>12, <2>13 DEF ProtocolInv
<1> QED
  BY <1>1, <1>2 DEF RecordDelivery

-----------------------------------------------------------------------------
(* Remote turns: sending one and taking its answer.                        *)

\* A process with its turn under way, or with an answer to it, goes on; the state of the
\* ticket, of its approvals and of the repository stays.
LEMMA RemoteStep ==
  ASSUME ProtocolInv, Remote, NEW p \in Processes, NEW r \in Process,
         proc' = [proc EXCEPT ![p] = r],
         reply' = [reply EXCEPT ![p] = "none"],
         StepOK(p, r),
         turns' \subseteq Turn,
         proc'[p] = r /\ reply'[p] = "none" /\ (\A t \in turns : t.by # p => TurnOK(t)')
           => TurnsInv'
  PROVE  ProtocolInv'
<1>1. StoreForward
  BY DEF Remote, storeVars, StoreForward, Forward, ProtocolInv, ProtocolTypeOK, Spent, Dead
<1>2. StepOK(p, r)'
  BY DEF Remote, storeVars, StepOK, DecidedStep, IntendedStep, OpenedStep, RequestStep,
         Spent, Dead
<1>3. StepsInv' /\ RepliesInv' /\ proc' \in [Processes -> Process] /\ TurnsInv'
  BY <1>1, <1>2, ProcessGoes DEF ProtocolInv, Remote, storeVars
<1>4. ApprovalsInv' /\ EndsInv'
  BY DEF Remote, storeVars, ProtocolInv, ApprovalsInv, ApprovalOK, Published, Spent, Dead,
         EndsInv, EndsTogether, HeadDoneAfterReadback
<1>5. ProtocolTypeOK'
  BY <1>3 DEF Remote, storeVars, ProtocolInv, ProtocolTypeOK
<1> QED
  BY <1>3, <1>4, <1>5 DEF ProtocolInv

\* A turn is sent once the decision, or the intent, is durable.
LEMMA SendStep ==
  ASSUME ProtocolInv, NEW p \in Processes, NEW op \in {"push", "create", "deny"},
         proc[p].step \notin Waits, Send(p, op, WaitsFor[op]),
         IF op = "deny" THEN proc[p].step = "deny" ELSE proc[p].step \in UnderIntent,
         op = "push" => kind = "artifact"
  PROVE  ProtocolInv'
<1> DEFINE w == proc[p]
           m == [op |-> op, n |-> w.n, by |-> p]
           s == WaitsFor[op]
<1>0. w \in Process /\ StepOK(p, w)
  BY DEF ProtocolInv, ProtocolTypeOK, StepsInv
<1>1. /\ w.n \in 1..Len(approvals)
      /\ op = "deny" => approvals[w.n].decision \in {"rejected", "cancelled"}
      /\ op # "deny" => approvals[w.n].decision = "approved" /\ approvals[w.n].intent # "none"
                         /\ ticket # "awaiting_approval"
  BY <1>0 DEF StepOK, DecidedStep, IntendedStep, AfterDecision, AfterAdvance, UnderIntent
<1>2. s \in {"pushing", "creating", "denying"} /\ s \in Steps
      /\ (s = "denying" <=> op = "deny") /\ (s = "pushing" <=> op = "push")
  BY DEF WaitsFor, Steps
<1>3. PICK r \in Process : r.step = s /\ r.n = w.n /\ proc' = [proc EXCEPT ![p] = r]
  BY <1>2, GotoStep DEF ProtocolInv, Send
<1>4. StepOK(p, r)
  BY <1>1, <1>2, <1>3 DEF StepOK, DecidedStep, IntendedStep, OpenedStep, RequestStep,
                          AfterDecision, AfterAdvance, UnderIntent
<1>5. reply[p] = "none" /\ \A t \in turns : t.by # p
  BY NoTurnFor DEF ProtocolInv
<1>6. reply' = [reply EXCEPT ![p] = "none"] /\ turns' = turns \cup {m} /\ Remote
  BY <1>5 DEF Send, ProtocolInv, ProtocolTypeOK
<1>7. turns' \subseteq Turn
  <2>1. w.n \in 1..MaxApprovals
    BY <1>1, ProtocolAssumption DEF ProtocolInv, ProtocolTypeOK
  <2> QED
    BY <1>6, <2>1 DEF Turn, ProtocolInv, ProtocolTypeOK
<1>8. ASSUME proc'[p] = r, reply'[p] = "none", \A t \in turns : TurnOK(t)'
      PROVE  TurnsInv'
  <2>1. PICK t : t = m
    OBVIOUS
  <2>2. approvals' = approvals
    BY <1>6 DEF Remote, storeVars
  <2>3. t.op = op /\ t.n = w.n /\ t.by = p
    BY <2>1
  <2>4. TurnOK(t)'
    BY <1>1, <1>3, <1>8, <2>2, <2>3 DEF TurnOK
  <2> QED
    BY <1>6, <1>8, <2>1, <2>4 DEF TurnsInv
<1> QED
  BY <1>3, <1>4, <1>5, <1>6, <1>7, <1>8, RemoteStep

\* A denial, the answer to the held call, and the request for the pull request are sent.
LEMMA SendSteps ==
  ASSUME ProtocolInv, NEW p \in Processes,
         \/ Deny(p) \/ ResolvePullRequestApproval(p)
         \/ CreatePullRequestAfterPublishedArtifact(p)
  PROVE  ProtocolInv'
<1> DEFINE w == proc[p]
<1>0. /\ WaitsFor["push"] = "pushing" /\ WaitsFor["create"] = "creating"
      /\ WaitsFor["deny"] = "denying"
      /\ "resolve" \in UnderIntent /\ "create" \in UnderIntent
  BY DEF WaitsFor, UnderIntent
<1>1. CASE Deny(p)
  <2>1. w.step = "deny" /\ w.step \notin Waits
    BY <1>1 DEF Deny, At, Waits
  <2> QED
    BY <1>0, <1>1, <2>1, SendStep DEF Deny
<1>2. CASE ResolvePullRequestApproval(p)
  <2>1. w.step = "resolve" /\ w.step \notin Waits
    BY <1>2 DEF ResolvePullRequestApproval, At, Waits
  <2>2. CASE DeliveryFails(p) /\ Local
    BY <2>1, <2>2, LocalStop DEF Stops
  <2>3. CASE kind = "artifact" /\ Send(p, "push", "pushing")
    BY <1>0, <2>1, <2>3, SendStep
  <2>4. CASE Send(p, "create", "creating")
    BY <1>0, <2>1, <2>4, SendStep
  <2> QED
    BY <1>2, <2>2, <2>3, <2>4 DEF ResolvePullRequestApproval
<1>3. CASE CreatePullRequestAfterPublishedArtifact(p)
  <2>1. w.step = "create" /\ w.step \notin Waits
    BY <1>3 DEF CreatePullRequestAfterPublishedArtifact, At, Waits
  <2>2. CASE DeliveryFails(p) /\ Local
    BY <2>1, <2>2, LocalStop DEF Stops
  <2>3. CASE Send(p, "create", "creating")
    BY <1>0, <2>1, <2>3, SendStep
  <2> QED
    BY <1>3, <2>2, <2>3 DEF CreatePullRequestAfterPublishedArtifact
<1> QED
  BY <1>1, <1>2, <1>3

\* The answer is taken by the process that waits for it.
LEMMA AnswerSteps ==
  ASSUME ProtocolInv, NEW p \in Processes, Denied(p) \/ Pushed(p) \/ Created(p)
  PROVE  ProtocolInv'
<1> DEFINE w == proc[p]
<1>0. w \in Process /\ StepOK(p, w) /\ ReplyOK(p)
  BY DEF ProtocolInv, ProtocolTypeOK, StepsInv, RepliesInv
<1>1. reply[p] \in {"ok", "refused"} /\ Read(p) /\ UNCHANGED turns /\ Remote
  BY DEF Denied, Pushed, Created
<1>2. ASSUME NEW r \in Process, proc' = [proc EXCEPT ![p] = r], StepOK(p, r)
      PROVE  ProtocolInv'
  <2>1. \A t \in turns : t.by # p
    BY <1>1, NoTurnFor DEF ProtocolInv
  <2>2. turns' = turns /\ turns' \subseteq Turn /\ reply' = [reply EXCEPT ![p] = "none"]
    BY <1>1 DEF ProtocolInv, ProtocolTypeOK, Read
  <2> QED
    BY <1>1, <1>2, <2>1, <2>2, RemoteStep DEF TurnsInv
<1>3. CASE Stops(p)
  BY <1>2, <1>3, StopStep, FreeStep
<1>4. CASE Pushed(p) /\ Goto(p, "create")
  <2>1. w.step = "pushing"
    BY <1>4 DEF Pushed, At
  <2>2. PICK r \in Process : r.step = "create" /\ r.n = w.n /\ proc' = [proc EXCEPT ![p] = r]
    BY <1>4, GotoStep DEF Steps, ProtocolInv
  <2>3. StepOK(p, r)
    BY <1>0, <2>1, <2>2 DEF StepOK, DecidedStep, IntendedStep, OpenedStep, RequestStep,
                            AfterDecision, AfterAdvance, UnderIntent
  <2> QED
    BY <1>2, <2>2, <2>3
<1>5. CASE Created(p) /\ reply[p] = "ok" /\ Goto(p, AfterCreation)
  <2>1. w.step = "creating" /\ opened
    BY <1>0, <1>5 DEF Created, At, ReplyOK
  <2>2. AfterCreation \in {"readback", "result"} /\ AfterCreation \in Steps
        /\ (AfterCreation = "result" => kind # "head")
    BY DEF AfterCreation, Steps
  <2>3. PICK r \in Process : /\ r.step = AfterCreation /\ r.n = w.n
                             /\ proc' = [proc EXCEPT ![p] = r]
    BY <1>5, <2>2, GotoStep DEF ProtocolInv
  <2>4. StepOK(p, r)
    BY <1>0, <2>1, <2>2, <2>3 DEF StepOK, DecidedStep, IntendedStep, OpenedStep, RequestStep,
                                  AfterDecision, AfterAdvance, UnderIntent
  <2> QED
    BY <1>2, <2>3, <2>4
<1> QED
  BY <1>3, <1>4, <1>5, 1 \in 0..2 DEF Denied, Pushed, Created, Stops

\* An answer is lost: the turn goes on for nobody.
LEMMA LoseAnswerKeeps ==
  ASSUME ProtocolInv, NEW p \in Processes, LoseAnswer(p)
  PROVE  ProtocolInv'
<1>1. Remote /\ reply' = [reply EXCEPT ![p] = "none"]
  BY DEF LoseAnswer, Read
<1>2. PICK r \in Process : r.step \in Free /\ proc' = [proc EXCEPT ![p] = r]
  BY StopStep DEF LoseAnswer, Stops
<1>3. \A t \in turns : t \in Turn /\ TurnOK(t)
  BY DEF ProtocolInv, ProtocolTypeOK, TurnsInv
<1>4. ASSUME NEW u \in turns'
      PROVE  \E t \in turns : \/ t.by # p /\ u = t
                              \/ t.by = p /\ u = [t EXCEPT !.by = Nobody]
  BY <1>4 DEF LoseAnswer
<1>5. \A t \in turns : LET u == [t EXCEPT !.by = Nobody] IN
        u \in Turn /\ u.op = t.op /\ u.n = t.n /\ u.by = Nobody
  BY <1>3 DEF Turn
<1>6. turns' \subseteq Turn
  BY <1>3, <1>4, <1>5
<1>7. ASSUME \A t \in turns : t.by # p => TurnOK(t)'
      PROVE  TurnsInv'
  <2> SUFFICES ASSUME NEW u \in turns' PROVE TurnOK(u)'
    BY DEF TurnsInv
  <2>1. PICK t \in turns : \/ t.by # p /\ u = t
                           \/ t.by = p /\ u = [t EXCEPT !.by = Nobody]
    BY <1>4
  <2>2. CASE t.by # p /\ u = t
    BY <1>7, <2>2
  <2>3. CASE u = [t EXCEPT !.by = Nobody]
    <3>1. u.op = t.op /\ u.n = t.n /\ u.by = Nobody
      BY <1>5, <2>3
    <3>2. approvals' = approvals
      BY <1>1 DEF Remote, storeVars
    <3> QED
      BY <1>3, <3>1, <3>2 DEF TurnOK
  <2> QED
    BY <2>1, <2>2, <2>3
<1> QED
  BY <1>1, <1>2, <1>6, <1>7, FreeStep, RemoteStep

-----------------------------------------------------------------------------
(* TrueForge and GitHub, the clock and the process.                        *)

\* No process moves: each keeps what it relies on.
LEMMA NobodyMoves ==
  ASSUME StepsInv, StoreForward, Len(approvals') = Len(approvals), proc' = proc
  PROVE  StepsInv'
<1> SUFFICES ASSUME NEW q \in Processes PROVE StepOK(q, proc[q])'
  BY DEF StepsInv
<1>1. PICK s : s = proc[q] /\ s = proc'[q]
  OBVIOUS
<1>2. StepOK(q, s)
  BY <1>1 DEF StepsInv
<1>3. StepOK(q, s)'
  BY <1>2, StepKept
<1> QED
  BY <1>1, <1>3

\* An approval expires: it can only become dead.
LEMMA ExpireKeeps ==
  ASSUME ProtocolInv, NEW n \in 1..Len(approvals), Expire(n)
  PROVE  ProtocolInv'
<1> DEFINE a == [approvals[n] EXCEPT !.live = FALSE]
<1>0. UNCHANGED <<kind, ticket, mission, delivery, branch, opened, turns, reply, proc, faults>>
  BY DEF Expire, remoteVars
<1>1. approvals[n] \in Approval /\ ApprovalOK(n)
  BY ApprovalAt DEF ProtocolInv, ProtocolTypeOK, ApprovalsInv
<1>2. a \in Approval /\ approvals' = [approvals EXCEPT ![n] = a]
  BY <1>1 DEF Expire, Approval
<1>3. Becomes(n, a)
  BY <1>1 DEF Becomes, Approval, ApprovalOK, Spent
<1> HIDE DEF a
<1>4. /\ StoreForward
      /\ approvals' \in Seq(Approval) /\ Len(approvals') = Len(approvals)
      /\ \A k \in 1..Len(approvals) : ApprovalOK(k)'
      /\ \A k \in 1..Len(approvals) : /\ approvals'[k].call = approvals[k].call
                                      /\ approvals[k].result => approvals'[k].result
                                      /\ approvals[k].readback => approvals'[k].readback
  BY <1>0, <1>2, <1>3, ApprovalForward
<1>5. StepsInv'
  BY <1>0, <1>4, NobodyMoves DEF ProtocolInv
<1>6. TurnsInv' /\ RepliesInv'
  BY <1>0, <1>4, TurnKept DEF ProtocolInv, TurnsInv, RepliesInv, ReplyOK
<1>7. ApprovalsInv'
  BY <1>0, <1>4 DEF ProtocolInv, ApprovalsInv, Published
<1>8. EndsInv'
  BY <1>0, <1>4 DEF ProtocolInv, ProtocolTypeOK, EndsInv, EndsTogether, HeadDoneAfterReadback
<1>9. ProtocolTypeOK'
  BY <1>0, <1>4 DEF ProtocolInv, ProtocolTypeOK
<1> QED
  BY <1>5, <1>6, <1>7, <1>8, <1>9 DEF ProtocolInv

\* What serving a turn does to the approvals: the held call of one may be answered.
LEMMA CallAnswered ==
  ASSUME ProtocolInv, NEW t \in turns, Serve(t)
  PROVE  /\ StoreForward
         /\ approvals' \in Seq(Approval) /\ Len(approvals') = Len(approvals)
         /\ \A k \in 1..Len(approvals) : ApprovalOK(k)'
         /\ \A k \in 1..Len(approvals) :
              /\ approvals[k].call = "allowed" => approvals'[k].call = "allowed"
              /\ approvals'[k].result = approvals[k].result
              /\ approvals'[k].readback = approvals[k].readback
         /\ Accepts(t) /\ t.op # "deny" /\ (t.op # "create" \/ kind = "head")
              => approvals'[t.n].call = "allowed"
<1>0. /\ t \in Turn /\ TurnOK(t) /\ t.n \in 1..Len(approvals) /\ approvals \in Seq(Approval)
      /\ Len(approvals) \in Nat
      /\ \A k \in 1..Len(approvals) : ApprovalOK(k)
  BY DEF ProtocolInv, ProtocolTypeOK, TurnsInv, TurnOK, ApprovalsInv
<1>1. UNCHANGED <<kind, ticket, mission, delivery, proc, faults>> /\ (opened => opened')
  BY DEF Serve
<1>2. CASE Accepts(t) /\ (t.op # "create" \/ kind = "head")
  <2> DEFINE c == IF t.op = "deny" THEN "denied" ELSE "allowed"
             a == [approvals[t.n] EXCEPT !.call = c]
  <2>1. approvals[t.n] \in Approval /\ approvals[t.n].call = "held"
    BY <1>0, <1>2, ApprovalAt DEF Accepts, Turn
  <2>2. /\ a \in Approval /\ a.call = c /\ a.decision = approvals[t.n].decision
        /\ a.live = approvals[t.n].live
        /\ a.intent = approvals[t.n].intent /\ a.readback = approvals[t.n].readback
        /\ a.result = approvals[t.n].result
    BY <2>1 DEF Approval
  <2>3. approvals' = [approvals EXCEPT ![t.n] = a]
    BY <1>2 DEF Serve
  <2> HIDE DEF a
  <2>4. /\ approvals' \in Seq(Approval) /\ Len(approvals') = Len(approvals)
        /\ approvals'[t.n] = a
        /\ \A k \in 1..Len(approvals) : k # t.n => approvals'[k] = approvals[k]
    BY <1>0, <2>2, <2>3, ApprovalChanged
  <2>5. \A k \in 1..Len(approvals) : Forward(k)
    BY <2>2, <2>4 DEF Forward, Spent, Dead
  <2>6. StoreForward
    BY <1>0, <1>1, <2>4, <2>5 DEF StoreForward
  <2>7. \A k \in 1..Len(approvals) : ApprovalOK(k)'
    <3> SUFFICES ASSUME NEW k \in 1..Len(approvals) PROVE ApprovalOK(k)'
      OBVIOUS
    <3>1. ApprovalOK(k)
      BY <1>0
    <3>2. CASE k = t.n
      <4>1. t.op # "deny" => approvals[k].intent # "none"
        BY <1>0, <3>2 DEF TurnOK
      <4> QED
        BY <1>1, <2>2, <2>4, <3>1, <3>2, <4>1 DEF ApprovalOK, Spent, Dead
    <3>3. CASE k # t.n
      BY <1>1, <2>4, <3>1, <3>3 DEF ApprovalOK, Spent, Dead
    <3> QED
      BY <3>2, <3>3
  <2>8. \A k \in 1..Len(approvals) :
           /\ approvals[k].call = "allowed" => approvals'[k].call = "allowed"
           /\ approvals'[k].result = approvals[k].result
           /\ approvals'[k].readback = approvals[k].readback
    BY <2>1, <2>2, <2>4
  <2> QED
    BY <2>2, <2>4, <2>6, <2>7, <2>8
<1>3. CASE ~(Accepts(t) /\ (t.op # "create" \/ kind = "head"))
  <2>1. approvals' = approvals
    BY <1>3 DEF Serve
  <2>2. StoreForward
    BY <1>0, <1>1, <2>1 DEF StoreForward, Forward, Spent, Dead
  <2>3. \A k \in 1..Len(approvals) : ApprovalOK(k)'
    BY <1>0, <1>1, <2>1 DEF ApprovalOK, Spent, Dead
  <2> QED
    BY <1>0, <1>3, <2>1, <2>2, <2>3
<1> QED
  BY <1>2, <1>3

\* A remote turn does what it does, and its answer is given to the process that waits.
LEMMA ServeKeeps ==
  ASSUME ProtocolInv, NEW t \in turns, Serve(t)
  PROVE  ProtocolInv'
<1>0. /\ UNCHANGED <<kind, ticket, mission, delivery, proc, faults>>
      /\ turns' = turns \ {t}
      /\ t \in Turn /\ TurnOK(t)
  BY DEF Serve, ProtocolInv, ProtocolTypeOK, TurnsInv
<1>1. /\ StoreForward
      /\ approvals' \in Seq(Approval) /\ Len(approvals') = Len(approvals)
      /\ \A k \in 1..Len(approvals) : ApprovalOK(k)'
      /\ \A k \in 1..Len(approvals) :
           /\ approvals[k].call = "allowed" => approvals'[k].call = "allowed"
           /\ approvals'[k].result = approvals[k].result
           /\ approvals'[k].readback = approvals[k].readback
      /\ Accepts(t) /\ t.op # "deny" /\ (t.op # "create" \/ kind = "head")
           => approvals'[t.n].call = "allowed"
  BY CallAnswered
<1>2. reply' \in [Processes -> {"none", "ok", "refused"}]
      /\ \A q \in Processes : q # t.by => reply'[q] = reply[q]
  <2>1. reply \in [Processes -> {"none", "ok", "refused"}]
    BY DEF ProtocolInv, ProtocolTypeOK
  <2>2. t.by # Nobody => t.by \in Processes
    BY <1>0 DEF Turn
  <2> QED
    BY <2>1, <2>2 DEF Serve
<1>3. StepsInv'
  BY <1>0, <1>1, NobodyMoves DEF ProtocolInv
<1>4. TurnsInv'
  <2> SUFFICES ASSUME NEW u \in turns, u # t PROVE TurnOK(u)'
    BY <1>0 DEF TurnsInv
  <2>1. u \in Turn /\ TurnOK(u)
    BY DEF ProtocolInv, ProtocolTypeOK, TurnsInv
  <2>2. u.by # Nobody => u.by # t.by
    <3> SUFFICES ASSUME u.by # Nobody, u.by = t.by PROVE FALSE
      OBVIOUS
    <3>1. WaitsFor[u.op] = WaitsFor[t.op] /\ u.n = t.n
      BY <1>0, <2>1 DEF TurnOK
    <3>2. u.op = t.op
      BY <1>0, <2>1, <3>1 DEF Turn, WaitsFor
    <3> QED
      BY <1>0, <2>1, <3>1, <3>2 DEF Turn
  <2>3. u.by # Nobody => proc'[u.by] = proc[u.by] /\ reply'[u.by] = reply[u.by]
    BY <1>0, <1>2, <2>1, <2>2 DEF Turn
  <2> QED
    BY <1>1, <2>1, <2>3, TurnKept
<1>5. RepliesInv'
  <2> SUFFICES ASSUME NEW q \in Processes PROVE ReplyOK(q)'
    BY DEF RepliesInv
  <2>1. ReplyOK(q)
    BY DEF ProtocolInv, RepliesInv
  <2>2. CASE q # t.by
    BY <1>0, <1>1, <1>2, <2>1, <2>2 DEF ReplyOK, StoreForward
  <2>3. CASE q = t.by
    <3>1. q # Nobody
      BY ProtocolAssumption DEF Processes
    <3>2. proc'[q].step = WaitsFor[t.op] /\ t.op \in {"push", "create", "deny"}
      BY <1>0, <2>3, <3>1 DEF TurnOK, Turn
    <3>3. proc'[q].step \in Waits /\ (proc'[q].step = "creating" => t.op = "create")
      BY <3>2 DEF WaitsFor, Waits
    <3>4. reply'[q] = IF Accepts(t) THEN "ok" ELSE "refused"
      BY <2>3, <3>1 DEF Serve, ProtocolInv, ProtocolTypeOK
    <3>5. t.op = "create" /\ reply'[q] = "ok" => opened'
      <4>1. reply'[q] = "ok" => Accepts(t)
        BY <3>4
      <4> QED
        BY <4>1 DEF Serve
    <3> QED
      BY <3>3, <3>5 DEF ReplyOK
  <2> QED
    BY <2>2, <2>3
<1>6. ApprovalsInv'
  <2>1. Published => Published'
    BY <1>1 DEF Published
  <2>2. t.n \in 1..Len(approvals)
    BY <1>0 DEF TurnOK
  <2>3. Accepts(t) /\ t.op # "deny" /\ (t.op # "create" \/ kind = "head") => Published'
    BY <1>1, <2>2 DEF Published
  <2>4. opened' /\ ~opened => Published'
    <3>1. opened' /\ ~opened => Accepts(t) /\ t.op = "create"
      BY DEF Serve
    <3>2. Accepts(t) /\ t.op = "create" /\ kind # "head" => Published
      BY ProtocolAssumption DEF Accepts, ProtocolInv, ProtocolTypeOK, ApprovalsInv
    <3> QED
      BY <2>1, <2>3, <3>1, <3>2
  <2>5. branch' # branch => Accepts(t) /\ t.op = "push"
    BY DEF Serve
  <2>6. opened' \/ (kind' = "artifact" /\ branch' # "none") => Published'
    BY <1>0, <2>1, <2>3, <2>4, <2>5 DEF ProtocolInv, ApprovalsInv
  <2> QED
    BY <1>1, <2>6 DEF ApprovalsInv
<1>7. EndsInv'
  <2>1. delivery # 0 => delivery \in 1..Len(approvals)
    BY DEF ProtocolInv, ProtocolTypeOK
  <2> QED
    BY <1>0, <1>1, <2>1 DEF ProtocolInv, EndsInv, EndsTogether, HeadDoneAfterReadback, StoreForward
<1>8. ProtocolTypeOK'
  <2>1. branch' \in {"none", "approved", "other"} /\ opened' \in BOOLEAN
    BY DEF Serve, ProtocolInv, ProtocolTypeOK
  <2> QED
    BY <1>0, <1>1, <1>2, <2>1 DEF ProtocolInv, ProtocolTypeOK
<1> QED
  BY <1>3, <1>4, <1>5, <1>6, <1>7, <1>8 DEF ProtocolInv

\* The process dies: what it left behind is as it was, and nobody waits for its turns.
LEMMA CrashKeeps ==
  ASSUME ProtocolInv, Crash
  PROVE  ProtocolInv'
<1>0. UNCHANGED <<kind, ticket, mission, approvals, delivery, branch, opened>>
  BY DEF Crash, storeVars
<1>1. /\ proc' \in [Processes -> Process] /\ \A p \in Processes : proc'[p] = Idle
      /\ reply' \in [Processes -> {"none", "ok", "refused"}]
      /\ \A p \in Processes : reply'[p] = "none"
  BY EndingStep, 0 \in 0..2 DEF Crash
<1>2. \A t \in turns : LET u == [t EXCEPT !.by = Nobody] IN
        u \in Turn /\ u.op = t.op /\ u.n = t.n /\ u.by = Nobody
  BY DEF Turn, ProtocolInv, ProtocolTypeOK
<1>3. turns' \subseteq Turn
  BY <1>2 DEF Crash
<1>4. TurnsInv'
  <2> SUFFICES ASSUME NEW u \in turns' PROVE TurnOK(u)'
    BY DEF TurnsInv
  <2>1. PICK t \in turns : u = [t EXCEPT !.by = Nobody]
    BY DEF Crash
  <2>2. u.op = t.op /\ u.n = t.n /\ u.by = Nobody /\ TurnOK(t)
    BY <1>2, <2>1 DEF ProtocolInv, TurnsInv
  <2> QED
    BY <1>0, <2>2 DEF TurnOK
<1>5. StepsInv'
  <2> SUFFICES ASSUME NEW p \in Processes PROVE StepOK(p, proc[p])'
    BY DEF StepsInv
  <2>1. proc'[p] = Idle /\ Idle.step \in Free
    BY <1>1, EndingStep, 0 \in 0..2
  <2>2. StepOK(p, Idle)'
    BY <2>1, FreeStep
  <2> QED
    BY <2>1, <2>2 DEF Idle
<1>6. RepliesInv'
  BY <1>1 DEF RepliesInv, ReplyOK
<1>7. ApprovalsInv' /\ EndsInv'
  BY <1>0 DEF ProtocolInv, ApprovalsInv, ApprovalOK, Published, Spent, Dead, EndsInv,
              EndsTogether, HeadDoneAfterReadback
<1>8. ProtocolTypeOK'
  <2>1. faults' \in 0..MaxFaults
    BY ProtocolAssumption DEF Crash, Fault, ProtocolInv, ProtocolTypeOK
  <2> QED
    BY <1>0, <1>1, <1>3, <2>1 DEF ProtocolInv, ProtocolTypeOK
<1> QED
  BY <1>4, <1>5, <1>6, <1>7, <1>8 DEF ProtocolInv

\* A foreign push changes what the branch has, not that something was published.
LEMMA PushKeeps ==
  ASSUME ProtocolInv, Push
  PROVE  ProtocolInv'
<1>0. /\ UNCHANGED <<kind, ticket, mission, approvals, delivery, opened, turns, reply, proc>>
      /\ branch = "approved" /\ branch' = "other"
  BY DEF Push, storeVars
<1>1. faults' \in 0..MaxFaults
  BY ProtocolAssumption DEF Push, Fault, ProtocolInv, ProtocolTypeOK
<1>2. StoreForward
  BY <1>0 DEF StoreForward, Forward, ProtocolInv, ProtocolTypeOK, Spent, Dead
<1>3. StepsInv'
  BY <1>0, <1>2, NobodyMoves DEF ProtocolInv
<1>4. TurnsInv' /\ RepliesInv'
  BY <1>0 DEF ProtocolInv, TurnsInv, TurnOK, RepliesInv, ReplyOK
<1>5. ApprovalsInv' /\ EndsInv'
  BY <1>0 DEF ProtocolInv, ApprovalsInv, ApprovalOK, Published, Spent, Dead, EndsInv,
              EndsTogether, HeadDoneAfterReadback
<1>6. ProtocolTypeOK'
  BY <1>0, <1>1 DEF ProtocolInv, ProtocolTypeOK
<1> QED
  BY <1>3, <1>4, <1>5, <1>6 DEF ProtocolInv

-----------------------------------------------------------------------------
(* The invariant and what follows from it.                                 *)

\* The invariant holds when the review was accepted, with and without the approval of an
\* existing head.
LEMMA InitInv ==
  ASSUME Init
  PROVE  ProtocolInv
<1>1. (Len(approvals) = 0 \/ Len(approvals) = 1) /\ approvals \in Seq(Approval)
      /\ (Len(approvals) = 1 => approvals[1] = NewApproval)
  <2>1. NewApproval \in Approval
    BY DEF NewApproval, Approval
  <2>2. CASE kind = "head"
    BY <2>1, <2>2 DEF Init
  <2>3. CASE kind # "head"
    BY <2>3 DEF Init
  <2> QED
    BY <2>2, <2>3
<1>2. \A p \in Processes : proc[p] = Idle /\ reply[p] = "none"
  BY DEF Init
<1>3. Idle \in Process /\ Idle.step \in Free
  BY EndingStep, 0 \in 0..2
<1>4. ProtocolTypeOK
  <2>1. /\ reply \in [Processes -> {"none", "ok", "refused"}]
        /\ proc \in [Processes -> Process]
    BY <1>3 DEF Init
  <2>2. Len(approvals) <= MaxApprovals /\ 0 \in 0..MaxFaults /\ 0 \in 0..Len(approvals)
    <3>1. CASE Len(approvals) = 0
      BY <3>1, ProtocolAssumption
    <3>2. CASE Len(approvals) = 1
      BY <3>2, ProtocolAssumption
    <3> QED
      BY <1>1, <3>1, <3>2
  <2>3. /\ mission \in {"executing", "awaiting_approval", "verifying", "delivered", "blocked"}
        /\ branch \in {"none", "approved", "other"}
    BY DEF Init
  <2> QED
    BY <1>1, <2>1, <2>2, <2>3 DEF Init, ProtocolTypeOK
<1>5. StepsInv
  BY <1>2, <1>3, FreeStep DEF StepsInv
<1>6. ApprovalsInv
  <2>1. \A n \in 1..Len(approvals) : n = 1 /\ Len(approvals) = 1
    <3>1. CASE Len(approvals) = 0
      BY <3>1
    <3>2. CASE Len(approvals) = 1
      BY <3>2
    <3> QED
      BY <1>1, <3>1, <3>2
  <2>2. \A n \in 1..Len(approvals) : ApprovalOK(n)
    BY <1>1, <2>1 DEF ApprovalOK, NewApproval
  <2> QED
    BY <2>2 DEF Init, ApprovalsInv
<1>7. TurnsInv /\ RepliesInv
  BY <1>2 DEF Init, TurnsInv, RepliesInv, ReplyOK
<1>8. EndsInv
  BY DEF Init, EndsInv, EndsTogether, HeadDoneAfterReadback
<1> QED
  BY <1>4, <1>5, <1>6, <1>7, <1>8 DEF ProtocolInv

\* Every step keeps the invariant.
LEMMA NextKeepsInv ==
  ASSUME ProtocolInv, [Next]_protocolVars
  PROVE  ProtocolInv'
<1>1. CASE RunPrimaryMission
  BY <1>1, RunLocal
<1>2. ASSUME NEW p \in Operators, NEW n \in 1..Len(approvals),
             \/ \E d \in {"approved", "rejected", "cancelled"} : DecidePrimaryDelivery(p, n, d)
             \/ StartApprovalOfHead(p, n)
      PROVE  ProtocolInv'
  <2>1. p \in Processes
    BY DEF Processes
  <2> QED
    BY <1>2, <2>1, DecisionSteps, DeliveryLocal
<1>3. ASSUME NEW p \in Processes, Continue(p) PROVE ProtocolInv'
  <2>1. CASE p = Runner /\ (\/ PrepareMissionForExecution \/ Choose
                            \/ EnsurePrimaryDeliveryApproval \/ Suspend \/ RequestBeyondBound)
    BY <2>1, RunLocal
  <2>2. CASE p = Runner /\ RequestActionApproval
    BY <2>2, RequestStepKeeps
  <2>3. CASE \/ p = Runner /\ AwaitApproval
             \/ VerifyMission(p) \/ BlockMission(p)
    BY <2>3, MissionSteps
  <2>4. CASE RevalidatePrimaryDeliveryHead(p)
    BY <2>4, DecisionSteps
  <2>5. CASE \/ Deny(p) \/ ResolvePullRequestApproval(p)
             \/ CreatePullRequestAfterPublishedArtifact(p)
    BY <2>5, SendSteps
  <2>6. CASE Denied(p) \/ Pushed(p) \/ Created(p)
    BY <2>6, AnswerSteps
  <2>7. CASE AdvanceTicket(p) \/ BlockTicket(p)
    BY <2>7, TicketSteps
  <2>8. CASE \/ ReadMission(p) \/ ReconcilePullRequestApproval(p)
             \/ ReadTicketToBlock(p) \/ ReadMissionToBlock(p)
    BY <2>8, DeliveryLocal
  <2>9. CASE \/ RecordDeliveryAttempt(p) \/ VerifyCreatedPullRequest(p)
             \/ RecordDeliveryAttemptResult(p)
    BY <2>9, RecordSteps
  <2>10. CASE RecordDelivery(p)
    BY <2>10, RecordDeliveryKeeps
  <2> QED
    BY <1>3, <2>1, <2>2, <2>3, <2>4, <2>5, <2>6, <2>7, <2>8, <2>9, <2>10 DEF Continue
<1>4. ASSUME NEW p \in Processes, LoseAnswer(p) PROVE ProtocolInv'
  BY <1>4, LoseAnswerKeeps
<1>5. ASSUME NEW t \in turns, Serve(t) PROVE ProtocolInv'
  BY <1>5, ServeKeeps
<1>6. ASSUME NEW n \in 1..Len(approvals), Expire(n) PROVE ProtocolInv'
  BY <1>6, ExpireKeeps
<1>7. CASE Crash
  BY <1>7, CrashKeeps
<1>8. CASE Push
  BY <1>8, PushKeeps
<1>9. CASE UNCHANGED protocolVars
  BY <1>9 DEF protocolVars, ProtocolInv, ProtocolTypeOK, StepsInv, StepOK, DecidedStep,
              IntendedStep, OpenedStep, RequestStep, ApprovalsInv, ApprovalOK, Published,
              TurnsInv, TurnOK, RepliesInv, ReplyOK, EndsInv, EndsTogether,
              HeadDoneAfterReadback, Spent, Dead
<1> QED
  BY <1>1, <1>2, <1>3, <1>4, <1>5, <1>6, <1>7, <1>8, <1>9 DEF Next

\* The invariant holds in every reachable state.
THEOREM ProtocolInvariant == Spec => []ProtocolInv
<1>1. Init => ProtocolInv
  BY InitInv
<1>2. ProtocolInv /\ [Next]_protocolVars => ProtocolInv'
  BY NextKeepsInv
<1> QED
  BY <1>1, <1>2, PTL DEF Spec

\* Every state of the delivery is one of its types: a process works on an approval there
\* can be, and a recorded delivery names an approval of the history.
THEOREM ProtocolTypes == Spec => []ProtocolTypeOK
<1>1. ProtocolInv => ProtocolTypeOK
  BY DEF ProtocolInv
<1> QED
  BY <1>1, ProtocolInvariant, PTL

\* recordDeliveryAttempt comes before every remote effect: what is sent or was done has an
\* approved decision and a recorded intent, whatever crashed or got lost.
THEOREM IntentComesFirst == Spec => []IntentBeforeEffect
<1>1. ProtocolInv => IntentBeforeEffect
  BY DEF ProtocolInv, TurnsInv, TurnOK, ApprovalsInv, ApprovalOK, Published, IntentBeforeEffect
<1> QED
  BY <1>1, ProtocolInvariant, PTL

\* decidePrimaryDelivery: a push that was rejected or cancelled is never allowed.
THEOREM DenialIsFinal == Spec => []DeniedStaysDenied
<1>1. ProtocolInv => DeniedStaysDenied
  BY DEF ProtocolInv, ApprovalsInv, ApprovalOK, DeniedStaysDenied
<1> QED
  BY <1>1, ProtocolInvariant, PTL

\* recordDelivery: the ticket, the mission and the record of the delivery end together,
\* with a pull request that was allowed under the recorded approval.
THEOREM DeliveryEndsTogether == Spec => []EndsTogether
<1>1. ProtocolInv => EndsTogether
  BY DEF ProtocolInv, EndsInv
<1> QED
  BY <1>1, ProtocolInvariant, PTL

\* ensurePrimaryDeliveryApproval: of all the approvals a ticket ever had, one publishes.
THEOREM PublishedOnce == Spec => []OnePublication
<1>1. ProtocolInv => OnePublication
  <2> SUFFICES ASSUME ProtocolInv PROVE OnePublication
    OBVIOUS
  <2> DEFINE S == {n \in 1..Len(approvals) : approvals[n].call = "allowed"}
  <2>1. S \subseteq {Len(approvals)}
    BY TheLastOne DEF ProtocolInv, ApprovalsInv, ApprovalOK
  <2>2. IsFiniteSet({Len(approvals)}) /\ Cardinality({Len(approvals)}) = 1
    BY FS_Singleton
  <2>3. Cardinality(S) <= 1
    BY <2>1, <2>2, FS_Subset
  <2> QED
    BY <2>3 DEF OnePublication
<1> QED
  BY <1>1, ProtocolInvariant, PTL

\* resolvePullRequestApproval and reconcilePullRequestApproval: an existing head is
\* delivered only with a pull request that was read back.
THEOREM HeadIsReadBack == Spec => []HeadDoneAfterReadback
<1>1. ProtocolInv => HeadDoneAfterReadback
  BY DEF ProtocolInv, EndsInv
<1> QED
  BY <1>1, ProtocolInvariant, PTL

-----------------------------------------------------------------------------
(* A request comes to its end in a bounded number of steps.                *)

\* How far a step is from the end of its request: the passes that block the delivery, the
\* delivery itself, and what the run does before.
StepRank ==
  [idle |-> 0, stop |-> 1, blockMission |-> 2, blockTicket |-> 3, block |-> 4,
   record |-> 13, await |-> 13, denying |-> 13, result |-> 14, deny |-> 14, request |-> 14,
   readback |-> 15, suspend |-> 15, creating |-> 16, ensure |-> 16, create |-> 17,
   pushing |-> 18, reconcile |-> 18, resolve |-> 19, intent |-> 20, verify |-> 21,
   mission |-> 22, advance |-> 23, choose |-> 24, revalidate |-> 24, prepare |-> 25]

\* A pass takes four steps.
Rank(r) == StepRank[r.step] + 4 * r.passes

Blocking == {"block", "blockTicket", "blockMission", "stop"}

\* Passes are counted while the delivery is blocked.
PassesOK(r) == r.passes # 0 => r.step \in Blocking

\* A process that started gets nearer to its end, or has not moved; one that starts has 25
\* steps at most before it.
Nearer(p) ==
  proc'[p] # proc[p] => IF At(p, "idle") THEN Rank(proc'[p]) <= 25
                                         ELSE Rank(proc'[p]) < Rank(proc[p])

\* Whatever happens around them, requests do not go round in circles.
RequestsAreBounded == [][\A p \in Processes : Nearer(p)]_protocolVars

RankInv == ProtocolTypeOK /\ \A p \in Processes : PassesOK(proc[p])

Nears == \A p \in Processes : PassesOK(proc'[p]) /\ Nearer(p)

\* Ranks are numbers, and every step but the end has one.
LEMMA RankType ==
  ASSUME NEW r \in Process
  PROVE  /\ StepRank[r.step] \in Nat /\ Rank(r) \in Nat /\ r.passes \in 0..2
         /\ r.step # "idle" => StepRank[r.step] >= 1
         /\ r.step = "idle" => StepRank[r.step] = 0
<1>1. r.step \in Steps /\ r.passes \in 0..2
  BY DEF Process
<1>2. \A s \in Steps : /\ StepRank[s] \in Nat
                       /\ s # "idle" => StepRank[s] >= 1
                       /\ s = "idle" => StepRank[s] = 0
  BY DEF Steps, StepRank
<1> HIDE DEF StepRank
<1> QED
  BY <1>1, <1>2 DEF Rank

\* One process moves to r.
LEMMA OneMoves ==
  ASSUME RankInv, NEW p \in Processes, NEW r \in Process, proc' = [proc EXCEPT ![p] = r],
         PassesOK(r),
         IF At(p, "idle") THEN Rank(r) <= 25 ELSE Rank(r) < Rank(proc[p])
  PROVE  Nears
<1>1. proc'[p] = r /\ \A q \in Processes : q # p => proc'[q] = proc[q]
  BY DEF RankInv, ProtocolTypeOK
<1> QED
  BY <1>1 DEF RankInv, Nears, Nearer, PassesOK

\* A step to a nearer point of the same work.
LEMMA GoesNearer ==
  ASSUME RankInv, NEW p \in Processes, NEW s \in Steps, Goto(p, s), s # "idle",
         StepRank[s] < StepRank[proc[p].step]
  PROVE  Nears
<1>1. proc[p] \in Process /\ PassesOK(proc[p])
  BY DEF RankInv, ProtocolTypeOK
<1> DEFINE r == [proc[p] EXCEPT !.step = s]
<1>2. r \in Process /\ r.step = s /\ r.passes = proc[p].passes
  BY <1>1 DEF Process
<1>3. proc' = [proc EXCEPT ![p] = r]
  BY DEF Goto
<1> HIDE DEF r
<1>4. PassesOK(r)
  BY <1>1, <1>2 DEF PassesOK, Blocking, StepRank, Steps
<1>5. proc[p].step # "idle"
  BY <1>1, <1>2, RankType
<1>6. Rank(r) < Rank(proc[p])
  BY <1>1, <1>2, RankType DEF Rank
<1> QED
  BY <1>2, <1>3, <1>4, <1>5, <1>6, OneMoves DEF At

\* The passes that are still to come are nearer than what failed.
LEMMA FailsNearer ==
  ASSUME RankInv, NEW p \in Processes, NEW k \in 0..2, Fails(p, k), ~At(p, "idle"),
         4 + 4 * k < Rank(proc[p])
  PROVE  Nears
<1> DEFINE r == [Idle EXCEPT !.step = "block", !.passes = k]
<1>1. r \in Process /\ r.step = "block" /\ r.passes = k
  <2>1. r \in Process
    BY EndingStep
  <2> QED
    BY <2>1 DEF Idle
<1>2. proc' = [proc EXCEPT ![p] = r]
  BY DEF Fails
<1> HIDE DEF r
<1>3. PassesOK(r) /\ Rank(r) = 4 + 4 * k
  BY <1>1 DEF PassesOK, Blocking, Rank, StepRank
<1> QED
  BY <1>1, <1>2, <1>3, OneMoves

\* The end is nearer than every other step.
LEMMA EndsNearer ==
  ASSUME RankInv, NEW p \in Processes, Ends(p), ~At(p, "idle")
  PROVE  Nears
<1>1. Idle \in Process /\ Idle.step = "idle" /\ Idle.passes = 0
  <2>1. 0 \in 0..2
    OBVIOUS
  <2>2. Idle \in Process
    BY <2>1, EndingStep
  <2> QED
    BY <2>2 DEF Idle
<1>2. Rank(Idle) = 0 /\ PassesOK(Idle)
  BY <1>1 DEF Rank, StepRank, PassesOK
<1>3. proc[p] \in Process
  BY DEF RankInv, ProtocolTypeOK
<1>4. Rank(Idle) < Rank(proc[p])
  BY <1>2, <1>3, RankType DEF At, Rank
<1> QED
  BY <1>1, <1>2, <1>4, OneMoves DEF Ends

Working == Steps \ (Blocking \cup {"idle"})

\* The passes that block a delivery come after all that can fail.
LEMMA WorkingRank ==
  ASSUME RankInv, NEW p \in Processes, proc[p].step \in Working
  PROVE  \A k \in 0..2 : Fails(p, k) => Nears
<1>1. proc[p] \in Process /\ ~At(p, "idle")
  BY DEF RankInv, ProtocolTypeOK, Working, At
<1>2. StepRank[proc[p].step] >= 13
  BY DEF Working, Blocking, Steps, StepRank
<1>3. \A k \in 0..2 : 4 + 4 * k < Rank(proc[p])
  BY <1>1, <1>2, RankType DEF Rank
<1> QED
  BY <1>1, <1>3, FailsNearer

\* A delivery that fails is blocked, in a run twice.
LEMMA DeliveryFailsNearer ==
  ASSUME RankInv, NEW p \in Processes, proc[p].step \in Working, DeliveryFails(p)
  PROVE  Nears
BY WorkingRank DEF DeliveryFails

\* A pass that ends is followed by the next one, if there is one.
LEMMA PassNearer ==
  ASSUME RankInv, NEW p \in Processes, proc[p].step \in Blocking, PassEnds(p)
  PROVE  Nears
<1>1. proc[p] \in Process /\ ~At(p, "idle")
  BY DEF RankInv, ProtocolTypeOK, Blocking, At
<1>2. CASE proc[p].passes = 2
  <2>1. Rank(proc[p]) >= 9
    BY <1>1, <1>2, RankType DEF Rank, At
  <2>2. Fails(p, 1)
    BY <1>2 DEF PassEnds
  <2>3. 1 \in 0..2 /\ 4 + 4 * 1 < Rank(proc[p])
    BY <1>1, <2>1, RankType
  <2> QED
    BY <1>1, <2>2, <2>3, FailsNearer
<1>3. CASE proc[p].passes # 2
  BY <1>1, <1>3, EndsNearer DEF PassEnds
<1> QED
  BY <1>2, <1>3

\* A process goes on to a nearer step, blocks what failed or ends.
Proceeds(p) ==
  \/ \E s \in Steps : s # "idle" /\ StepRank[s] < StepRank[proc[p].step] /\ Goto(p, s)
  \/ proc[p].step \in Working /\ (DeliveryFails(p) \/ \E k \in 0..2 : Fails(p, k))
  \/ proc[p].step # "idle" /\ Ends(p)
  \/ proc[p].step \in Blocking /\ PassEnds(p)

\* Each of these brings a process nearer to its end.
LEMMA ProceedsNearer ==
  ASSUME RankInv, NEW p \in Processes, Proceeds(p)
  PROVE  Nears
BY GoesNearer, WorkingRank, DeliveryFailsNearer, EndsNearer, PassNearer DEF Proceeds, At

\* A process starts: the run, and what an operator asks for.
LEMMA StartsNearer ==
  ASSUME RankInv, NEW p \in Processes, At(p, "idle"), NEW r \in Process,
         proc' = [proc EXCEPT ![p] = r], r.passes = proc[p].passes,
         r.step \in {"prepare", "revalidate", "advance", "deny"}
  PROVE  Nears
<1>1. proc[p].passes = 0
  BY DEF RankInv, PassesOK, At, Blocking
<1>2. Rank(r) <= 25 /\ PassesOK(r)
  BY <1>1 DEF Rank, StepRank, PassesOK
<1> QED
  BY <1>2, OneMoves

\* The run, up to the request of an approval.
LEMMA RunProceeds ==
  ASSUME RankInv, Runner \in Processes,
         \/ PrepareMissionForExecution \/ EnsurePrimaryDeliveryApproval
         \/ Suspend \/ RequestActionApproval \/ RequestBeyondBound \/ AwaitApproval
  PROVE  Proceeds(Runner)
<1> 1 \in 0..2
  OBVIOUS
<1>1. CASE PrepareMissionForExecution
  BY <1>1 DEF PrepareMissionForExecution, Proceeds, At, StepRank, Steps, Working, Blocking
<1>2. CASE EnsurePrimaryDeliveryApproval
  BY <1>2 DEF EnsurePrimaryDeliveryApproval, Proceeds, At, StepRank, Steps, Working, Blocking
<1>3. CASE Suspend
  BY <1>3 DEF Suspend, Proceeds, At, StepRank, Steps, Working, Blocking
<1>4. CASE RequestActionApproval
  BY <1>4 DEF RequestActionApproval, Proceeds, At, StepRank, Steps, Working, Blocking
<1>5. CASE RequestBeyondBound
  BY <1>5 DEF RequestBeyondBound, Proceeds, At
<1>6. CASE AwaitApproval
  BY <1>6 DEF AwaitApproval, Proceeds, At, StepRank, Steps, Working, Blocking
<1> QED
  BY <1>1, <1>2, <1>3, <1>4, <1>5, <1>6

\* The run takes a ticket to its delivery or to the request of an approval.
LEMMA ChooseNearer ==
  ASSUME RankInv, Runner \in Processes, Choose
  PROVE  Nears
<1>1. proc[Runner] \in Process /\ proc[Runner].step = "choose"
  BY DEF RankInv, ProtocolTypeOK, Choose, At
<1>2. CASE Fails(Runner, 1)
  <2>1. 1 \in 0..2 /\ "choose" \in Working
    BY DEF Working, Steps, Blocking
  <2> QED
    BY <1>1, <1>2, <2>1, WorkingRank
<1>3. ASSUME NEW r \in Process, r.passes = 0, r.step \in {"advance", "mission", "ensure"},
             proc' = [proc EXCEPT ![Runner] = r]
      PROVE  Nears
  <2>1. PassesOK(r) /\ Rank(r) <= 23
    BY <1>3 DEF PassesOK, Rank, StepRank
  <2>2. Rank(proc[Runner]) >= 24
    <3>1. StepRank[proc[Runner].step] = 24
      BY <1>1 DEF StepRank
    <3> QED
      BY <1>1, <3>1, RankType DEF Rank
  <2>3. Rank(r) \in Nat /\ Rank(proc[Runner]) \in Nat
    BY <1>1, RankType
  <2>4. Rank(r) < Rank(proc[Runner]) /\ ~At(Runner, "idle")
    BY <1>1, <2>1, <2>2, <2>3 DEF At
  <2> QED
    BY <1>3, <2>1, <2>4, OneMoves
<1>4. Idle \in Process /\ Idle.passes = 0
  <2>1. 0 \in 0..2
    OBVIOUS
  <2>2. Idle \in Process
    BY <2>1, EndingStep
  <2> QED
    BY <2>2 DEF Idle
<1>5. CASE proc' = [proc EXCEPT ![Runner] = [Idle EXCEPT !.step = "ensure"]]
  <2> DEFINE r == [Idle EXCEPT !.step = "ensure"]
  <2>1. r \in Process /\ r.passes = 0 /\ r.step = "ensure"
    BY <1>4 DEF Process, Steps
  <2> HIDE DEF r
  <2>2. proc' = [proc EXCEPT ![Runner] = r]
    BY <1>5 DEF r
  <2> QED
    BY <1>3, <2>1, <2>2
<1>6. CASE ResumePrimaryDelivery(Len(approvals)) /\ ~Fails(Runner, 1)
  <2> DEFINE n == Len(approvals)
             s == IF ticket = "awaiting_approval" THEN "advance" ELSE "mission"
             r == [Idle EXCEPT !.n = n, !.step = s]
  <2>1. n \in 0..MaxApprovals /\ s \in Steps
    BY ProtocolAssumption DEF RankInv, ProtocolTypeOK, Steps
  <2>2. [Idle EXCEPT !.n = n] \in Process /\ [Idle EXCEPT !.n = n].passes = 0
    BY <1>4, <2>1 DEF Process
  <2>3. r \in Process /\ r.passes = 0 /\ r.step = s
    BY <2>1, <2>2 DEF Process
  <2>4. proc' = [proc EXCEPT ![Runner] = r]
    BY <1>6 DEF ResumePrimaryDelivery
  <2> HIDE DEF r
  <2> QED
    BY <1>3, <2>3, <2>4
<1> QED
  BY <1>2, <1>5, <1>6 DEF Choose

\* The delivery, from the decision to its record, and the passes that block it.
LEMMA DeliveryProceeds ==
  ASSUME RankInv, NEW p \in Processes,
         \/ Deny(p) \/ Denied(p)
         \/ AdvanceTicket(p) \/ ReadMission(p) \/ VerifyMission(p) \/ RecordDeliveryAttempt(p)
         \/ ResolvePullRequestApproval(p) \/ Pushed(p)
         \/ CreatePullRequestAfterPublishedArtifact(p) \/ Created(p)
         \/ ReconcilePullRequestApproval(p) \/ VerifyCreatedPullRequest(p)
         \/ RecordDeliveryAttemptResult(p) \/ RecordDelivery(p)
         \/ ReadTicketToBlock(p) \/ BlockTicket(p) \/ ReadMissionToBlock(p) \/ BlockMission(p)
  PROVE  Proceeds(p)
<1> 1 \in 0..2
  OBVIOUS
<1> USE DEF Proceeds, At, StepRank, Steps, Working, Blocking
<1>1. CASE Deny(p)
  BY <1>1 DEF Deny, Send
<1>2. CASE Denied(p)
  BY <1>2 DEF Denied
<1>3. CASE AdvanceTicket(p)
  BY <1>3 DEF AdvanceTicket
<1>4. CASE ReadMission(p)
  BY <1>4 DEF ReadMission
<1>5. CASE VerifyMission(p)
  BY <1>5 DEF VerifyMission
<1>6. CASE RecordDeliveryAttempt(p)
  BY <1>6 DEF RecordDeliveryAttempt, AfterIntent
<1>7. CASE ResolvePullRequestApproval(p)
  BY <1>7 DEF ResolvePullRequestApproval, Send
<1>8. CASE Pushed(p)
  BY <1>8 DEF Pushed
<1>9. CASE CreatePullRequestAfterPublishedArtifact(p)
  BY <1>9 DEF CreatePullRequestAfterPublishedArtifact, Send
<1>10. CASE Created(p)
  BY <1>10 DEF Created, AfterCreation
<1>11. CASE ReconcilePullRequestApproval(p)
  BY <1>11 DEF ReconcilePullRequestApproval, ReconcileArtifact, ReconcileHead
<1>12. CASE VerifyCreatedPullRequest(p)
  BY <1>12 DEF VerifyCreatedPullRequest
<1>13. CASE RecordDeliveryAttemptResult(p)
  BY <1>13 DEF RecordDeliveryAttemptResult
<1>14. CASE RecordDelivery(p)
  BY <1>14 DEF RecordDelivery
<1>15. CASE ReadTicketToBlock(p)
  BY <1>15 DEF ReadTicketToBlock
<1>16. CASE BlockTicket(p)
  BY <1>16 DEF BlockTicket
<1>17. CASE ReadMissionToBlock(p)
  BY <1>17 DEF ReadMissionToBlock
<1>18. CASE BlockMission(p)
  BY <1>18 DEF BlockMission
<1> QED
  BY <1>1, <1>2, <1>3, <1>4, <1>5, <1>6, <1>7, <1>8, <1>9, <1>10, <1>11, <1>12, <1>13,
     <1>14, <1>15, <1>16, <1>17, <1>18

\* An operator's decision starts a request, or ends the revalidation of a head.
LEMMA DecidedNearer ==
  ASSUME RankInv, NEW p \in Processes, NEW n \in 0..MaxApprovals,
         NEW d \in {"approved", "rejected", "cancelled"}, Decided(p, n, d),
         At(p, "idle") \/ (At(p, "revalidate") /\ d = "approved")
  PROVE  Nears
<1> DEFINE s == IF d = "approved" THEN "advance" ELSE "deny"
           r == [proc[p] EXCEPT !.n = n, !.step = s]
<1>1. proc[p] \in Process /\ n \in 0..MaxApprovals /\ s \in Steps
  BY ProtocolAssumption DEF RankInv, ProtocolTypeOK, Steps
<1>2. r \in Process /\ r.step = s /\ r.passes = proc[p].passes
  <2>1. [proc[p] EXCEPT !.n = n] \in Process
        /\ [proc[p] EXCEPT !.n = n].passes = proc[p].passes
    BY <1>1 DEF Process
  <2> QED
    BY <1>1, <2>1 DEF Process
<1>3. proc' = [proc EXCEPT ![p] = r]
  BY DEF Decided
<1> HIDE DEF r
<1>4. CASE At(p, "idle")
  BY <1>2, <1>3, <1>4, StartsNearer
<1>5. CASE At(p, "revalidate") /\ d = "approved"
  <2>1. r.step = "advance" /\ proc[p].step = "revalidate"
    BY <1>2, <1>5 DEF At
  <2>2. r.passes = 0 /\ proc[p].passes = 0
    BY <1>2, <2>1 DEF RankInv, PassesOK, Blocking
  <2>3. Rank(r) = 23 /\ Rank(proc[p]) = 24 /\ PassesOK(r) /\ ~At(p, "idle")
    BY <2>1, <2>2 DEF Rank, StepRank, PassesOK, At
  <2>4. Rank(r) < Rank(proc[p])
    BY <2>3
  <2> QED
    BY <1>2, <1>3, <2>3, <2>4, OneMoves
<1> QED
  BY <1>4, <1>5

\* Every step brings the processes it moves nearer to their ends.
LEMMA NextNearer ==
  ASSUME RankInv, [Next]_protocolVars
  PROVE  Nears
<1> Runner \in Processes
  BY DEF Processes
<1>0. ASSUME proc' = proc PROVE Nears
  BY <1>0 DEF RankInv, Nears, Nearer, PassesOK
<1>1. CASE RunPrimaryMission
  <2> DEFINE w == proc[Runner]
             r == [w EXCEPT !.step = "prepare", !.saw = ticket]
  <2>1. w \in Process /\ ticket \in {"", "awaiting_approval", "delivering"} /\ "prepare" \in Steps
    BY <1>1 DEF RankInv, ProtocolTypeOK, RunPrimaryMission, Active, Steps
  <2>2. r \in Process /\ r.step = "prepare" /\ r.passes = w.passes
    <3>1. [w EXCEPT !.step = "prepare"] \in Process
          /\ [w EXCEPT !.step = "prepare"].step = "prepare"
          /\ [w EXCEPT !.step = "prepare"].passes = w.passes
      BY <2>1 DEF Process
    <3> QED
      BY <2>1, <3>1 DEF Process
  <2>3. proc' = [proc EXCEPT ![Runner] = r] /\ At(Runner, "idle")
    BY <1>1 DEF RunPrimaryMission
  <2> HIDE DEF r
  <2> QED
    BY <2>2, <2>3, StartsNearer
<1>2. ASSUME NEW p \in Operators, NEW n \in 1..Len(approvals), StartApprovalOfHead(p, n)
      PROVE  Nears
  <2> DEFINE r == [proc[p] EXCEPT !.step = "revalidate", !.n = n]
  <2>1. p \in Processes /\ proc[p] \in Process /\ n \in 0..MaxApprovals /\ "revalidate" \in Steps
    BY ProtocolAssumption DEF Processes, RankInv, ProtocolTypeOK, Steps
  <2>2. r \in Process /\ r.step = "revalidate" /\ r.passes = proc[p].passes
    <3>1. [proc[p] EXCEPT !.step = "revalidate"] \in Process
          /\ [proc[p] EXCEPT !.step = "revalidate"].step = "revalidate"
          /\ [proc[p] EXCEPT !.step = "revalidate"].passes = proc[p].passes
      BY <2>1 DEF Process
    <3> QED
      BY <2>1, <3>1 DEF Process
  <2>3. proc' = [proc EXCEPT ![p] = r] /\ At(p, "idle")
    BY <1>2 DEF StartApprovalOfHead
  <2> HIDE DEF r
  <2> QED
    BY <2>1, <2>2, <2>3, StartsNearer
<1>3. ASSUME NEW p \in Operators, NEW n \in 1..Len(approvals),
             NEW d \in {"approved", "rejected", "cancelled"}, DecidePrimaryDelivery(p, n, d)
      PROVE  Nears
  <2>1. p \in Processes /\ n \in 0..MaxApprovals
    BY ProtocolAssumption DEF Processes, RankInv, ProtocolTypeOK
  <2> QED
    BY <1>3, <2>1, DecidedNearer DEF DecidePrimaryDelivery
<1>4. ASSUME NEW p \in Processes, Continue(p) PROVE Nears
  <2>1. CASE p = Runner /\ Choose
    BY <2>1, ChooseNearer
  <2>2. CASE p = Runner /\ (\/ PrepareMissionForExecution \/ EnsurePrimaryDeliveryApproval
                            \/ Suspend \/ RequestActionApproval \/ RequestBeyondBound
                            \/ AwaitApproval)
    BY <2>2, RunProceeds, ProceedsNearer
  <2>3. CASE RevalidatePrimaryDeliveryHead(p)
    <3>1. At(p, "revalidate") /\ ~At(p, "idle")
      BY <2>3 DEF RevalidatePrimaryDeliveryHead, At
    <3>2. CASE Ends(p)
      BY <3>1, <3>2, EndsNearer
    <3>3. CASE MayDecide(proc[p].n, "approved") /\ Decided(p, proc[p].n, "approved")
      <4>1. proc[p].n \in 0..MaxApprovals
        BY DEF RankInv, ProtocolTypeOK, Process
      <4> QED
        BY <3>1, <3>3, <4>1, DecidedNearer
    <3> QED
      BY <2>3, <3>2, <3>3 DEF RevalidatePrimaryDeliveryHead
  <2>4. CASE \/ Deny(p) \/ Denied(p)
             \/ AdvanceTicket(p) \/ ReadMission(p) \/ VerifyMission(p) \/ RecordDeliveryAttempt(p)
             \/ ResolvePullRequestApproval(p) \/ Pushed(p)
             \/ CreatePullRequestAfterPublishedArtifact(p) \/ Created(p)
             \/ ReconcilePullRequestApproval(p) \/ VerifyCreatedPullRequest(p)
             \/ RecordDeliveryAttemptResult(p) \/ RecordDelivery(p)
             \/ ReadTicketToBlock(p) \/ BlockTicket(p) \/ ReadMissionToBlock(p)
             \/ BlockMission(p)
    BY <2>4, DeliveryProceeds, ProceedsNearer
  <2> QED
    BY <1>4, <2>1, <2>2, <2>3, <2>4 DEF Continue
<1>5. ASSUME NEW p \in Processes, LoseAnswer(p) PROVE Nears
  <2>1. proc[p].step \in Working /\ proc[p].step # "idle"
    BY <1>5 DEF LoseAnswer, Working, Steps, Blocking
  <2> QED
    BY <1>5, <2>1, ProceedsNearer DEF LoseAnswer, Proceeds
<1>6. CASE Crash
  <2>1. /\ \A p \in Processes : proc'[p] = Idle
        /\ \A p \in Processes : proc[p] \in Process
    BY <1>6 DEF Crash, RankInv, ProtocolTypeOK
  <2>2. Rank(Idle) = 0 /\ PassesOK(Idle)
    BY DEF Rank, StepRank, PassesOK, Idle
  <2>3. \A p \in Processes : ~At(p, "idle") => Rank(proc[p]) > 0
    BY <2>1, RankType DEF At, Rank
  <2> QED
    BY <2>1, <2>2, <2>3 DEF Nears, Nearer
<1>7. ASSUME \/ \E t \in turns : Serve(t)
             \/ \E n \in 1..Len(approvals) : Expire(n)
             \/ Push \/ UNCHANGED protocolVars
      PROVE  Nears
  BY <1>7, <1>0 DEF Serve, Expire, Push, protocolVars
<1> QED
  BY <1>1, <1>2, <1>3, <1>4, <1>5, <1>6, <1>7 DEF Next

\* Every request that started ends after 25 steps of its own at most, for any number of
\* operators, approvals and crashes: blocking a failed delivery is not tried for ever, and
\* no point of the delivery is reached twice.
THEOREM RequestsGetNearer == Spec => RequestsAreBounded
<1>1. Init => RankInv
  <2>1. ASSUME Init PROVE RankInv
    <3>1. ProtocolTypeOK
      BY <2>1, InitInv DEF ProtocolInv
    <3>2. \A p \in Processes : PassesOK(proc[p])
      BY <2>1 DEF Init, PassesOK, Idle
    <3> QED
      BY <3>1, <3>2 DEF RankInv
  <2> QED
    BY <2>1
<1>2. RankInv /\ ProtocolTypeOK' /\ [Next]_protocolVars =>
        RankInv' /\ [\A p \in Processes : Nearer(p)]_protocolVars
  BY NextNearer DEF Nears, RankInv
<1> QED
  BY <1>1, <1>2, ProtocolTypes, PTL DEF Spec, RequestsAreBounded
=============================================================================
