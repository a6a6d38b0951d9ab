------------------------ MODULE TicketLifecycleProofs ------------------------
(***************************************************************************)
(* Proofs about TicketLifecycle, for every set of items, owners and humans *)
(* and every bound: types, and the safety of the queue-first lifecycle.    *)
(***************************************************************************)
EXTENDS TicketLifecycle, SequenceTheorems, TLAPS

-----------------------------------------------------------------------------
(* The two ways a history grows.                                           *)

\* Replacing the last attempt keeps the length and every attempt before it.
LEMMA WithCurrentShape ==
  ASSUME attempts \in [Items -> Seq(Attempt)],
         NEW i \in Items, NEW a \in Attempt, attempts[i] # <<>>
  PROVE  /\ WithCurrent(i, a) \in [Items -> Seq(Attempt)]
         /\ Len(WithCurrent(i, a)[i]) = Number(i)
         /\ Number(i) \in Nat \ {0}
         /\ Current(i) \in Attempt
         /\ WithCurrent(i, a)[i][Number(i)] = a
         /\ \A n \in 1..(Number(i) - 1) : WithCurrent(i, a)[i][n] = attempts[i][n]
         /\ \A j \in Items \ {i} : WithCurrent(i, a)[j] = attempts[j]
<1> DEFINE s == attempts[i]
           w == [s EXCEPT ![Len(s)] = a]
<1>1. s \in Seq(Attempt) /\ Len(s) \in Nat \ {0} /\ Len(s) \in 1..Len(s)
  BY EmptySeq, LenProperties
<1>2. w \in Seq(Attempt) /\ Len(w) = Len(s) /\ s[Len(s)] \in Attempt
  BY <1>1, ExceptSeq, ElementOfSeq
<1>3. w[Len(s)] = a /\ \A n \in 1..(Len(s) - 1) : w[n] = s[n]
  BY <1>1, LenProperties
<1>4. WithCurrent(i, a) = [attempts EXCEPT ![i] = w]
  BY DEF WithCurrent
<1> QED
  BY <1>1, <1>2, <1>3, <1>4 DEF Number, Current

\* A claim appends one attempt and keeps the others.
Appended(i, a) == [attempts EXCEPT ![i] = Append(@, a)]

\* An appended attempt lengthens the history of its item by one.
LEMMA AppendedShape ==
  ASSUME attempts \in [Items -> Seq(Attempt)],
         NEW i \in Items, NEW a \in Attempt
  PROVE  /\ Appended(i, a) \in [Items -> Seq(Attempt)]
         /\ Number(i) \in Nat
         /\ Len(Appended(i, a)[i]) = Number(i) + 1
         /\ Appended(i, a)[i][Number(i) + 1] = a
         /\ \A n \in 1..Number(i) : Appended(i, a)[i][n] = attempts[i][n]
         /\ \A j \in Items \ {i} : Appended(i, a)[j] = attempts[j]
<1> DEFINE h == Appended(i, a)
<1>1. attempts[i] \in Seq(Attempt) /\ h[i] = Append(attempts[i], a)
  BY DEF Appended
<1>2. /\ h[i] \in Seq(Attempt) /\ Len(h[i]) = Len(attempts[i]) + 1
      /\ h[i][Len(attempts[i]) + 1] = a /\ Len(attempts[i]) \in Nat
      /\ \A n \in 1..Len(attempts[i]) : h[i][n] = attempts[i][n]
  BY <1>1, AppendProperties, LenProperties
<1> QED
  BY <1>1, <1>2 DEF Number, Appended

-----------------------------------------------------------------------------
(* Type correctness.                                                       *)

\* What updateCurrentAttempt leaves is a history.
LEMMA TrackedType ==
  ASSUME TypeOK, NEW i \in Items, NEW to \in AttemptStatuses, NEW findings \in SUBSET Nat
  PROVE  Tracked(i, to, findings) \in [Items -> Seq(Attempt)]
<1>1. CASE attempts[i] = <<>>
  BY <1>1 DEF Tracked, TypeOK
<1>2. CASE attempts[i] # <<>>
  <2> DEFINE a == [Current(i) EXCEPT !.status = to,
                                     !.findings = IF findings = {} THEN @ ELSE findings]
  <2>1. Current(i) \in Attempt
    BY <1>2, ElementOfSeq, EmptySeq, LenProperties DEF TypeOK, Current, Number
  <2>2. a \in Attempt
    BY <2>1 DEF Attempt
  <2> QED
    BY <1>2, <2>2, WithCurrentShape DEF Tracked, TypeOK
<1> QED
  BY <1>1, <1>2

\* What the findings of an item become.
LEMMA FindingsType ==
  ASSUME TypeOK, NEW i \in Items, NEW to
  PROVE  FindingsAfter(i, to) \in SUBSET Nat
<1>1. Number(i) \in Nat /\ requested[i] \in SUBSET Nat
  BY LenProperties DEF TypeOK, Number
<1> QED
  BY <1>1 DEF FindingsAfter

\* Entering the queue, and planning it again, keeps the types.
LEMMA EntryType ==
  ASSUME TypeOK, NEW graph \in Graphs, NEW i \in Items, NEW s \in {"backlog", "ready"},
         PersistWorkGraph(graph) \/ (i \in DOMAIN graph /\ AddWorkItem(i, graph[i], s))
  PROVE  TypeOK'
<1>1. \A j \in DOMAIN graph : graph[j] \in Plan
  BY ConstantsAssumption
<1>2. CASE i \in DOMAIN graph /\ AddWorkItem(i, graph[i], s)
  BY <1>1, <1>2 DEF TypeOK, AddWorkItem, workVars, TicketStatuses
<1>3. CASE PersistWorkGraph(graph)
  <2>1. \A j \in Items : j \in DOMAIN graph =>
          [graph[j] EXCEPT !.checked = @ \/ plan[j].checked, !.scoped = @ \/ plan[j].scoped] \in Plan
    <3> SUFFICES ASSUME NEW j \in Items, j \in DOMAIN graph
                 PROVE  [graph[j] EXCEPT !.checked = @ \/ plan[j].checked, !.scoped = @ \/ plan[j].scoped] \in Plan
      OBVIOUS
    <3>1. graph[j] \in Plan
      BY <1>1
    <3>2. /\ (graph[j].checked \/ plan[j].checked) \in BOOLEAN
          /\ (graph[j].scoped \/ plan[j].scoped) \in BOOLEAN
      OBVIOUS
    <3> QED
      BY <3>1, <3>2 DEF Plan
  <2>2. plan' \in [Items -> Plan]
    BY <1>3, <2>1 DEF PersistWorkGraph, TypeOK
  <2>3. status' \in [Items -> TicketStatuses \cup LegacyStatuses \cup {"absent"}]
    BY <1>3 DEF PersistWorkGraph, TypeOK, TicketStatuses
  <2> QED
    BY <1>3, <2>2, <2>3 DEF PersistWorkGraph, TypeOK, workVars
<1> QED
  BY <1>2, <1>3

\* An authorization keeps the types.
LEMMA AuthorizeType ==
  ASSUME TypeOK, NEW i \in Items, NEW h \in Humans, AuthorizeWorkItem(i, h)
  PROVE  TypeOK'
<1>1. RetiredHistory(i, h) \in [Items -> Seq(Attempt)]
  <2>1. CASE attempts[i] # <<>>
    <3> DEFINE a == [Current(i) EXCEPT
           !.owner = IF claim[i] = NoOne THEN @ ELSE claim[i],
           !.status = "changes_requested", !.retiredBy = h]
    <3>1. Current(i) \in Attempt
      BY <2>1, WithCurrentShape, ElementOfSeq, EmptySeq DEF TypeOK, Current, Number
    <3>2. a \in Attempt
      <4>1. Current(i).owner \in Owners /\ claim[i] \in Owners \cup {NoOne}
        BY <3>1 DEF Attempt, TypeOK
      <4>2. (IF claim[i] = NoOne THEN Current(i).owner ELSE claim[i]) \in Owners
        BY <4>1
      <4> QED
        BY <3>1, <4>2 DEF Attempt, AttemptStatuses, TicketStatuses
    <3> QED
      BY <2>1, <3>2, WithCurrentShape DEF RetiredHistory, TypeOK
  <2>2. CASE attempts[i] = <<>> /\ claim[i] = NoOne
    BY <2>2 DEF RetiredHistory, TypeOK
  <2>3. CASE attempts[i] = <<>> /\ claim[i] # NoOne
    <3> DEFINE a == [auth |-> auth[i], owner |-> claim[i], findings |-> requested[i],
                     status |-> "changes_requested", retiredBy |-> h]
    <3>1. a \in Attempt
      BY <2>3 DEF TypeOK, Attempt, AttemptStatuses, TicketStatuses
    <3>2. <<a>> \in Seq(Attempt)
      BY <3>1
    <3> QED
      BY <2>3, <3>2 DEF RetiredHistory, TypeOK
  <2> QED
    BY <2>1, <2>2, <2>3
<1>2. attempts' \in [Items -> Seq(Attempt)] /\ claim' \in [Items -> Owners \cup {NoOne}]
  BY <1>1 DEF AuthorizeWorkItem, TypeOK
<1>3. granted' \in [Items -> Nat] /\ auth' \in [Items -> Nat]
  BY DEF AuthorizeWorkItem, NewAuthorization, TypeOK
<1>4. status' \in [Items -> TicketStatuses \cup LegacyStatuses \cup {"absent"}]
  BY DEF AuthorizeWorkItem, TypeOK, TicketStatuses
<1>5. UNCHANGED <<plan, requested, delegation, handoff, review>>
  BY DEF AuthorizeWorkItem, workVars
<1> QED
  BY <1>2, <1>3, <1>4, <1>5 DEF TypeOK

\* A claim keeps the types.
LEMMA ClaimType ==
  ASSUME TypeOK, NEW i \in Items, NEW o \in Owners, ClaimWorkItem(i, o)
  PROVE  TypeOK'
<1> DEFINE a == [auth |-> auth[i], owner |-> o, findings |-> requested[i],
                 status |-> "in_progress", retiredBy |-> NoOne]
<1>1. a \in Attempt
  BY DEF TypeOK, Attempt, AttemptStatuses, TicketStatuses
<1>2. attempts' = Appended(i, a)
  BY DEF ClaimWorkItem, Appended
<1>3. attempts' \in [Items -> Seq(Attempt)]
  BY <1>1, <1>2, AppendedShape DEF TypeOK
<1> QED
  BY <1>3 DEF ClaimWorkItem, TypeOK, workVars, TicketStatuses

\* A system transition keeps the types: no edge leads back into the queue, where an
\* attempt has no status.
LEMMA TransitionType ==
  ASSUME TypeOK, NEW i \in Items, NEW t \in SystemTriggers, NEW to \in TicketStatuses,
         TransitionSystemWorkItem(i, t, to)
  PROVE  to \in AttemptStatuses /\ TypeOK'
<1>1. to \in AttemptStatuses
  BY DEF TransitionSystemWorkItem, LegalSystemEdge, ExecutionEdge, RetryEdge,
         AttemptStatuses, TicketStatuses
<1>2. Tracked(i, to, FindingsAfter(i, to)) \in [Items -> Seq(Attempt)]
  BY <1>1, TrackedType, FindingsType
<1> QED
  BY <1>1, <1>2, FindingsType DEF TransitionSystemWorkItem, TypeOK, workVars

\* A review keeps the types.
LEMMA ReviewType ==
  ASSUME TypeOK, NEW i \in Items, NEW reviewer \in Owners \cup {Verifier},
         NEW outcome \in {"accepted", "changes_requested", "blocked"},
         RecordReview(i, reviewer, outcome)
  PROVE  TypeOK'
<1> DEFINE to == ReviewStatus(i, outcome)
           findings == IF outcome = "accepted" THEN {} ELSE {Number(i)}
<1>1. Number(i) \in Nat /\ handoff[i].id \in Nat
  BY LenProperties DEF Number, TypeOK, Handoff
<1>2. to \in TicketStatuses \cup LegacyStatuses
  BY DEF ReviewStatus, TicketStatuses, LegacyStatuses
<1>3. requested' \in [Items -> SUBSET Nat] /\ attempts' \in [Items -> Seq(Attempt)]
  <2>1. CASE status[i] = "proving"
    <3>1. to \in AttemptStatuses
      BY <2>1 DEF ReviewStatus, AttemptStatuses, TicketStatuses
    <3>2. Tracked(i, to, findings) \in [Items -> Seq(Attempt)]
      BY <1>1, <3>1, TrackedType
    <3>3. requested' = [requested EXCEPT ![i] = findings] /\ attempts' = Tracked(i, to, findings)
      BY <2>1 DEF RecordReview
    <3> QED
      BY <1>1, <3>2, <3>3 DEF TypeOK
  <2>2. CASE status[i] # "proving"
    BY <2>2 DEF RecordReview, TypeOK
  <2> QED
    BY <2>1, <2>2
<1>4. claim' \in [Items -> Owners \cup {NoOne}]
  BY DEF RecordReview, TypeOK
<1>5. status' \in [Items -> TicketStatuses \cup LegacyStatuses \cup {"absent"}]
  BY <1>2 DEF RecordReview, TypeOK
<1>6. review' \in [Items -> Review]
  BY <1>1 DEF RecordReview, TypeOK, Review
<1> QED
  BY <1>3, <1>4, <1>5, <1>6 DEF RecordReview, TypeOK

\* Every mutator keeps the types.
LEMMA NextType ==
  ASSUME TypeOK, Next
  PROVE  TypeOK'
<1>1. CASE \E graph \in Graphs : PersistWorkGraph(graph)
  <2> PICK graph \in Graphs : PersistWorkGraph(graph)
    BY <1>1
  <2>1. PICK i : i \in DOMAIN graph
    BY DEF PersistWorkGraph, ValidGraph
  <2>2. i \in Items
    BY <2>1, ConstantsAssumption
  <2> QED
    BY <2>2, EntryType
<1>2. ASSUME NEW i \in Items, Operate(i) PROVE TypeOK'
  <2>1. CASE \E g \in Graphs, s \in {"backlog", "ready"} : i \in DOMAIN g /\ AddWorkItem(i, g[i], s)
    BY <2>1, EntryType
  <2>2. CASE \E h \in Humans : AuthorizeWorkItem(i, h)
    BY <2>2, AuthorizeType
  <2>3. CASE RevokeWorkItemAuthorization(i)
    BY <2>3 DEF TypeOK, RevokeWorkItemAuthorization, workVars, TicketStatuses
  <2>4. CASE \E o \in Owners : ClaimWorkItem(i, o)
    BY <2>4, ClaimType
  <2>5. CASE \E t \in SystemTriggers, to \in TicketStatuses : TransitionSystemWorkItem(i, t, to)
    BY <2>5, TransitionType
  <2>6. CASE \E to \in TicketStatuses \cup LegacyStatuses : TransitionWorkItem(i, to)
    BY <2>6 DEF TransitionWorkItem, TypeOK, workVars
  <2>7. CASE \E o \in Owners : StartWorkItemDelegation(i, o)
    BY <2>7 DEF StartWorkItemDelegation, TypeOK, Delegation
  <2>8. CASE \E thread \in 1..MaxDelegations[i], outcome \in {"completed", "failed"} :
               EndWorkItemDelegation(i, thread, outcome)
    <3>1. PICK outcome \in {"completed", "failed"} :
            delegation' = [delegation EXCEPT ![i].status = outcome]
      BY <2>8 DEF EndWorkItemDelegation
    <3>2. delegation' \in [Items -> Delegation]
      BY <3>1 DEF TypeOK, Delegation
    <3> QED
      BY <2>8, <3>2 DEF EndWorkItemDelegation, TypeOK
  <2>9. CASE \E thread \in 0..MaxDelegations[i], done \in BOOLEAN : RecordHandoff(i, thread, done)
    <3>1. Number(i) \in Nat /\ MaxDelegations[i] \in Nat
      BY LenProperties, ConstantsAssumption DEF Number, TypeOK
    <3>2. PICK thread \in 0..MaxDelegations[i], done \in BOOLEAN : RecordHandoff(i, thread, done)
      BY <2>9
    <3>3. thread \in Nat
      BY <3>1
    <3> QED
      BY <3>1, <3>2, <3>3 DEF RecordHandoff, TypeOK, Handoff
  <2>10. CASE \E reviewer \in Owners \cup {Verifier},
                outcome \in {"accepted", "changes_requested", "blocked"} :
               RecordReview(i, reviewer, outcome)
    BY <2>10, ReviewType
  <2> QED
    BY <1>2, <2>1, <2>2, <2>3, <2>4, <2>5, <2>6, <2>7, <2>8, <2>9, <2>10 DEF Operate, Handle, Judge
<1> QED
  BY <1>1, <1>2 DEF Next

\* An empty mission has the types.
LEMMA InitType ==
  ASSUME Init
  PROVE  TypeOK
<1>1. NoPlan \in Plan
  BY DEF NoPlan, Plan
<1>2. <<>> \in Seq(Attempt)
  BY EmptySeq
<1> QED
  BY <1>1, <1>2 DEF Init, TypeOK, Delegation, Handoff, Review

\* The types of the work items hold in every state, validated or not.
THEOREM TypeCorrect == Spec => []TypeOK
<1>1. Init => TypeOK
  BY InitType
<1>2. TypeOK /\ [Next]_vars => TypeOK'
  <2> SUFFICES ASSUME TypeOK, [Next]_vars PROVE TypeOK'
    OBVIOUS
  <2>1. CASE UNCHANGED vars
    BY <2>1 DEF TypeOK, vars
  <2> QED
    BY <2>1, NextType
<1> QED
  BY <1>1, <1>2, PTL DEF Spec

-----------------------------------------------------------------------------
(* The queue-first lifecycle: what holds of an item after every call when   *)
(* no caller uses the compatibility trigger.                                *)

\* Work in progress holds the claim, and the queue holds none.
PhaseInv(i) ==
  /\ status[i] \notin LegacyStatuses
  /\ claim[i] = NoOne => status[i] \in {"absent", "backlog", "ready", "blocked"}
  /\ claim[i] # NoOne => status[i] \notin {"absent", "backlog", "ready"}

\* The claim belongs to the last attempt, the only one not retired.
HistoryInv(i) ==
  /\ claim[i] # NoOne => attempts[i] # <<>> /\ Current(i).owner = claim[i]
  /\ attempts[i] # <<>> /\ status[i] \in AttemptStatuses => Current(i).status = status[i]
  /\ \A n \in 1..Number(i) :
       attempts[i][n].retiredBy = NoOne <=> (n = Number(i) /\ claim[i] # NoOne)

\* An authorization that may be claimed is later than every one already spent.
LedgerInv(i) ==
  /\ auth[i] <= granted[i]
  /\ \A n \in 1..Number(i) :
       /\ attempts[i][n].auth \in 1..granted[i]
       /\ n > 1 => attempts[i][n - 1].auth < attempts[i][n].auth
  /\ status[i] = "ready" /\ auth[i] # 0 /\ attempts[i] # <<>> => Current(i).auth < auth[i]
  /\ status[i] = "absent" => auth[i] = 0

\* An item nobody holds still carries the findings of the attempt sent back.
FindingsInv(i) ==
  /\ \A n \in 2..Number(i) : attempts[i][n].findings \in {{n - 1}, {n}}
  /\ attempts[i] = <<>> => requested[i] = {}
  /\ requested[i] \in {{}, {Number(i) - 1}, {Number(i)}}
  /\ claim[i] = NoOne /\ attempts[i] # <<>> => requested[i] = {Number(i)}
  /\ status[i] = "changes_requested" => requested[i] = {Number(i)}

RunningInv(i) ==
  delegation[i].status = "running" => claim[i] # NoOne /\ delegation[i].owner = claim[i]

ItemInv(i) == PhaseInv(i) /\ HistoryInv(i) /\ LedgerInv(i) /\ FindingsInv(i) /\ RunningInv(i)

QueueInv == TypeOK /\ \A i \in Items : ItemInv(i)

\* An item that no call touches keeps its invariant.
SameItem(j) ==
  /\ status'[j] = status[j] /\ auth'[j] = auth[j] /\ granted'[j] = granted[j]
  /\ claim'[j] = claim[j] /\ attempts'[j] = attempts[j]
  /\ requested'[j] = requested[j] /\ delegation'[j] = delegation[j]

\* An item of which nothing changes keeps its invariant.
LEMMA SameItemInv ==
  ASSUME NEW j \in Items, ItemInv(j), SameItem(j)
  PROVE  ItemInv(j)'
BY DEF SameItem, ItemInv, PhaseInv, HistoryInv, LedgerInv, FindingsInv, RunningInv,
       Number, Current

\* updateCurrentAttempt changes the status and the findings of the last attempt only.
LEMMA TrackedShape ==
  ASSUME TypeOK, NEW i \in Items, attempts[i] # <<>>,
         NEW to \in AttemptStatuses, NEW findings \in SUBSET Nat,
         NEW h, h = Tracked(i, to, findings)
  PROVE  /\ Number(i) \in Nat \ {0}
         /\ Len(h[i]) = Number(i)
         /\ h[i][Number(i)].status = to
         /\ h[i][Number(i)].findings = IF findings = {} THEN Current(i).findings ELSE findings
         /\ \A n \in 1..Number(i) :
              /\ h[i][n].auth = attempts[i][n].auth
              /\ h[i][n].owner = attempts[i][n].owner
              /\ h[i][n].retiredBy = attempts[i][n].retiredBy
              /\ n < Number(i) => h[i][n].findings = attempts[i][n].findings
         /\ \A j \in Items \ {i} : h[j] = attempts[j]
<1> DEFINE kept == IF findings = {} THEN Current(i).findings ELSE findings
           a == [Current(i) EXCEPT !.status = to, !.findings = kept]
<1>1. Current(i) \in Attempt
  BY ElementOfSeq, EmptySeq, LenProperties DEF TypeOK, Current, Number
<1>2. /\ a \in Attempt /\ a.status = to /\ a.findings = kept
      /\ a.auth = Current(i).auth /\ a.owner = Current(i).owner
      /\ a.retiredBy = Current(i).retiredBy
  BY <1>1 DEF Attempt
<1>3. h = WithCurrent(i, a)
  BY DEF Tracked
<1> HIDE DEF a
<1>4. /\ Len(h[i]) = Number(i) /\ Number(i) \in Nat \ {0} /\ h[i][Number(i)] = a
      /\ \A n \in 1..(Number(i) - 1) : h[i][n] = attempts[i][n]
      /\ \A j \in Items \ {i} : h[j] = attempts[j]
  BY <1>2, <1>3, WithCurrentShape DEF TypeOK
<1>5. \A n \in 1..Number(i) : n = Number(i) \/ n \in 1..(Number(i) - 1)
  BY <1>4
<1> QED
  BY <1>2, <1>4, <1>5 DEF Current

\* Moving an item with its attempt, as system transitions and reviews do.
LEMMA MoveInv ==
  ASSUME QueueInv, TypeOK', NEW i \in Items,
         NEW to \in AttemptStatuses, NEW findings \in SUBSET Nat,
         findings \in {{}, {Number(i)}, requested[i]},
         to = "changes_requested" => findings = {Number(i)},
         status[i] \notin {"absent", "backlog"},
         claim[i] = NoOne => to = "blocked" /\ findings = requested[i],
         status' = [status EXCEPT ![i] = to],
         attempts' = Tracked(i, to, findings),
         requested' = [requested EXCEPT ![i] = findings],
         UNCHANGED <<auth, granted, claim, delegation>>
  PROVE  QueueInv'
<1>1. ItemInv(i) /\ TypeOK
  BY DEF QueueInv
<1>2. /\ status'[i] = to /\ requested'[i] = findings
      /\ auth'[i] = auth[i] /\ granted'[i] = granted[i]
      /\ claim'[i] = claim[i] /\ delegation'[i] = delegation[i]
  BY <1>1 DEF TypeOK
<1>3. ItemInv(i)'
  <2>1. PhaseInv(i)'
    BY <1>1, <1>2 DEF ItemInv, PhaseInv, AttemptStatuses, TicketStatuses, LegacyStatuses
  <2>2. RunningInv(i)'
    BY <1>1, <1>2 DEF ItemInv, RunningInv
  <2>3. CASE attempts[i] = <<>>
    <3>1. attempts'[i] = <<>> /\ claim[i] = NoOne
      BY <1>1, <2>3 DEF Tracked, ItemInv, HistoryInv
    <3>2. findings = {}
      BY <1>1, <2>3, <3>1 DEF ItemInv, FindingsInv
    <3>3. Number(i)' = 0 /\ to = "blocked"
      BY <3>1 DEF Number
    <3> QED
      BY <1>1, <1>2, <2>1, <2>2, <2>3, <3>1, <3>2, <3>3
         DEF ItemInv, HistoryInv, LedgerInv, FindingsInv
  <2>4. CASE attempts[i] # <<>>
    <3>1. /\ Number(i) \in Nat \ {0} /\ Number(i)' = Number(i) /\ attempts'[i] # <<>>
          /\ Current(i)' = attempts'[i][Number(i)]
          /\ Current(i)'.status = to
          /\ Current(i)'.findings = IF findings = {} THEN Current(i).findings ELSE findings
          /\ \A n \in 1..Number(i) :
               /\ attempts'[i][n].auth = attempts[i][n].auth
               /\ attempts'[i][n].owner = attempts[i][n].owner
               /\ attempts'[i][n].retiredBy = attempts[i][n].retiredBy
               /\ n < Number(i) => attempts'[i][n].findings = attempts[i][n].findings
      <4>1. Number(i) \in Nat \ {0} /\ Len(attempts'[i]) = Number(i)
        BY <1>1, <2>4, TrackedShape
      <4>2. Number(i)' = Number(i) /\ attempts'[i] # <<>>
        BY <4>1, EmptySeq DEF Number
      <4>3. Current(i)' = attempts'[i][Number(i)]
        BY <4>2 DEF Current
      <4>4. \A n \in 1..Number(i) :
              /\ attempts'[i][n].auth = attempts[i][n].auth
              /\ attempts'[i][n].owner = attempts[i][n].owner
              /\ attempts'[i][n].retiredBy = attempts[i][n].retiredBy
              /\ n < Number(i) => attempts'[i][n].findings = attempts[i][n].findings
        BY <1>1, <2>4, TrackedShape
      <4>5. /\ attempts'[i][Number(i)].status = to
            /\ attempts'[i][Number(i)].findings =
                 IF findings = {} THEN Current(i).findings ELSE findings
        BY <1>1, <2>4, TrackedShape
      <4> QED
        BY <4>1, <4>2, <4>3, <4>4, <4>5
    <3>2. HistoryInv(i)'
      BY <1>1, <1>2, <3>1 DEF ItemInv, HistoryInv, Current
    <3>3. LedgerInv(i)'
      <4>1. \A n \in 1..Number(i) : n > 1 => n - 1 \in 1..Number(i)
        BY <3>1
      <4>2. \A n \in 1..Number(i) :
              /\ attempts'[i][n].auth \in 1..granted[i]
              /\ n > 1 => attempts'[i][n - 1].auth < attempts'[i][n].auth
        BY <1>1, <3>1, <4>1 DEF ItemInv, LedgerInv
      <4>3. status'[i] \notin {"ready", "absent"}
        BY <1>2 DEF AttemptStatuses, TicketStatuses
      <4> QED
        BY <1>1, <1>2, <3>1, <4>2, <4>3 DEF ItemInv, LedgerInv
    <3>4. FindingsInv(i)'
      <4>1. \A n \in 2..Number(i) : attempts'[i][n].findings \in {{n - 1}, {n}}
        <5> SUFFICES ASSUME NEW n \in 2..Number(i)
                     PROVE  attempts'[i][n].findings \in {{n - 1}, {n}}
          OBVIOUS
        <5>1. attempts[i][n].findings \in {{n - 1}, {n}}
          BY <1>1, <3>1 DEF ItemInv, FindingsInv
        <5>2. CASE n < Number(i)
          BY <3>1, <5>1, <5>2
        <5>3. CASE n = Number(i)
          <6>1. findings # {} => findings \in {{Number(i) - 1}, {Number(i)}}
            BY <1>1 DEF ItemInv, FindingsInv
          <6> QED
            BY <3>1, <5>1, <5>3, <6>1 DEF Current
        <5> QED
          BY <3>1, <5>2, <5>3
      <4> QED
        BY <1>1, <1>2, <2>4, <3>1, <4>1 DEF ItemInv, FindingsInv
    <3> QED
      BY <2>1, <2>2, <3>2, <3>3, <3>4 DEF ItemInv
  <2> QED
    BY <2>3, <2>4
<1>4. \A j \in Items \ {i} : SameItem(j)
  <2>1. \A j \in Items \ {i} : attempts'[j] = attempts[j]
    <3>1. CASE attempts[i] = <<>>
      BY <3>1 DEF Tracked
    <3>2. CASE attempts[i] # <<>>
      BY <1>1, <3>2, TrackedShape
    <3> QED
      BY <3>1, <3>2
  <2> QED
    BY <1>1, <2>1 DEF SameItem, TypeOK
<1> QED
  BY <1>3, <1>4, SameItemInv DEF QueueInv

\* An item that enters the queue has no authorization and no history to reuse.
LEMMA EntryInv ==
  ASSUME QueueInv, NEW graph \in Graphs, NEW i \in Items, NEW s \in {"backlog", "ready"},
         PersistWorkGraph(graph) \/ AddWorkItem(i, graph[i], s)
  PROVE  \A j \in Items : ItemInv(j)'
<1> SUFFICES ASSUME NEW j \in Items PROVE ItemInv(j)'
  OBVIOUS
<1>1. ItemInv(j) /\ TypeOK
  BY DEF QueueInv
<1>2. UNCHANGED <<auth, granted, claim, attempts, requested, delegation>>
  BY DEF PersistWorkGraph, AddWorkItem, workVars
<1>3. \/ status'[j] = status[j]
      \/ status[j] = "absent" /\ status'[j] \in {"backlog", "ready"}
  <2>1. CASE PersistWorkGraph(graph)
    BY <1>1, <2>1 DEF PersistWorkGraph, Present, TypeOK
  <2>2. CASE AddWorkItem(i, graph[i], s)
    BY <1>1, <2>2 DEF AddWorkItem, TypeOK
  <2> QED
    BY <2>1, <2>2
<1>4. CASE status'[j] = status[j]
  BY <1>1, <1>2, <1>4, SameItemInv DEF SameItem
<1>5. CASE status[j] = "absent" /\ status'[j] \in {"backlog", "ready"}
  <2>1. Number(j)' = Number(j) /\ Current(j)' = Current(j)
    BY <1>2 DEF Number, Current
  <2> QED
    BY <1>1, <1>2, <1>5, <2>1 DEF ItemInv, PhaseInv, HistoryInv, LedgerInv, FindingsInv,
       RunningInv, LegacyStatuses, AttemptStatuses
<1> QED
  BY <1>3, <1>4, <1>5

\* A human authorization is later than everything spent, and retires the attempt it
\* sends back.
LEMMA AuthorizeInv ==
  ASSUME QueueInv, TypeOK', NEW i \in Items, NEW h \in Humans, AuthorizeWorkItem(i, h)
  PROVE  \A j \in Items : ItemInv(j)'
<1>1. ItemInv(i) /\ TypeOK /\ h # NoOne
  BY ConstantsAssumption DEF QueueInv
<1>2. /\ status'[i] = "ready" /\ auth'[i] = granted[i] + 1 /\ granted'[i] = granted[i] + 1
      /\ requested'[i] = requested[i] /\ delegation'[i] = delegation[i]
      /\ granted[i] \in Nat
  BY <1>1 DEF AuthorizeWorkItem, NewAuthorization, TypeOK, workVars
<1>3. ItemInv(i)' /\ \A j \in Items \ {i} : SameItem(j)
  <2>1. CASE status[i] = "backlog"
    <3>1. UNCHANGED <<claim, attempts>> /\ claim[i] = NoOne
      BY <2>1 DEF AuthorizeWorkItem
    <3>2. Number(i)' = Number(i) /\ Current(i)' = Current(i) /\ Number(i) \in Nat
      BY <1>1, <3>1, LenProperties DEF Number, Current, TypeOK
    <3>3. attempts[i] # <<>> => Current(i).auth \in 1..granted[i]
      <4> SUFFICES ASSUME attempts[i] # <<>> PROVE Current(i).auth \in 1..granted[i]
        OBVIOUS
      <4>1. Number(i) \in 1..Number(i)
        BY <1>1, EmptySeq DEF Number, TypeOK
      <4> QED
        BY <1>1, <4>1 DEF ItemInv, LedgerInv, Current
    <3>4. LedgerInv(i)'
      <4>1. \A n \in 1..Number(i) : attempts[i][n].auth \in 1..granted'[i]
        BY <1>1, <1>2 DEF ItemInv, LedgerInv
      <4> QED
        BY <1>1, <1>2, <3>1, <3>2, <3>3, <4>1 DEF ItemInv, LedgerInv
    <3>5. PhaseInv(i)' /\ HistoryInv(i)' /\ FindingsInv(i)' /\ RunningInv(i)'
      BY <1>1, <1>2, <3>1, <3>2 DEF ItemInv, PhaseInv, HistoryInv, FindingsInv, RunningInv,
         LegacyStatuses, AttemptStatuses
    <3>6. \A j \in Items \ {i} : SameItem(j)
      BY <1>1, <3>1 DEF AuthorizeWorkItem, SameItem, TypeOK, workVars
    <3> QED
      BY <3>4, <3>5, <3>6 DEF ItemInv
  <2>2. CASE status[i] = "changes_requested"
    <3> DEFINE a == [Current(i) EXCEPT
           !.owner = IF claim[i] = NoOne THEN @ ELSE claim[i],
           !.status = "changes_requested", !.retiredBy = h]
    <3>1. claim[i] # NoOne /\ attempts[i] # <<>>
      BY <1>1, <2>2 DEF ItemInv, PhaseInv, HistoryInv
    <3>2. attempts' = WithCurrent(i, a) /\ claim' = [claim EXCEPT ![i] = NoOne]
          /\ delegation[i].status # "running"
      BY <2>2, <3>1 DEF AuthorizeWorkItem, RetiredHistory, NotRunning
    <3>3. Current(i) \in Attempt
      BY <1>1, <3>1, ElementOfSeq, EmptySeq DEF TypeOK, Current, Number
    <3>4. a \in Attempt /\ a.status = "changes_requested" /\ a.retiredBy = h
          /\ a.auth = Current(i).auth /\ a.findings = Current(i).findings
      <4>1. claim[i] \in Owners
        BY <1>1, <3>1 DEF TypeOK
      <4>2. (IF claim[i] = NoOne THEN Current(i).owner ELSE claim[i]) \in Owners
        BY <3>1, <4>1
      <4> QED
        BY <3>3, <4>2 DEF Attempt, AttemptStatuses, TicketStatuses
    <3> HIDE DEF a
    <3>5. /\ Number(i) \in Nat \ {0} /\ Len(attempts'[i]) = Number(i)
          /\ attempts'[i][Number(i)] = a
          /\ \A n \in 1..(Number(i) - 1) : attempts'[i][n] = attempts[i][n]
          /\ \A j \in Items \ {i} : attempts'[j] = attempts[j]
      BY <1>1, <3>1, <3>2, <3>4, WithCurrentShape DEF TypeOK
    <3>6. Number(i)' = Number(i) /\ attempts'[i] # <<>> /\ Current(i)' = a
          /\ claim'[i] = NoOne
      BY <1>1, <3>2, <3>5, EmptySeq DEF Number, Current, TypeOK
    <3>7. \A n \in 1..Number(i) :
            /\ attempts'[i][n].auth = attempts[i][n].auth
            /\ attempts'[i][n].findings = attempts[i][n].findings
            /\ attempts'[i][n].retiredBy =
                 IF n = Number(i) THEN h ELSE attempts[i][n].retiredBy
      <4>1. \A n \in 1..Number(i) : n = Number(i) \/ n \in 1..(Number(i) - 1)
        BY <3>5
      <4> QED
        BY <3>4, <3>5, <4>1 DEF Current
    <3>8. PhaseInv(i)' /\ RunningInv(i)'
      BY <1>2, <3>2, <3>6 DEF PhaseInv, RunningInv, LegacyStatuses
    <3>9. HistoryInv(i)'
      <4>1. \A n \in 1..Number(i) : attempts'[i][n].retiredBy # NoOne
        BY <1>1, <3>7 DEF ItemInv, HistoryInv
      <4> QED
        BY <1>2, <3>6, <4>1 DEF HistoryInv, AttemptStatuses
    <3>10. LedgerInv(i)'
      <4>1. \A n \in 1..Number(i) : n > 1 => n - 1 \in 1..Number(i)
        BY <3>5
      <4>2. \A n \in 1..Number(i) :
              /\ attempts'[i][n].auth \in 1..granted[i]
              /\ n > 1 => attempts'[i][n - 1].auth < attempts'[i][n].auth
        BY <1>1, <3>7, <4>1 DEF ItemInv, LedgerInv
      <4>3. a.auth \in 1..granted[i]
        BY <3>5, <4>2
      <4>4. \A n \in 1..Number(i) : attempts'[i][n].auth \in 1..granted'[i]
        BY <1>2, <4>2
      <4> QED
        BY <1>2, <3>6, <4>2, <4>3, <4>4 DEF LedgerInv
    <3>11. FindingsInv(i)'
      <4>1. requested'[i] = {Number(i)}
        BY <1>1, <1>2, <2>2 DEF ItemInv, FindingsInv
      <4>2. \A n \in 2..Number(i) : attempts'[i][n].findings \in {{n - 1}, {n}}
        BY <1>1, <3>5, <3>7 DEF ItemInv, FindingsInv
      <4> QED
        BY <1>2, <3>6, <4>1, <4>2 DEF FindingsInv
    <3>12. \A j \in Items \ {i} : SameItem(j)
      BY <1>1, <3>2, <3>5 DEF AuthorizeWorkItem, SameItem, TypeOK, workVars
    <3> QED
      BY <3>8, <3>9, <3>10, <3>11, <3>12 DEF ItemInv
  <2> QED
    BY <2>1, <2>2 DEF AuthorizeWorkItem
<1> QED
  BY <1>3, SameItemInv DEF QueueInv

\* A revoked authorization is gone.
LEMMA RevokeInv ==
  ASSUME QueueInv, NEW i \in Items, RevokeWorkItemAuthorization(i)
  PROVE  \A j \in Items : ItemInv(j)'
<1>1. ItemInv(i) /\ TypeOK
  BY DEF QueueInv
<1>2. /\ status'[i] = "backlog" /\ auth'[i] = 0 /\ claim[i] = NoOne
      /\ UNCHANGED <<granted, claim, attempts, requested, delegation>>
      /\ Number(i)' = Number(i) /\ Current(i)' = Current(i) /\ granted[i] \in Nat
  BY <1>1 DEF RevokeWorkItemAuthorization, TypeOK, workVars, Number, Current
<1>3. ItemInv(i)'
  BY <1>1, <1>2 DEF ItemInv, PhaseInv, HistoryInv, LedgerInv, FindingsInv, RunningInv,
     LegacyStatuses, AttemptStatuses
<1>4. \A j \in Items \ {i} : SameItem(j)
  BY <1>1, <1>2 DEF RevokeWorkItemAuthorization, SameItem, TypeOK
<1> QED
  BY <1>3, <1>4, SameItemInv DEF QueueInv

\* A claim spends the authorization it finds, and opens an attempt with the findings.
LEMMA ClaimInv ==
  ASSUME QueueInv, TypeOK', NEW i \in Items, NEW o \in Owners, ClaimWorkItem(i, o)
  PROVE  \A j \in Items : ItemInv(j)'
<1> DEFINE a == [auth |-> auth[i], owner |-> o, findings |-> requested[i],
                 status |-> "in_progress", retiredBy |-> NoOne]
<1>1. ItemInv(i) /\ TypeOK /\ o # NoOne
  BY ConstantsAssumption DEF QueueInv
<1>2. /\ status[i] = "ready" /\ auth[i] # 0 /\ claim[i] = NoOne
      /\ status'[i] = "in_progress" /\ claim'[i] = o
      /\ UNCHANGED <<auth, granted, requested, delegation>>
      /\ auth[i] \in Nat /\ granted[i] \in Nat
  BY <1>1 DEF ClaimWorkItem, TypeOK, workVars
<1>3. a \in Attempt /\ attempts' = Appended(i, a)
  BY <1>1 DEF ClaimWorkItem, Appended, TypeOK, Attempt, AttemptStatuses, TicketStatuses
<1>fields. /\ a.auth = auth[i] /\ a.owner = o /\ a.findings = requested[i]
      /\ a.status = "in_progress" /\ a.retiredBy = NoOne
      /\ attempts \in [Items -> Seq(Attempt)]
  BY <1>1 DEF TypeOK
<1> HIDE DEF a
<1>4. /\ Number(i) \in Nat /\ Number(i)' = Number(i) + 1 /\ Current(i)' = a
      /\ attempts'[i] # <<>> /\ attempts'[i][Number(i) + 1] = a
      /\ \A n \in 1..Number(i) : attempts'[i][n] = attempts[i][n]
      /\ \A j \in Items \ {i} : attempts'[j] = attempts[j]
  <2>1. /\ Number(i) \in Nat /\ Len(attempts'[i]) = Number(i) + 1
        /\ attempts'[i][Number(i) + 1] = a
        /\ \A n \in 1..Number(i) : attempts'[i][n] = attempts[i][n]
        /\ \A j \in Items \ {i} : attempts'[j] = attempts[j]
    BY <1>3, <1>fields, AppendedShape
  <2>2. Number(i)' = Number(i) + 1
    BY <2>1 DEF Number
  <2>3. attempts'[i] # <<>>
    <3>1. Len(<<>>) = 0
      OBVIOUS
    <3>2. Len(attempts'[i]) # 0
      BY <2>1
    <3> QED
      BY <3>1, <3>2
  <2> QED
    BY <2>1, <2>2, <2>3 DEF Current
<1>5. \A n \in 1..(Number(i) + 1) : n = Number(i) + 1 \/ n \in 1..Number(i)
  BY <1>4
<1>6. PhaseInv(i)' /\ RunningInv(i)'
  BY <1>1, <1>2 DEF ItemInv, PhaseInv, RunningInv, LegacyStatuses
<1>7. HistoryInv(i)'
  <2>1. \A n \in 1..Number(i) : attempts'[i][n].retiredBy # NoOne
    BY <1>1, <1>2, <1>4 DEF ItemInv, HistoryInv
  <2>2. \A n \in 1..(Number(i) + 1) :
          attempts'[i][n].retiredBy = NoOne <=> n = Number(i) + 1
    BY <1>4, <1>5, <1>fields, <2>1
  <2> QED
    BY <1>1, <1>2, <1>4, <1>fields, <2>2 DEF HistoryInv
<1>8. LedgerInv(i)'
  <2>1. auth[i] \in 1..granted[i]
    BY <1>1, <1>2 DEF ItemInv, LedgerInv
  <2>2. Number(i) >= 1 => attempts[i][Number(i)].auth < auth[i]
    <3>1. Number(i) >= 1 => attempts[i] # <<>>
      BY EmptySeq DEF Number
    <3> QED
      BY <1>1, <1>2, <3>1 DEF ItemInv, LedgerInv, Current
  <2>3. ASSUME NEW n \in 1..(Number(i) + 1)
        PROVE  /\ attempts'[i][n].auth \in 1..granted[i]
               /\ n > 1 => attempts'[i][n - 1].auth < attempts'[i][n].auth
    <3>1. CASE n = Number(i) + 1
      <4>1. n > 1 => n - 1 = Number(i) /\ Number(i) \in 1..Number(i)
        BY <1>4, <3>1
      <4> QED
        BY <1>4, <1>fields, <2>1, <2>2, <3>1, <4>1
    <3>2. CASE n \in 1..Number(i)
      <4>1. n > 1 => n - 1 \in 1..Number(i)
        BY <1>4, <3>2
      <4> QED
        BY <1>1, <1>4, <3>2, <4>1 DEF ItemInv, LedgerInv
    <3> QED
      BY <1>5, <3>1, <3>2
  <2> QED
    BY <1>1, <1>2, <1>4, <1>fields, <2>1, <2>3 DEF ItemInv, LedgerInv
<1>9. FindingsInv(i)'
  <2>1. ASSUME NEW n \in 2..(Number(i) + 1)
        PROVE  attempts'[i][n].findings \in {{n - 1}, {n}}
    <3>1. CASE n = Number(i) + 1
      <4>1. attempts[i] # <<>>
        BY <1>4, <3>1, EmptySeq DEF Number
      <4>2. requested[i] = {Number(i)}
        BY <1>1, <1>2, <4>1 DEF ItemInv, FindingsInv
      <4> QED
        BY <1>4, <1>fields, <3>1, <4>2
    <3>2. CASE n \in 2..Number(i)
      <4>1. n \in 1..Number(i)
        BY <3>2
      <4> QED
        BY <1>1, <1>4, <3>2, <4>1 DEF ItemInv, FindingsInv
    <3> QED
      BY <1>4, <3>1, <3>2
  <2>2. requested[i] \in {{}, {Number(i)}}
    BY <1>1, <1>2 DEF ItemInv, FindingsInv
  <2>3. requested'[i] \in {{}, {Number(i)' - 1}, {Number(i)'}}
    BY <1>2, <1>4, <2>2
  <2> QED
    BY <1>1, <1>2, <1>4, <2>1, <2>3 DEF FindingsInv
<1>10. \A j \in Items \ {i} : SameItem(j)
  BY <1>1, <1>4 DEF ClaimWorkItem, SameItem, TypeOK, workVars
<1> QED
  BY <1>6, <1>7, <1>8, <1>9, <1>10, SameItemInv DEF ItemInv, QueueInv

\* A delegation starts for the owner of the claim, and ends without moving it.
LEMMA DelegationInv ==
  ASSUME QueueInv, TypeOK', NEW i \in Items,
         \/ \E o \in Owners : StartWorkItemDelegation(i, o)
         \/ \E thread, outcome : outcome # "running" /\ EndWorkItemDelegation(i, thread, outcome)
  PROVE  \A j \in Items : ItemInv(j)'
<1>1. ItemInv(i) /\ TypeOK
  BY DEF QueueInv
<1>2. /\ UNCHANGED <<status, auth, granted, attempts, requested>>
      /\ claim' = claim
      /\ delegation'[i].status = "running" => delegation'[i].owner = claim[i] /\ claim[i] # NoOne
      /\ \A j \in Items \ {i} : delegation'[j] = delegation[j]
  <2>1. CASE \E o \in Owners : StartWorkItemDelegation(i, o)
    <3>1. PICK o \in Owners : StartWorkItemDelegation(i, o)
      BY <2>1
    <3>2. claim[i] = o /\ o # NoOne
      BY <1>1, <3>1, ConstantsAssumption
         DEF StartWorkItemDelegation, MayDelegate, ItemInv, PhaseInv
    <3>3. claim' = claim
      BY <1>1, <3>1, <3>2 DEF StartWorkItemDelegation, TypeOK
    <3> QED
      BY <1>1, <3>1, <3>2, <3>3 DEF StartWorkItemDelegation, TypeOK, Delegation
  <2>2. CASE \E thread, outcome :
               outcome # "running" /\ EndWorkItemDelegation(i, thread, outcome)
    <3>1. PICK thread, outcome :
            outcome # "running" /\ EndWorkItemDelegation(i, thread, outcome)
      BY <2>2
    <3>2. delegation' = [delegation EXCEPT ![i].status = outcome]
      BY <3>1 DEF EndWorkItemDelegation
    <3>3. delegation'[i].status = outcome
      BY <1>1, <3>2 DEF TypeOK, Delegation
    <3> QED
      BY <1>1, <3>1, <3>2, <3>3 DEF EndWorkItemDelegation, TypeOK
  <2> QED
    BY <2>1, <2>2
<1>3. Number(i)' = Number(i) /\ Current(i)' = Current(i)
  BY <1>2 DEF Number, Current
<1>4. ItemInv(i)'
  BY <1>1, <1>2, <1>3 DEF ItemInv, PhaseInv, HistoryInv, LedgerInv, FindingsInv, RunningInv
<1>5. \A j \in Items \ {i} : SameItem(j)
  BY <1>2 DEF SameItem
<1> QED
  BY <1>4, <1>5, SameItemInv DEF QueueInv

\* A system transition moves an item with its attempt.
LEMMA SystemInv ==
  ASSUME QueueInv, TypeOK', NEW i \in Items, NEW t \in SystemTriggers,
         NEW to \in TicketStatuses, TransitionSystemWorkItem(i, t, to)
  PROVE  QueueInv'
<1>1. TypeOK /\ to \in AttemptStatuses
  BY TransitionType DEF QueueInv
<1>2. status[i] \notin {"absent", "backlog"}
  BY DEF TransitionSystemWorkItem, LegalSystemEdge, ExecutionEdge, RetryEdge
<1>3. /\ FindingsAfter(i, to) \in {{}, {Number(i)}, requested[i]}
      /\ to = "changes_requested" => FindingsAfter(i, to) = {Number(i)}
      /\ to = "blocked" => FindingsAfter(i, to) = requested[i]
  BY DEF FindingsAfter
<1>4. claim[i] = NoOne => to = "blocked"
  BY DEF TransitionSystemWorkItem
<1>5. /\ status' = [status EXCEPT ![i] = to]
      /\ attempts' = Tracked(i, to, FindingsAfter(i, to))
      /\ requested' = [requested EXCEPT ![i] = FindingsAfter(i, to)]
      /\ UNCHANGED <<auth, granted, claim, delegation>>
  BY DEF TransitionSystemWorkItem, workVars
<1> QED
  BY <1>1, <1>2, <1>3, <1>4, <1>5, FindingsType, MoveInv

\* A review of the product path moves an item with its attempt.
LEMMA ReviewInv ==
  ASSUME QueueInv, TypeOK', NEW i \in Items, NEW reviewer \in Owners \cup {Verifier},
         NEW outcome \in {"accepted", "changes_requested", "blocked"},
         RecordReview(i, reviewer, outcome)
  PROVE  QueueInv'
<1> DEFINE to == ReviewStatus(i, outcome)
           findings == IF outcome = "accepted" THEN {} ELSE {Number(i)}
<1>1. TypeOK /\ ItemInv(i)
  BY DEF QueueInv
<1>2. status[i] = "proving" /\ claim[i] # NoOne
  BY <1>1 DEF RecordReview, ItemInv, PhaseInv, LegacyStatuses
<1>3. Number(i) \in Nat
  BY <1>1, LenProperties DEF Number, TypeOK
<1>4. /\ to \in AttemptStatuses
      /\ to = "changes_requested" => findings = {Number(i)}
      /\ findings \in {{}, {Number(i)}, requested[i]} /\ findings \in SUBSET Nat
  BY <1>2, <1>3 DEF ReviewStatus, AttemptStatuses, TicketStatuses
<1>5. /\ status' = [status EXCEPT ![i] = to]
      /\ attempts' = Tracked(i, to, findings)
      /\ requested' = [requested EXCEPT ![i] = findings]
      /\ UNCHANGED <<auth, granted, claim, delegation>>
  BY <1>2 DEF RecordReview
<1> HIDE DEF to, findings
<1> QED
  BY <1>2, <1>4, <1>5, MoveInv

\* Every call keeps the invariant, unless a caller uses the compatibility trigger.
LEMMA QueueStep ==
  ASSUME "legacy" \notin Triggers, QueueInv, Next
  PROVE  QueueInv'
<1>1. TypeOK /\ TypeOK'
  BY NextType DEF QueueInv
<1>2. CASE \E graph \in Graphs : PersistWorkGraph(graph)
  <2>1. PICK graph \in Graphs : PersistWorkGraph(graph)
    BY <1>2
  <2>2. PICK i : i \in DOMAIN graph
    BY <2>1 DEF PersistWorkGraph, ValidGraph
  <2>3. i \in Items
    BY <2>2, ConstantsAssumption
  <2> QED
    BY <1>1, <2>1, <2>3, EntryInv DEF QueueInv
<1>3. ASSUME NEW i \in Items, Operate(i) PROVE QueueInv'
  <2>1. CASE \E g \in Graphs, s \in {"backlog", "ready"} : i \in DOMAIN g /\ AddWorkItem(i, g[i], s)
    BY <1>1, <2>1, EntryInv DEF QueueInv
  <2>2. CASE \E h \in Humans : AuthorizeWorkItem(i, h)
    BY <1>1, <2>2, AuthorizeInv DEF QueueInv
  <2>3. CASE RevokeWorkItemAuthorization(i)
    BY <1>1, <2>3, RevokeInv DEF QueueInv
  <2>4. CASE \E o \in Owners : ClaimWorkItem(i, o)
    BY <1>1, <2>4, ClaimInv DEF QueueInv
  <2>5. CASE \E t \in SystemTriggers, to \in TicketStatuses : TransitionSystemWorkItem(i, t, to)
    BY <1>1, <2>5, SystemInv
  <2>6. CASE \E to \in TicketStatuses \cup LegacyStatuses : TransitionWorkItem(i, to)
    BY <2>6 DEF TransitionWorkItem
  <2>7. CASE \/ \E o \in Owners : StartWorkItemDelegation(i, o)
             \/ \E thread \in 1..MaxDelegations[i], outcome \in {"completed", "failed"} :
                  EndWorkItemDelegation(i, thread, outcome)
    BY <1>1, <2>7, DelegationInv DEF QueueInv
  <2>8. CASE \E thread \in 0..MaxDelegations[i], done \in BOOLEAN : RecordHandoff(i, thread, done)
    <3>1. \A j \in Items : SameItem(j)
      BY <2>8 DEF RecordHandoff, SameItem
    <3> QED
      BY <1>1, <3>1, SameItemInv DEF QueueInv
  <2>9. CASE \E reviewer \in Owners \cup {Verifier},
               outcome \in {"accepted", "changes_requested", "blocked"} :
              RecordReview(i, reviewer, outcome)
    BY <1>1, <2>9, ReviewInv
  <2> QED
    BY <1>3, <2>1, <2>2, <2>3, <2>4, <2>5, <2>6, <2>7, <2>8, <2>9 DEF Operate, Handle, Judge
<1> QED
  BY <1>2, <1>3 DEF Next

\* An empty mission satisfies the invariant.
LEMMA InitQueue ==
  ASSUME Init
  PROVE  QueueInv
<1>1. TypeOK
  BY InitType
<1>2. ASSUME NEW i \in Items PROVE ItemInv(i)
  <2>1. /\ status[i] = "absent" /\ auth[i] = 0 /\ granted[i] = 0 /\ claim[i] = NoOne
        /\ attempts[i] = <<>> /\ requested[i] = {} /\ delegation[i].status = "none"
    BY DEF Init
  <2>2. Number(i) = 0 /\ 1..0 = {} /\ 2..0 = {}
    BY <2>1, EmptySeq DEF Number
  <2>3. PhaseInv(i) /\ RunningInv(i)
    BY <2>1 DEF PhaseInv, RunningInv, LegacyStatuses
  <2>4. HistoryInv(i) /\ LedgerInv(i) /\ FindingsInv(i)
    BY <2>1, <2>2 DEF HistoryInv, LedgerInv, FindingsInv
  <2> QED
    BY <2>3, <2>4 DEF ItemInv
<1> QED
  BY <1>1, <1>2 DEF QueueInv

\* A step that changes nothing keeps the invariant.
LEMMA QueueStuttering ==
  ASSUME "legacy" \notin Triggers, QueueInv, [Next]_vars
  PROVE  QueueInv'
<1>1. CASE UNCHANGED vars
  <2>1. TypeOK'
    BY <1>1 DEF QueueInv, TypeOK, vars
  <2>2. \A j \in Items : SameItem(j)
    BY <1>1 DEF SameItem, vars
  <2> QED
    BY <2>1, <2>2, SameItemInv DEF QueueInv
<1> QED
  BY <1>1, QueueStep

\* The invariant of the queue holds without the compatibility trigger.
LEMMA QueueInvariant ==
  ASSUME "legacy" \notin Triggers
  PROVE  Spec => []QueueInv
<1>1. Init => QueueInv
  BY InitQueue
<1>2. QueueInv /\ [Next]_vars => QueueInv'
  BY QueueStuttering
<1> QED
  BY <1>1, <1>2, PTL DEF Spec

\* Every attempt of a ticket spends a human authorization of its own.
THEOREM FreshAuthorization ==
  ASSUME "legacy" \notin Triggers
  PROVE  Spec => []FreshAuthorizationPerAttempt
<1>1. QueueInv => FreshAuthorizationPerAttempt
  BY DEF QueueInv, ItemInv, LedgerInv, FreshAuthorizationPerAttempt
<1> QED
  BY <1>1, QueueInvariant, PTL

\* At most the last attempt is open, and exactly while its claim is held.
THEOREM AtMostOneOpenAttempt ==
  ASSUME "legacy" \notin Triggers
  PROVE  Spec => []OneOpenAttempt
<1>1. QueueInv => OneOpenAttempt
  BY DEF QueueInv, ItemInv, HistoryInv, OneOpenAttempt
<1> QED
  BY <1>1, QueueInvariant, PTL

\* A delegation runs only for the owner of the claim.
THEOREM DelegationUnderClaim ==
  ASSUME "legacy" \notin Triggers
  PROVE  Spec => []RunningDelegationHoldsClaim
<1>1. QueueInv => RunningDelegationHoldsClaim
  BY DEF QueueInv, ItemInv, RunningInv, RunningDelegationHoldsClaim
<1> QED
  BY <1>1, QueueInvariant, PTL

\* A rework attempt keeps the findings that ordered it until it raises its own.
THEOREM ReworkKeepsFindings ==
  ASSUME "legacy" \notin Triggers
  PROVE  Spec => []ReworkCarriesFindings
<1>1. QueueInv => ReworkCarriesFindings
  BY DEF QueueInv, ItemInv, FindingsInv, ReworkCarriesFindings
<1> QED
  BY <1>1, QueueInvariant, PTL

-----------------------------------------------------------------------------
(* What a call may never do to a ticket: these need no restriction of the   *)
(* triggers.                                                                *)

\* h keeps every attempt of item j but the last.
Keeps(h, j) ==
  /\ Number(j) <= Len(h[j])
  /\ \A n \in 1..(Number(j) - 1) : h[j][n] = attempts[j][n]

\* The history as it is keeps itself.
LEMMA KeepsItself ==
  ASSUME TypeOK, NEW j \in Items
  PROVE  Keeps(attempts, j)
BY LenProperties DEF TypeOK, Keeps, Number

\* Moving the last attempt keeps the others.
LEMMA TrackedKeeps ==
  ASSUME TypeOK, NEW i \in Items, NEW to \in AttemptStatuses, NEW findings \in SUBSET Nat,
         NEW j \in Items
  PROVE  Keeps(Tracked(i, to, findings), j)
<1>1. CASE attempts[i] = <<>>
  BY <1>1, KeepsItself DEF Tracked
<1>2. CASE attempts[i] # <<>>
  <2> DEFINE a == [Current(i) EXCEPT !.status = to,
                                     !.findings = IF findings = {} THEN @ ELSE findings]
  <2>1. Current(i) \in Attempt
    BY <1>2, ElementOfSeq, EmptySeq, LenProperties DEF TypeOK, Current, Number
  <2>2. a \in Attempt
    BY <2>1 DEF Attempt
  <2>3. Tracked(i, to, findings) = WithCurrent(i, a)
    BY <1>2 DEF Tracked
  <2> HIDE DEF a
  <2>4. CASE i = j
    BY <1>2, <2>2, <2>3, <2>4, WithCurrentShape DEF TypeOK, Keeps
  <2>5. CASE i # j
    <3>1. Tracked(i, to, findings)[j] = attempts[j]
      BY <1>2, <2>2, <2>3, <2>5, WithCurrentShape DEF TypeOK
    <3> QED
      BY <3>1, KeepsItself DEF Keeps
  <2> QED
    BY <2>4, <2>5
<1> QED
  BY <1>1, <1>2

\* Retiring the last attempt, or rebuilding the one before attempts were recorded,
\* keeps the others.
LEMMA RetiredKeeps ==
  ASSUME TypeOK, NEW i \in Items, NEW h \in Humans, NEW j \in Items
  PROVE  Keeps(RetiredHistory(i, h), j)
<1>1. CASE attempts[i] # <<>>
  <2> DEFINE a == [Current(i) EXCEPT
         !.owner = IF claim[i] = NoOne THEN @ ELSE claim[i],
         !.status = "changes_requested", !.retiredBy = h]
  <2>1. Current(i) \in Attempt /\ claim[i] \in Owners \cup {NoOne}
    BY <1>1, ElementOfSeq, EmptySeq, LenProperties DEF TypeOK, Current, Number
  <2>2. (IF claim[i] = NoOne THEN Current(i).owner ELSE claim[i]) \in Owners
    BY <2>1 DEF Attempt
  <2>3. a \in Attempt
    BY <2>1, <2>2 DEF Attempt, AttemptStatuses, TicketStatuses
  <2>4. RetiredHistory(i, h) = WithCurrent(i, a)
    BY <1>1 DEF RetiredHistory
  <2> HIDE DEF a
  <2>5. CASE i = j
    BY <1>1, <2>3, <2>4, <2>5, WithCurrentShape DEF TypeOK, Keeps
  <2>6. CASE i # j
    <3>1. RetiredHistory(i, h)[j] = attempts[j]
      BY <1>1, <2>3, <2>4, <2>6, WithCurrentShape DEF TypeOK
    <3> QED
      BY <3>1, KeepsItself DEF Keeps
  <2> QED
    BY <2>5, <2>6
<1>2. CASE attempts[i] = <<>> /\ claim[i] = NoOne
  BY <1>2, KeepsItself DEF RetiredHistory
<1>3. CASE attempts[i] = <<>> /\ claim[i] # NoOne
  <2> DEFINE a == [auth |-> auth[i], owner |-> claim[i], findings |-> requested[i],
                   status |-> "changes_requested", retiredBy |-> h]
  <2>1. RetiredHistory(i, h) = [attempts EXCEPT ![i] = <<a>>]
    BY <1>3 DEF RetiredHistory
  <2>2. CASE i = j
    <3>1. Number(j) = 0
      BY <1>3, <2>2, EmptySeq DEF Number
    <3>2. RetiredHistory(i, h)[j] = <<a>>
      BY <2>1, <2>2 DEF TypeOK
    <3>3. Len(<<a>>) \in Nat
      OBVIOUS
    <3> QED
      BY <3>1, <3>2, <3>3 DEF Keeps
  <2>3. CASE i # j
    <3>1. RetiredHistory(i, h)[j] = attempts[j]
      BY <2>1, <2>3 DEF TypeOK
    <3> QED
      BY <3>1, KeepsItself DEF Keeps
  <2> QED
    BY <2>2, <2>3
<1> QED
  BY <1>1, <1>2, <1>3

\* A claim keeps every attempt.
LEMMA ClaimKeeps ==
  ASSUME TypeOK, NEW i \in Items, NEW o \in Owners, ClaimWorkItem(i, o), NEW j \in Items
  PROVE  Keeps(attempts', j)
<1> DEFINE a == [auth |-> auth[i], owner |-> o, findings |-> requested[i],
                 status |-> "in_progress", retiredBy |-> NoOne]
<1>1. a \in Attempt
  BY DEF TypeOK, Attempt, AttemptStatuses, TicketStatuses
<1>2. attempts' = Appended(i, a)
  BY DEF ClaimWorkItem, Appended
<1> HIDE DEF a
<1>3. CASE i = j
  <2>1. /\ Number(j) \in Nat /\ Len(attempts'[j]) = Number(j) + 1
        /\ \A n \in 1..Number(j) : attempts'[j][n] = attempts[j][n]
    BY <1>1, <1>2, <1>3, AppendedShape DEF TypeOK
  <2> QED
    BY <2>1 DEF Keeps
<1>4. CASE i # j
  <2>1. attempts'[j] = attempts[j]
    BY <1>1, <1>2, <1>4, AppendedShape DEF TypeOK
  <2> QED
    BY <2>1, KeepsItself DEF Keeps
<1> QED
  BY <1>3, <1>4

\* Planning the graph again touches no progress.
LEMMA PlanningKeeps ==
  ASSUME NEW graph, PersistWorkGraph(graph)
  PROVE  /\ UNCHANGED <<claim, attempts, handoff, review>>
         /\ \A j \in Items : status[j] # "absent" => status'[j] = status[j]
BY Zenon DEF PersistWorkGraph, workVars, Present

\* A call that rewrites no history keeps it; the four that do keep all but the last.
LEMMA NextKeeps ==
  ASSUME TypeOK, Next, NEW j \in Items
  PROVE  Keeps(attempts', j)
<1>1. CASE attempts' = attempts
  BY <1>1, KeepsItself
<1>2. CASE \E graph \in Graphs : PersistWorkGraph(graph)
  BY <1>1, <1>2, PlanningKeeps
<1>3. ASSUME NEW i \in Items, Operate(i) PROVE Keeps(attempts', j)
  <2>1. CASE \E h \in Humans : AuthorizeWorkItem(i, h)
    <3> PICK h \in Humans : AuthorizeWorkItem(i, h)
      BY <2>1
    <3>1. attempts' = attempts \/ attempts' = RetiredHistory(i, h)
      BY DEF AuthorizeWorkItem
    <3> QED
      BY <1>1, <3>1, RetiredKeeps
  <2>2. CASE \E o \in Owners : ClaimWorkItem(i, o)
    BY <2>2, ClaimKeeps
  <2>3. CASE \E t \in SystemTriggers, to \in TicketStatuses : TransitionSystemWorkItem(i, t, to)
    <3> PICK t \in SystemTriggers, to \in TicketStatuses : TransitionSystemWorkItem(i, t, to)
      BY <2>3
    <3>1. to \in AttemptStatuses /\ FindingsAfter(i, to) \in SUBSET Nat
      BY TransitionType, FindingsType
    <3>2. attempts' = Tracked(i, to, FindingsAfter(i, to))
      BY DEF TransitionSystemWorkItem
    <3> QED
      BY <3>1, <3>2, TrackedKeeps
  <2>4. CASE Judge(i)
    <3> PICK reviewer \in Owners \cup {Verifier},
             outcome \in {"accepted", "changes_requested", "blocked"} :
               RecordReview(i, reviewer, outcome)
      BY <2>4 DEF Judge
    <3> DEFINE findings == IF outcome = "accepted" THEN {} ELSE {Number(i)}
    <3>1. findings \in SUBSET Nat
      BY LenProperties DEF TypeOK, Number
    <3>2. CASE status[i] = "proving"
      <4>1. ReviewStatus(i, outcome) \in AttemptStatuses
        BY <3>2 DEF ReviewStatus, AttemptStatuses, TicketStatuses
      <4>2. attempts' = Tracked(i, ReviewStatus(i, outcome), findings)
        BY <3>2 DEF RecordReview
      <4> QED
        BY <3>1, <4>1, <4>2, TrackedKeeps
    <3>3. CASE status[i] # "proving"
      BY <1>1, <3>3 DEF RecordReview
    <3> QED
      BY <3>2, <3>3
  <2>5. CASE \/ \E g \in Graphs, s \in {"backlog", "ready"} :
                   i \in DOMAIN g /\ AddWorkItem(i, g[i], s)
             \/ RevokeWorkItemAuthorization(i)
             \/ \E to \in TicketStatuses \cup LegacyStatuses : TransitionWorkItem(i, to)
             \/ \E o \in Owners : StartWorkItemDelegation(i, o)
             \/ \E thread \in 1..MaxDelegations[i], outcome \in {"completed", "failed"} :
                  EndWorkItemDelegation(i, thread, outcome)
             \/ \E thread \in 0..MaxDelegations[i], done \in BOOLEAN :
                  RecordHandoff(i, thread, done)
    BY <1>1, <2>5 DEF AddWorkItem, RevokeWorkItemAuthorization, TransitionWorkItem,
         StartWorkItemDelegation, EndWorkItemDelegation, RecordHandoff
  <2> QED
    BY <1>3, <2>1, <2>2, <2>3, <2>4, <2>5 DEF Operate, Handle
<1> QED
  BY <1>2, <1>3 DEF Next

\* Attempts before the last are never rewritten and none is dropped, whatever triggers
\* callers use and whether or not the results are validated.
THEOREM HistoryIsAppendOnly == Spec => EarlierAttemptsFrozen
<1>1. TypeOK /\ [Next]_vars
        => [\A i \in Items :
              /\ Number(i) <= Len(attempts'[i])
              /\ \A n \in 1..(Number(i) - 1) : attempts'[i][n] = attempts[i][n]]_vars
  BY NextKeeps DEF Keeps
<1> QED
  BY <1>1, TypeCorrect, PTL DEF Spec, EarlierAttemptsFrozen

\* No call passes a claim from one owner to another.
LEMMA NextStealsNothing ==
  ASSUME TypeOK, Next, NEW j \in Items, claim[j] # NoOne, claim'[j] # claim[j]
  PROVE  claim'[j] = NoOne
<1>1. CASE \E graph \in Graphs : PersistWorkGraph(graph)
  BY <1>1, PlanningKeeps
<1>2. ASSUME NEW i \in Items, Operate(i) PROVE claim'[j] = NoOne
  <2>1. CASE \E h \in Humans : AuthorizeWorkItem(i, h)
    BY <2>1 DEF AuthorizeWorkItem, TypeOK
  <2>2. CASE \E o \in Owners : ClaimWorkItem(i, o)
    BY <2>2 DEF ClaimWorkItem, TypeOK
  <2>3. CASE \E o \in Owners : StartWorkItemDelegation(i, o)
    BY <2>3 DEF StartWorkItemDelegation, MayDelegate, TypeOK
  <2>4. CASE Judge(i)
    BY <2>4 DEF Judge, RecordReview, TypeOK
  <2>5. CASE \/ \E g \in Graphs, s \in {"backlog", "ready"} :
                   i \in DOMAIN g /\ AddWorkItem(i, g[i], s)
             \/ RevokeWorkItemAuthorization(i)
             \/ \E t \in SystemTriggers, to \in TicketStatuses :
                  TransitionSystemWorkItem(i, t, to)
             \/ \E to \in TicketStatuses \cup LegacyStatuses : TransitionWorkItem(i, to)
             \/ \E thread \in 1..MaxDelegations[i], outcome \in {"completed", "failed"} :
                  EndWorkItemDelegation(i, thread, outcome)
             \/ \E thread \in 0..MaxDelegations[i], done \in BOOLEAN :
                  RecordHandoff(i, thread, done)
    BY <2>5 DEF AddWorkItem, RevokeWorkItemAuthorization, TransitionSystemWorkItem,
         TransitionWorkItem, EndWorkItemDelegation, RecordHandoff
  <2> QED
    BY <1>2, <2>1, <2>2, <2>3, <2>4, <2>5 DEF Operate, Handle
<1> QED
  BY <1>1, <1>2 DEF Next

\* A claim passes to another owner only after it was given up, whatever triggers
\* callers use and whether or not the results are validated.
THEOREM ClaimsAreGivenUp == Spec => ClaimNeverStolen
<1>1. TypeOK /\ [Next]_vars
        => [\A i \in Items :
              claim[i] # NoOne /\ claim'[i] # claim[i] => claim'[i] = NoOne]_vars
  BY NextStealsNothing
<1> QED
  BY <1>1, TypeCorrect, PTL DEF Spec, ClaimNeverStolen

-----------------------------------------------------------------------------
(* Completion.                                                              *)

\* A review is of a handoff that was recorded.
ReviewedInv == \A i \in Items : review[i].handoff <= handoff[i].id

\* No call reviews a handoff that was not recorded.
LEMMA NextReviewed ==
  ASSUME TypeOK, TypeOK', ReviewedInv, Next
  PROVE  ReviewedInv'
<1> SUFFICES ASSUME NEW j \in Items PROVE review'[j].handoff <= handoff'[j].id
  BY DEF ReviewedInv
<1>1. review[j].handoff <= handoff[j].id
  BY DEF ReviewedInv
<1>2. review[j].handoff \in Nat /\ handoff[j].id \in Nat
  BY DEF TypeOK, Review, Handoff
<1>3. CASE UNCHANGED <<handoff, review>>
  BY <1>1, <1>3
<1>4. CASE \E graph \in Graphs : PersistWorkGraph(graph)
  BY <1>3, <1>4, PlanningKeeps
<1>5. ASSUME NEW i \in Items, Operate(i) PROVE review'[j].handoff <= handoff'[j].id
  <2>1. CASE \E thread \in 0..MaxDelegations[i], done \in BOOLEAN : RecordHandoff(i, thread, done)
    <3>1. review' = review /\ handoff'[j].id \in {handoff[j].id, handoff[j].id + 1}
      BY <2>1 DEF RecordHandoff, TypeOK, Handoff
    <3> QED
      BY <1>1, <1>2, <3>1
  <2>2. CASE Judge(i)
    <3>1. handoff' = handoff /\ review'[j].handoff \in {review[j].handoff, handoff[j].id}
      BY <2>2 DEF Judge, RecordReview, TypeOK, Review
    <3> QED
      BY <1>1, <1>2, <3>1
  <2>3. CASE \/ \E g \in Graphs, s \in {"backlog", "ready"} :
                   i \in DOMAIN g /\ AddWorkItem(i, g[i], s)
             \/ \E h \in Humans : AuthorizeWorkItem(i, h)
             \/ RevokeWorkItemAuthorization(i)
             \/ \E o \in Owners : ClaimWorkItem(i, o)
             \/ \E t \in SystemTriggers, to \in TicketStatuses :
                  TransitionSystemWorkItem(i, t, to)
             \/ \E to \in TicketStatuses \cup LegacyStatuses : TransitionWorkItem(i, to)
             \/ \E o \in Owners : StartWorkItemDelegation(i, o)
             \/ \E thread \in 1..MaxDelegations[i], outcome \in {"completed", "failed"} :
                  EndWorkItemDelegation(i, thread, outcome)
    BY <1>3, <2>3 DEF AddWorkItem, AuthorizeWorkItem, RevokeWorkItemAuthorization,
         ClaimWorkItem, TransitionSystemWorkItem, TransitionWorkItem,
         StartWorkItemDelegation, EndWorkItemDelegation, workVars
  <2> QED
    BY <1>5, <2>1, <2>2, <2>3 DEF Operate, Handle
<1> QED
  BY <1>4, <1>5 DEF Next

\* Whatever calls are made, only recorded handoffs are reviewed.
LEMMA ReviewedInvariant == Spec => []ReviewedInv
<1>1. Init => ReviewedInv
  <2> SUFFICES ASSUME Init, NEW i \in Items PROVE review[i].handoff <= handoff[i].id
    BY DEF ReviewedInv
  <2>1. review[i].handoff = 0 /\ handoff[i].id = 0
    BY DEF Init
  <2> QED
    BY <2>1
<1>2. TypeOK /\ TypeOK' /\ ReviewedInv /\ [Next]_vars => ReviewedInv'
  <2>1. TypeOK /\ ReviewedInv /\ UNCHANGED vars => ReviewedInv'
    BY DEF ReviewedInv, vars
  <2> QED
    BY <2>1, NextReviewed
<1> QED
  BY <1>1, <1>2, TypeCorrect, PTL DEF Spec

\* A handoff recorded after the review that completed the item would leave it
\* completed without its review: validation refuses to save it.
LEMMA NoHandoffOfCompleted ==
  ASSUME Validated = TRUE, TypeOK, TypeOK', ReviewedInv,
         NEW i \in Items, NEW thread, NEW done, RecordHandoff(i, thread, done)
  PROVE  ~(Completed(status[i]) /\ Structured(i))
<1> SUFFICES ASSUME Completed(status[i]), Structured(i) PROVE FALSE
  OBVIOUS
<1>1. ValidReview(i)'
  BY DEF RecordHandoff, Saved, Valid
<1>2. Structured(i)' /\ Completed(status[i])'
  BY DEF RecordHandoff, Structured, Implementer, Completed
<1>3. AcceptedReview(i)'
  BY <1>1, <1>2 DEF ValidReview
<1>4. review[i].handoff = handoff'[i].id
  BY <1>3 DEF AcceptedReview, RecordHandoff
<1>5. handoff'[i].id = handoff[i].id + 1
  BY DEF RecordHandoff, TypeOK, Handoff
<1>6. review[i].handoff <= handoff[i].id /\ handoff[i].id \in Nat
  BY DEF ReviewedInv, TypeOK, Handoff
<1> QED
  BY <1>4, <1>5, <1>6

\* What a call leaves of a completed item: nothing moves it, its history stays, and
\* so do the handoff and the review it rests on.
LEMMA NextKeepsCompleted ==
  ASSUME Validated = TRUE, TypeOK, TypeOK', ReviewedInv, Next,
         NEW j \in Items, Completed(status[j])
  PROVE  /\ status'[j] = status[j] /\ attempts'[j] = attempts[j]
         /\ Structured(j) => handoff'[j] = handoff[j] /\ review'[j] = review[j]
<1> DEFINE Kept == /\ status'[j] = status[j] /\ attempts'[j] = attempts[j]
                   /\ Structured(j) => handoff'[j] = handoff[j] /\ review'[j] = review[j]
           Same == /\ status'[j] = status[j] /\ attempts'[j] = attempts[j]
                   /\ handoff'[j] = handoff[j] /\ review'[j] = review[j]
<1> SUFFICES Kept
  OBVIOUS
<1>1. status[j] \in {"done", "complete"}
  BY DEF Completed
<1>2. CASE \E graph \in Graphs : PersistWorkGraph(graph)
  BY <1>1, <1>2, PlanningKeeps
<1>3. ASSUME NEW i \in Items, Operate(i) PROVE Kept
  <2>1. CASE \E thread \in 0..MaxDelegations[i], done \in BOOLEAN : RecordHandoff(i, thread, done)
    <3>1. UNCHANGED <<status, attempts, review>>
      BY <2>1 DEF RecordHandoff
    <3>2. CASE i = j
      BY <2>1, <3>1, <3>2, NoHandoffOfCompleted
    <3>3. CASE i # j
      <4>1. handoff'[j] = handoff[j]
        BY <2>1, <3>3 DEF RecordHandoff, TypeOK
      <4> QED
        BY <3>1, <4>1
    <3> QED
      BY <3>2, <3>3
  <2>2. CASE Judge(i)
    <3> PICK reviewer \in Owners \cup {Verifier},
             outcome \in {"accepted", "changes_requested", "blocked"} :
               RecordReview(i, reviewer, outcome)
      BY <2>2 DEF Judge
    <3>1. i # j
      BY <1>1 DEF RecordReview
    <3>2. attempts'[j] = attempts[j]
      <4>1. CASE status[i] # "proving" \/ attempts[i] = <<>>
        BY <4>1 DEF RecordReview, Tracked
      <4>2. CASE status[i] = "proving" /\ attempts[i] # <<>>
        BY <3>1, <4>2 DEF RecordReview, Tracked, WithCurrent, TypeOK
      <4> QED
        BY <4>1, <4>2
    <3> QED
      BY <3>1, <3>2 DEF RecordReview, TypeOK
  <2>3. CASE \E t \in SystemTriggers, to \in TicketStatuses : TransitionSystemWorkItem(i, t, to)
    <3> PICK t \in SystemTriggers, to \in TicketStatuses : TransitionSystemWorkItem(i, t, to)
      BY <2>3
    <3>1. i # j
      BY <1>1 DEF TransitionSystemWorkItem, LegalSystemEdge, ExecutionEdge, RetryEdge
    <3>2. attempts'[j] = attempts[j]
      BY <3>1 DEF TransitionSystemWorkItem, Tracked, WithCurrent, TypeOK
    <3> QED
      BY <3>1, <3>2 DEF TransitionSystemWorkItem, TypeOK, workVars
  <2>4. CASE \E to \in TicketStatuses \cup LegacyStatuses : TransitionWorkItem(i, to)
    <3>1. i # j
      BY <1>1, <2>4 DEF TransitionWorkItem, LegacyEdges, TicketStatuses, LegacyStatuses
    <3> QED
      BY <2>4, <3>1 DEF TransitionWorkItem, TypeOK, workVars
  <2>5. CASE \E h \in Humans : AuthorizeWorkItem(i, h)
    <3> PICK h \in Humans : AuthorizeWorkItem(i, h)
      BY <2>5
    <3>1. i # j
      BY <1>1 DEF AuthorizeWorkItem
    <3>2. attempts'[j] = attempts[j]
      BY <3>1 DEF AuthorizeWorkItem, RetiredHistory, WithCurrent, TypeOK
    <3> QED
      BY <3>1, <3>2 DEF AuthorizeWorkItem, TypeOK, workVars
  <2>6. CASE \/ \E g \in Graphs, s \in {"backlog", "ready"} :
                   i \in DOMAIN g /\ AddWorkItem(i, g[i], s)
             \/ RevokeWorkItemAuthorization(i)
             \/ \E o \in Owners : ClaimWorkItem(i, o)
    BY <1>1, <2>6 DEF AddWorkItem, RevokeWorkItemAuthorization, ClaimWorkItem, TypeOK, workVars
  <2>7. CASE \/ \E o \in Owners : StartWorkItemDelegation(i, o)
             \/ \E thread \in 1..MaxDelegations[i], outcome \in {"completed", "failed"} :
                  EndWorkItemDelegation(i, thread, outcome)
    BY <2>7 DEF StartWorkItemDelegation, EndWorkItemDelegation
  <2> QED
    BY <1>3, <2>1, <2>2, <2>3, <2>4, <2>5, <2>6, <2>7 DEF Operate, Handle
<1> QED
  BY <1>2, <1>3 DEF Next

\* With every trigger allowed: once an item is completed no call moves it, rewrites
\* its attempts, or replaces the reviewed handoff it rests on.  That last part is the
\* work of validation, which every save goes through (Validated): recordHandoff itself
\* looks at no status.
THEOREM CompletedForGood ==
  ASSUME Validated = TRUE
  PROVE  Spec => CompletionIsFinal
<1>1. TypeOK /\ TypeOK' /\ ReviewedInv /\ [Next]_vars
        => [\A i \in Items : Completed(status[i]) =>
              /\ status'[i] = status[i] /\ attempts'[i] = attempts[i]
              /\ Structured(i) => handoff'[i] = handoff[i] /\ review'[i] = review[i]]_vars
  BY NextKeepsCompleted
<1> QED
  BY <1>1, TypeCorrect, ReviewedInvariant, PTL DEF Spec, CompletionIsFinal
=============================================================================
