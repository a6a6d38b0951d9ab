-------------------------- MODULE MissionStoreProofs --------------------------
(***************************************************************************)
(* Proofs about MissionStore, for every set of services and calls and any  *)
(* number of faults: types, the refinement to the revisioned register, and *)
(* what success, a conflict and an expected revision mean to a caller.     *)
(***************************************************************************)
EXTENDS MissionStore, SequenceTheorems, TLAPS

-----------------------------------------------------------------------------
(* Types.                                                                  *)

\* A busy service has a call, which is no other state of a load.
LEMMA BusyCall ==
  ASSUME StoreTypeOK, NEW s \in Services, phase[s] # "idle"
  PROVE  call[s] \in Calls
BY DEF StoreTypeOK

\* A call that ends leaves its service idle, whatever the save did.
LEMMA AnsweredType ==
  ASSUME StoreTypeOK, NEW s \in Services, phase[s] # "idle",
         NEW a \in Answers, Answered(s, a),
         disk' \in States, durable' \in States, cache' \in [Services -> States \cup {Unknown}],
         UNCHANGED <<syncs, seen, load>>, lost' \subseteq Calls, faults' \in 0..MaxFaults,
         \/ writer' = NoService /\ (writer = s \/ writer = NoService)
         \/ writer' = writer /\ writer # s
  PROVE  StoreTypeOK'
<1>1. call[s] \in Calls
  BY BusyCall
<1>2. /\ phase' \in [Services -> Phases] /\ next' \in [Services -> States]
      /\ call' \in [Services -> Calls \cup {NoCall}] /\ answer' \in [Calls -> Answers]
  BY <1>1, EmptySeq DEF StoreTypeOK, Answered, Phases, States
<1>3. writer' \in Services \cup {NoService}
  BY DEF StoreTypeOK
<1>4. ASSUME NEW t \in Services
      PROVE  /\ phase'[t] = "idle" <=> call'[t] = NoCall
             /\ phase'[t] \in {"writing", "syncing"} <=> writer' = t
  BY StoreAssumption DEF StoreTypeOK, Answered
<1> QED
  BY <1>2, <1>3, <1>4 DEF StoreTypeOK

\* A service goes on with its call.
LEMMA PhaseType ==
  ASSUME StoreTypeOK, NEW s \in Services, phase[s] # "idle",
         NEW p \in Phases \ {"idle"}, phase' = [phase EXCEPT ![s] = p],
         UNCHANGED <<durable, syncs, cache, call, seen, answer, load, lost, faults>>,
         disk' \in States, next' \in [Services -> States],
         \/ writer' = writer /\ (p \in {"writing", "syncing"} <=> writer = s)
         \/ writer = NoService /\ writer' = s /\ p = "writing"
  PROVE  StoreTypeOK'
<1>1. phase' \in [Services -> Phases] /\ writer' \in Services \cup {NoService}
  BY DEF StoreTypeOK
<1>2. ASSUME NEW t \in Services
      PROVE  /\ phase'[t] = "idle" <=> call'[t] = NoCall
             /\ phase'[t] \in {"writing", "syncing"} <=> writer' = t
  BY StoreAssumption DEF StoreTypeOK
<1> QED
  BY <1>1, <1>2 DEF StoreTypeOK

\* A process that starts again.
LEMMA RestartedType ==
  ASSUME StoreTypeOK, Restarted, disk' \in States, lost' \subseteq Calls
  PROVE  StoreTypeOK'
<1>1. /\ cache' \in [Services -> States \cup {Unknown}] /\ phase' \in [Services -> Phases]
      /\ call' \in [Services -> Calls \cup {NoCall}] /\ next' \in [Services -> States]
      /\ load' \in [Calls -> Load \cup {Unknown}]
  BY EmptySeq DEF Restarted, Phases, States
<1>2. answer' \in [Calls -> Answers] /\ faults' \in 0..MaxFaults
  BY StoreAssumption DEF Restarted, Answers, Fault, StoreTypeOK
<1>3. ASSUME NEW t \in Services
      PROVE  /\ phase'[t] = "idle" <=> call'[t] = NoCall
             /\ phase'[t] \in {"writing", "syncing"} <=> writer' = t
  BY StoreAssumption DEF Restarted
<1> QED
  BY <1>1, <1>2, <1>3 DEF StoreTypeOK, Restarted

\* A read of the file, and what follows from it.
LEMMA LoadType ==
  ASSUME StoreTypeOK,
         \/ \E s \in Services, c \in Calls : GetState(s, c)
         \/ \E s \in Services : EnsureState(s)
         \/ \E c \in Calls : Loaded(c)
  PROVE  StoreTypeOK'
<1>1. ASSUME NEW s \in Services, NEW c \in Calls, GetState(s, c) PROVE StoreTypeOK'
  <2>1. [service |-> s, state |-> disk] \in Load
    BY DEF Load, StoreTypeOK
  <2> QED
    BY <1>1, <2>1 DEF GetState, StoreTypeOK, fileVars
<1>2. ASSUME NEW s \in Services, EnsureState(s) PROVE StoreTypeOK'
  <2>1. [service |-> s, state |-> disk] \in Load /\ call[s] \in Calls
    BY <1>2, BusyCall DEF Load, StoreTypeOK, EnsureState
  <2> QED
    BY <1>2, <2>1 DEF EnsureState, StoreTypeOK, fileVars
<1>3. ASSUME NEW c \in Calls, Loaded(c) PROVE StoreTypeOK'
  <2>1. load[c] \in Load /\ load[c].service \in Services /\ load[c].state \in States
    BY <1>3 DEF Loaded, StoreTypeOK, Load
  <2> QED
    BY <1>3, <2>1 DEF Loaded, StoreTypeOK, fileVars
<1> QED
  BY <1>1, <1>2, <1>3

\* What a power loss leaves of the file is a state that was on it.
LEMMA UndoneState ==
  ASSUME StoreTypeOK, NEW n \in Len(durable)..Len(disk)
  PROVE  /\ n \in Nat /\ n <= Len(disk) /\ Len(disk) \in Nat
         /\ SubSeq(disk, 1, n) \in States /\ Len(SubSeq(disk, 1, n)) = n
         /\ \A k \in 1..n : SubSeq(disk, 1, n)[k] = disk[k]
         /\ {disk[k] : k \in (n + 1)..Len(disk)} \subseteq Calls
<1>1. Len(durable) \in Nat /\ Len(disk) \in Nat /\ n \in Nat /\ n <= Len(disk)
  BY LenProperties DEF StoreTypeOK, States
<1>2. \A k \in 1..Len(disk) : disk[k] \in Calls
  BY ElementOfSeq DEF StoreTypeOK, States
<1>3. /\ SubSeq(disk, 1, n) \in Seq(Calls)
      /\ Len(SubSeq(disk, 1, n)) = IF 1 <= n THEN n - 1 + 1 ELSE 0
      /\ \A k \in 1..(n - 1 + 1) : SubSeq(disk, 1, n)[k] = disk[1 + k - 1]
  BY <1>1, <1>2, SubSeqProperties
<1> QED
  BY <1>1, <1>2, <1>3 DEF States

\* Every step keeps the types.
LEMMA StoreTypeStep ==
  ASSUME StoreTypeOK, [Next]_storeVars
  PROVE  StoreTypeOK'
<1>1. CASE UNCHANGED storeVars
  BY <1>1 DEF storeVars, fileVars, StoreTypeOK
<1>2. ASSUME NEW s \in Services, NEW c \in Calls, Mutate(s, c) PROVE StoreTypeOK'
  <2>1. ASSUME NEW t \in Services
        PROVE  /\ phase'[t] = "idle" <=> call'[t] = NoCall
               /\ phase'[t] \in {"writing", "syncing"} <=> writer' = t
    BY <1>2, StoreAssumption DEF StoreTypeOK, Mutate
  <2> QED
    BY <1>2, <2>1 DEF Mutate, StoreTypeOK, fileVars, Phases, Answers
<1>3. ASSUME NEW s \in Services, RunMutator(s) PROVE StoreTypeOK'
  <2>1. Append(cache[s], call[s]) \in States /\ phase[s] = "ensuring"
    BY <1>3, BusyCall, AppendProperties DEF RunMutator, StoreTypeOK, States
  <2>2. next' \in [Services -> States]
    BY <1>3, <2>1 DEF RunMutator, StoreTypeOK
  <2> QED
    BY <1>3, <2>1, <2>2, PhaseType, StoreAssumption
       DEF RunMutator, StoreTypeOK, fileVars, Phases
<1>4. ASSUME NEW s \in Services, MutatorRefuses(s) PROVE StoreTypeOK'
  <2>1. PICK a \in {"refused", "conflict"} : Answered(s, a)
    BY <1>4 DEF MutatorRefuses
  <2> QED
    BY <1>4, <2>1, AnsweredType DEF MutatorRefuses, StoreTypeOK, fileVars, Answers
<1>5. ASSUME NEW s \in Services, Compare(s) PROVE StoreTypeOK'
  BY <1>5, PhaseType DEF Compare, StoreTypeOK, fileVars, Phases
<1>6. ASSUME NEW s \in Services, Conflict(s) PROVE StoreTypeOK'
  BY <1>6, AnsweredType DEF Conflict, StoreTypeOK, fileVars, Answers
<1>7. ASSUME NEW s \in Services, Rename(s) PROVE StoreTypeOK'
  BY <1>7, PhaseType DEF Rename, StoreTypeOK, Phases
<1>8. ASSUME NEW s \in Services, Sync(s) PROVE StoreTypeOK'
  BY <1>8, AnsweredType DEF Sync, Synced, StoreTypeOK, Released, Answers
<1>9. ASSUME NEW s \in Services, LoadFails(s) PROVE StoreTypeOK'
  BY <1>9, AnsweredType, StoreAssumption DEF LoadFails, StoreTypeOK, fileVars, Fault, Answers
<1>10. ASSUME NEW s \in Services, SaveFails(s) \/ SyncFails(s) PROVE StoreTypeOK'
  BY <1>10, AnsweredType, StoreAssumption
     DEF SaveFails, SyncFails, StoreTypeOK, fileVars, Fault, Released, FailureAnswer, Answers
<1>11. CASE Crash
  BY <1>11, RestartedType DEF Crash, StoreTypeOK
<1>12. CASE PowerLoss
  <2>1. PICK n \in Len(durable)..Len(disk) :
          /\ disk' = SubSeq(disk, 1, n)
          /\ lost' = lost \cup {disk[k] : k \in (n + 1)..Len(disk)}
    BY <1>12 DEF PowerLoss
  <2> QED
    BY <1>12, <2>1, UndoneState, RestartedType DEF PowerLoss, StoreTypeOK
<1> QED
  BY <1>1, <1>2, <1>3, <1>4, <1>5, <1>6, <1>7, <1>8, <1>9, <1>10, <1>11, <1>12, LoadType DEF Next

\* The types hold in every state.
THEOREM StoreTypeCorrect == Spec => []StoreTypeOK
<1>1. Init => StoreTypeOK
  BY EmptySeq, StoreAssumption
     DEF Init, StoreTypeOK, States, Phases, Answers
<1> QED
  BY <1>1, StoreTypeStep, PTL DEF Spec

-----------------------------------------------------------------------------
(* The file is a register.  Whatever a service read, holds or has built is *)
(* a beginning of what the file holds, so that the comparison of two       *)
(* lengths compares two states.                                            *)

Begins(p, q) == Len(p) <= Len(q) /\ \A k \in 1..Len(p) : p[k] = q[k]

\* A mutator built the state that follows a beginning of the file's.
Built(s) ==
  LET n == Len(next[s]) IN
  /\ n # 0 /\ n <= Len(disk) + 1
  /\ next[s][n] = call[s]
  /\ \A k \in 1..(n - 1) : next[s][k] = disk[k]

\* A service builds on a beginning of the file, writes on the file it compared, and syncs
\* the file that it renamed.
CallInv(s) ==
  /\ phase[s] # "idle" => /\ answer[call[s]] = "running"
                          /\ \A t \in Services : call[t] = call[s] => t = s
  /\ phase[s] \in {"queued", "writing"} => Built(s)
  /\ phase[s] = "writing" => Len(next[s]) = Len(disk) + 1
  /\ phase[s] = "syncing" => disk = next[s] /\ Len(disk) # 0 /\ disk[Len(disk)] = call[s]

\* A call on the file was acknowledged, its caller was told of an error or died, or it is
\* being synced.
AppliedInv ==
  \A k \in 1..Len(disk) :
    \/ answer[disk[k]] \in {"ok", "error", "gone"}
    \/ \E s \in Services : phase[s] = "syncing" /\ call[s] = disk[k]

\* Nothing that a service holds has left the file's history.
CopiesInv ==
  /\ \A s \in Services : cache[s] # Unknown => Begins(cache[s], disk)
  /\ \A c \in Calls : load[c] # Unknown => Begins(load[c].state, disk)

StoreInv ==
  /\ \A s \in Services : CallInv(s)
  /\ AppliedInv
  /\ CopiesInv

\* A call that ends without a sync: nothing it did changes the file.
LEMMA AnsweredInv ==
  ASSUME StoreTypeOK, StoreInv, NEW s \in Services, phase[s] # "idle",
         NEW a \in Answers, Answered(s, a),
         UNCHANGED <<disk, load>>,
         cache' = cache \/ (\E p \in States \cup {Unknown} :
                              /\ cache' = [cache EXCEPT ![s] = p]
                              /\ p # Unknown => Begins(p, disk)),
         phase[s] = "syncing" => a \in {"ok", "error", "gone"}
  PROVE  StoreInv'
<1>1. /\ call[s] \in Calls /\ answer[call[s]] = "running"
      /\ answer'[call[s]] = a /\ phase'[s] = "idle"
      /\ \A c \in Calls : c # call[s] => answer'[c] = answer[c]
      /\ \A t \in Services : t # s => /\ phase'[t] = phase[t] /\ call'[t] = call[t]
                                      /\ next'[t] = next[t]
  BY BusyCall DEF Answered, StoreTypeOK, StoreInv, CallInv
<1>2. ASSUME NEW t \in Services PROVE CallInv(t)'
  <2>1. CASE t = s
    BY <1>1, <2>1 DEF CallInv
  <2>2. CASE t # s
    <3>1. CallInv(t) /\ phase'[t] = phase[t] /\ call'[t] = call[t] /\ next'[t] = next[t]
      BY <1>1, <2>2 DEF StoreInv
    <3>2. phase[t] # "idle" =>
            /\ call[t] \in Calls /\ call[t] # call[s]
            /\ \A u \in Services : call'[u] = call[t] => call[u] = call[t]
      BY <1>1, <2>2, <3>1, BusyCall, StoreAssumption DEF CallInv, Answered, StoreTypeOK
    <3>3. Built(t) => Built(t)'
      BY <3>1 DEF Built
    <3>4. phase'[t] # "idle" => /\ answer'[call'[t]] = "running"
                                /\ \A u \in Services : call'[u] = call'[t] => u = t
      BY <1>1, <3>1, <3>2 DEF CallInv
    <3> QED
      BY <3>1, <3>3, <3>4 DEF CallInv
  <2> QED
    BY <2>1, <2>2
<1>3. AppliedInv'
  <2> SUFFICES ASSUME NEW k \in 1..Len(disk)
               PROVE  \/ answer'[disk[k]] \in {"ok", "error", "gone"}
                      \/ \E t \in Services : phase'[t] = "syncing" /\ call'[t] = disk[k]
    BY DEF AppliedInv
  <2>1. disk[k] \in Calls
    BY ElementOfSeq DEF StoreTypeOK, States
  <2>2. CASE disk[k] = call[s]
    BY <1>1, <2>2 DEF StoreInv, AppliedInv, CallInv
  <2>3. CASE disk[k] # call[s]
    BY <1>1, <2>1, <2>3 DEF StoreInv, AppliedInv
  <2> QED
    BY <2>2, <2>3
<1>4. CopiesInv'
  BY DEF StoreInv, CopiesInv, StoreTypeOK
<1> QED
  BY <1>2, <1>3, <1>4 DEF StoreInv

\* A service that goes on with its call, while the file stays as it is.
LEMMA GoesOn ==
  ASSUME StoreTypeOK, StoreInv, NEW s \in Services, phase[s] \notin {"idle", "syncing"},
         NEW p \in {"queued", "writing"}, phase' = [phase EXCEPT ![s] = p],
         UNCHANGED <<disk, cache, call, answer, load>>,
         \A t \in Services : t # s => next'[t] = next[t],
         Built(s)', p = "writing" => Len(next'[s]) = Len(disk) + 1
  PROVE  StoreInv'
<1>1. ASSUME NEW t \in Services PROVE CallInv(t)'
  <2>1. CASE t = s
    BY <2>1 DEF CallInv, StoreInv, StoreTypeOK
  <2>2. CASE t # s
    BY <2>2 DEF CallInv, StoreInv, StoreTypeOK, Built
  <2> QED
    BY <2>1, <2>2
<1>2. AppliedInv' /\ CopiesInv'
  BY DEF StoreInv, AppliedInv, CopiesInv, StoreTypeOK
<1> QED
  BY <1>1, <1>2 DEF StoreInv

\* A read of the file, and what follows from it.
LEMMA LoadInv ==
  ASSUME StoreTypeOK, StoreInv,
         \/ \E s \in Services, c \in Calls : GetState(s, c)
         \/ \E s \in Services : EnsureState(s)
         \/ \E c \in Calls : Loaded(c)
  PROVE  StoreInv'
<1>1. /\ UNCHANGED <<disk, phase, call, next, answer>>
      /\ \A s \in Services : cache'[s] # Unknown => Begins(cache'[s], disk)
      /\ \A c \in Calls : load'[c] # Unknown => Begins(load'[c].state, disk)
  <2>1. Begins(disk, disk)
    BY LenProperties DEF Begins, StoreTypeOK, States
  <2>2. CopiesInv /\ cache \in [Services -> States \cup {Unknown}]
        /\ load \in [Calls -> Load \cup {Unknown}]
    BY DEF StoreInv, StoreTypeOK
  <2>3. CASE \E s \in Services, c \in Calls : GetState(s, c)
    BY <2>1, <2>2, <2>3 DEF GetState, fileVars, CopiesInv
  <2>4. CASE \E s \in Services : EnsureState(s)
    <3>1. PICK s \in Services : EnsureState(s)
      BY <2>4
    <3>2. call[s] \in Calls
      BY <3>1, BusyCall DEF EnsureState
    <3> QED
      BY <2>1, <2>2, <3>1, <3>2 DEF EnsureState, fileVars, CopiesInv
  <2>5. CASE \E c \in Calls : Loaded(c)
    <3>1. PICK c \in Calls : Loaded(c)
      BY <2>5
    <3>2. /\ load[c].service \in Services /\ load[c].state \in States
          /\ Begins(load[c].state, disk)
      BY <2>2, <3>1 DEF Loaded, Load, CopiesInv
    <3>3. /\ cache' = [cache EXCEPT ![load[c].service] = load[c].state]
          /\ load' = [load EXCEPT ![c] = Unknown] /\ UNCHANGED <<disk, phase, call, next, answer>>
      BY <3>1 DEF Loaded, fileVars
    <3>4. \A s \in Services : cache'[s] # Unknown => Begins(cache'[s], disk)
      BY <2>2, <3>2, <3>3 DEF CopiesInv
    <3>5. \A d \in Calls : load'[d] # Unknown => Begins(load'[d].state, disk)
      BY <2>2, <3>3 DEF CopiesInv
    <3> QED
      BY <3>3, <3>4, <3>5
  <2> QED
    BY <2>3, <2>4, <2>5
<1> QED
  BY <1>1 DEF StoreInv, CallInv, Built, AppliedInv, CopiesInv

\* The file grows by the call whose state was compared with it.
LEMMA RenameInv ==
  ASSUME StoreTypeOK, StoreInv, NEW s \in Services, Rename(s)
  PROVE  /\ StoreInv'
         /\ disk' = Append(disk, call[s])
         /\ call[s] \in Calls /\ call[s] \notin Range(disk)
<1>1. /\ call[s] \in Calls /\ writer = s /\ disk' = next[s]
      /\ disk \in Seq(Calls) /\ next[s] \in Seq(Calls)
      /\ Len(disk) \in Nat /\ DOMAIN disk = 1..Len(disk)
  BY BusyCall, LenProperties DEF Rename, StoreTypeOK, States
<1>2. /\ Len(next[s]) = Len(disk) + 1 /\ next[s][Len(disk) + 1] = call[s]
      /\ \A k \in 1..Len(disk) : next[s][k] = disk[k]
  BY <1>1 DEF Rename, StoreInv, CallInv, Built
<1>3. disk' = Append(disk, call[s])
  <2>1. /\ Append(disk, call[s]) \in Seq(Calls)
        /\ Len(Append(disk, call[s])) = Len(disk) + 1
        /\ \A k \in 1..(Len(disk) + 1) :
             Append(disk, call[s])[k] = IF k <= Len(disk) THEN disk[k] ELSE call[s]
    BY <1>1, AppendProperties
  <2>2. \A k \in 1..(Len(disk) + 1) : next[s][k] = Append(disk, call[s])[k]
    BY <1>1, <1>2, <2>1
  <2> QED
    BY <1>1, <1>2, <2>1, <2>2, SeqEqual
<1>4. \A t \in Services : phase[t] = "syncing" => FALSE
  BY <1>1 DEF Rename, StoreTypeOK
<1>5. call[s] \notin Range(disk)
  BY <1>1, <1>4 DEF Range, StoreInv, AppliedInv, CallInv, Rename
<1>6. /\ UNCHANGED <<cache, call, next, answer, load>>
      /\ phase'[s] = "syncing" /\ \A t \in Services : t # s => phase'[t] = phase[t]
  BY DEF Rename, StoreTypeOK
<1>7. ASSUME NEW t \in Services PROVE CallInv(t)'
  <2>1. CASE t = s
    BY <1>1, <1>2, <1>6, <2>1 DEF CallInv, StoreInv, Rename
  <2>2. CASE t # s
    <3>1. phase[t] # "writing" /\ phase[t] # "syncing"
      BY <1>1, <2>2 DEF StoreTypeOK
    <3>2. Len(next[t]) \in Nat
      BY LenProperties DEF StoreTypeOK, States
    <3>3. Built(t) => Built(t)'
      BY <1>1, <1>2, <1>6, <3>2 DEF Built
    <3> QED
      BY <1>6, <2>2, <3>1, <3>3 DEF CallInv, StoreInv
  <2> QED
    BY <2>1, <2>2
<1>8. AppliedInv'
  BY <1>1, <1>2, <1>4, <1>6 DEF StoreInv, AppliedInv
<1>9. CopiesInv'
  <2>1. ASSUME NEW p \in States, Begins(p, disk) PROVE Begins(p, disk')
    BY <1>1, <1>2, <2>1, LenProperties DEF Begins, States
  <2>2. \A c \in Calls : load[c] # Unknown => load[c].state \in States
    BY DEF StoreTypeOK, Load
  <2> QED
    BY <1>6, <2>1, <2>2 DEF StoreInv, CopiesInv, StoreTypeOK
<1> QED
  BY <1>1, <1>3, <1>5, <1>7, <1>8, <1>9 DEF StoreInv

\* Services that start again keep nothing, and the file is a beginning of what it was.
LEMMA RestartedInv ==
  ASSUME StoreTypeOK, StoreInv, Restarted,
         disk' \in States, Begins(disk', disk)
  PROVE  StoreInv'
<1>1. \A s \in Services : phase'[s] = "idle" /\ cache'[s] = Unknown
  BY DEF Restarted
<1>2. \A c \in Calls : load'[c] = Unknown
  BY DEF Restarted
<1>3. AppliedInv'
  <2> SUFFICES ASSUME NEW k \in 1..Len(disk')
               PROVE  answer'[disk'[k]] \in {"ok", "error", "gone"}
    BY DEF AppliedInv
  <2>1. k \in 1..Len(disk) /\ disk'[k] = disk[k]
    BY LenProperties DEF Begins, StoreTypeOK, States
  <2>2. disk[k] \in Calls
    BY <2>1, ElementOfSeq DEF StoreTypeOK, States
  <2>3. answer[disk[k]] \in {"ok", "error", "gone"} \/ answer[disk[k]] = "running"
    BY <2>1 DEF StoreInv, AppliedInv, CallInv
  <2> QED
    BY <2>1, <2>2, <2>3 DEF Restarted
<1> QED
  BY <1>1, <1>2, <1>3 DEF StoreInv, CallInv, CopiesInv

\* Every step keeps it.
LEMMA StoreInvStep ==
  ASSUME StoreTypeOK, StoreInv, [Next]_storeVars
  PROVE  StoreInv'
<1>1. CASE UNCHANGED storeVars
  BY <1>1 DEF storeVars, fileVars, StoreInv, CallInv, Built, AppliedInv, CopiesInv
<1>2. ASSUME NEW s \in Services, NEW c \in Calls, Mutate(s, c) PROVE StoreInv'
  <2>1. /\ UNCHANGED <<disk, cache, next, load>> /\ phase'[s] = "ensuring" /\ call'[s] = c
        /\ \A t \in Services : t # s => phase'[t] = phase[t] /\ call'[t] = call[t]
        /\ answer'[c] = "running" /\ \A d \in Calls : d # c => answer'[d] = answer[d]
        /\ phase[s] = "idle" /\ answer[c] = "none"
    BY <1>2 DEF Mutate, fileVars, StoreTypeOK
  <2>2. \A t \in Services : call[t] # c
    BY <2>1, StoreAssumption DEF StoreInv, CallInv, StoreTypeOK
  <2>3. ASSUME NEW t \in Services PROVE CallInv(t)'
    <3>1. CASE t = s
      BY <2>1, <2>2, <3>1 DEF CallInv
    <3>2. CASE t # s
      <4>1. phase[t] # "idle" => call[t] \in Calls
        BY BusyCall
      <4>2. Built(t) => Built(t)'
        BY <2>1, <3>2 DEF Built
      <4> QED
        BY <2>1, <2>2, <3>2, <4>1, <4>2 DEF CallInv, StoreInv
    <3> QED
      BY <3>1, <3>2
  <2>4. AppliedInv'
    <3> SUFFICES ASSUME NEW k \in 1..Len(disk)
                 PROVE  \/ answer'[disk[k]] \in {"ok", "error", "gone"}
                        \/ \E t \in Services : phase'[t] = "syncing" /\ call'[t] = disk[k]
      BY <2>1 DEF AppliedInv
    <3>1. disk[k] \in Calls
      BY ElementOfSeq DEF StoreTypeOK, States
    <3>2. disk[k] # c
      BY <2>1, <2>2 DEF StoreInv, AppliedInv
    <3> QED
      BY <2>1, <3>1, <3>2 DEF StoreInv, AppliedInv
  <2>5. CopiesInv'
    BY <2>1 DEF StoreInv, CopiesInv
  <2> QED
    BY <2>3, <2>4, <2>5 DEF StoreInv
<1>3. ASSUME NEW s \in Services, RunMutator(s) PROVE StoreInv'
  <2>1. /\ cache[s] \in Seq(Calls) /\ call[s] \in Calls /\ Begins(cache[s], disk)
        /\ Len(cache[s]) \in Nat /\ Len(disk) \in Nat
    BY <1>3, BusyCall, LenProperties DEF RunMutator, StoreTypeOK, States, StoreInv, CopiesInv
  <2>2. next'[s] = Append(cache[s], call[s]) /\ call'[s] = call[s] /\ disk' = disk
    BY <1>3 DEF RunMutator, StoreTypeOK, fileVars
  <2>3. /\ Len(next'[s]) = Len(cache[s]) + 1 /\ next'[s][Len(cache[s]) + 1] = call[s]
        /\ \A k \in 1..Len(cache[s]) : next'[s][k] = cache[s][k]
    BY <2>1, <2>2, AppendProperties
  <2>4. Built(s)'
    BY <2>1, <2>2, <2>3 DEF Built, Begins
  <2> QED
    BY <1>3, <2>4, GoesOn DEF RunMutator, fileVars, StoreTypeOK
<1>4. ASSUME NEW s \in Services, MutatorRefuses(s) PROVE StoreInv'
  <2>1. PICK a \in {"refused", "conflict"} : Answered(s, a)
    BY <1>4 DEF MutatorRefuses
  <2> QED
    BY <1>4, <2>1, AnsweredInv DEF MutatorRefuses, fileVars, Answers
<1>5. ASSUME NEW s \in Services, Compare(s) PROVE StoreInv'
  <2>1. Built(s)' /\ Len(next[s]) = Len(disk) + 1
    BY <1>5 DEF Compare, fileVars, StoreInv, CallInv, Built, SameRevision, Revision
  <2> QED
    BY <1>5, <2>1, GoesOn DEF Compare, fileVars
<1>6. ASSUME NEW s \in Services, Conflict(s) PROVE StoreInv'
  BY <1>6, AnsweredInv DEF Conflict, fileVars, Answers
<1>7. ASSUME NEW s \in Services, Sync(s) PROVE StoreInv'
  <2>1. next[s] \in States /\ Begins(next[s], disk)
    BY <1>7, LenProperties DEF Sync, StoreInv, CallInv, Begins, StoreTypeOK, States
  <2> QED
    BY <1>7, <2>1, AnsweredInv DEF Sync, Answers
<1>8. ASSUME NEW s \in Services, LoadFails(s) \/ SaveFails(s) \/ SyncFails(s) PROVE StoreInv'
  BY <1>8, AnsweredInv DEF LoadFails, SaveFails, SyncFails, fileVars, FailureAnswer, Answers
<1>9. CASE Crash
  <2>1. Begins(disk, disk)
    BY LenProperties DEF Begins, StoreTypeOK, States
  <2> QED
    BY <1>9, <2>1, RestartedInv DEF Crash, StoreTypeOK
<1>10. CASE PowerLoss
  <2>1. PICK n \in Len(durable)..Len(disk) : disk' = SubSeq(disk, 1, n)
    BY <1>10 DEF PowerLoss
  <2>2. disk' \in States /\ Begins(disk', disk)
    BY <2>1, UndoneState DEF Begins
  <2> QED
    BY <1>10, <2>2, RestartedInv DEF PowerLoss
<1> QED
  BY <1>1, <1>2, <1>3, <1>4, <1>5, <1>6, <1>7, <1>8, <1>9, <1>10, LoadInv, RenameInv DEF Next

\* Types and copies hold in every state.
LEMMA StoreInvariant == Spec => [](StoreTypeOK /\ StoreInv)
<1>1. Init => StoreInv
  <2> SUFFICES ASSUME Init PROVE StoreInv
    OBVIOUS
  <2>1. 1..Len(disk) = {}
    BY DEF Init
  <2> QED
    BY <2>1 DEF Init, StoreInv, CallInv, AppliedInv, CopiesInv
<1> QED
  BY <1>1, StoreInvStep, StoreTypeCorrect, PTL DEF Spec

\* A caller that was told of a conflict may try again.
THEOREM ConflictNotApplied == Spec => []ConflictMeansNotApplied
<1>1. ASSUME StoreTypeOK, StoreInv PROVE ConflictMeansNotApplied
  <2> SUFFICES ASSUME NEW k \in 1..Len(disk)
               PROVE  answer[disk[k]] \notin {"conflict", "refused"}
    BY <1>1, LenProperties DEF ConflictMeansNotApplied, Range, StoreTypeOK, States
  <2> QED
    BY <1>1 DEF StoreInv, AppliedInv, CallInv
<1> QED
  BY <1>1, StoreInvariant, PTL

\* The callers that are told of success by a step, besides those who were before.
Told == {c \in Calls : answer[c] = "ok"}

\* A call that ends otherwise tells nobody of success.
LEMMA SameTold ==
  ASSUME StoreTypeOK, StoreInv, NEW s \in Services, phase[s] # "idle",
         NEW a \in Answers \ {"ok"}, Answered(s, a)
  PROVE  Told' = Told
BY BusyCall DEF Told, Answered, StoreTypeOK, StoreInv, CallInv

\* A rename applies a call, a sync keeps it and tells its caller, a power loss loses calls;
\* all other steps leave the register alone.
LEMMA RegisterStep ==
  ASSUME StoreTypeOK, StoreInv, [Next]_storeVars
  PROVE  [Register!Next]_<<disk, Len(durable), Told, syncs>>
<1> USE DEF Told
<1>1. ASSUME NEW s \in Services, Rename(s) PROVE Register!Next
  <2>1. disk' = Append(disk, call[s]) /\ call[s] \in Calls /\ call[s] \notin Range(disk)
    BY <1>1, RenameInv
  <2>2. UNCHANGED <<durable, answer, syncs>>
    BY <1>1 DEF Rename
  <2> QED
    BY <2>1, <2>2 DEF Register!Next, Register!Apply, Register!Range, Range
<1>2. ASSUME NEW s \in Services, Sync(s) PROVE Register!Next
  <2>1. call[s] \in Calls /\ call[s] \in Range(disk)
    <3>1. /\ call[s] \in Calls /\ Len(disk) \in Nat \ {0} /\ DOMAIN disk = 1..Len(disk)
          /\ disk[Len(disk)] = call[s]
      BY <1>2, BusyCall, LenProperties
         DEF Sync, StoreInv, CallInv, StoreTypeOK, States
    <3> QED
      BY <3>1 DEF Range
  <2>2. /\ Told' = Told \cup {call[s]} /\ UNCHANGED <<disk, syncs>>
        /\ Len(durable') = IF syncs THEN Len(disk) ELSE Len(durable)
    BY <1>2, <2>1 DEF Sync, Synced, Answered, StoreTypeOK
  <2> QED
    BY <2>1, <2>2 DEF Register!Next, Register!Keep, Register!Range, Range
<1>3. CASE PowerLoss
  <2>1. Told' = Told /\ UNCHANGED <<durable, syncs>>
    BY <1>3 DEF PowerLoss, Restarted, StoreTypeOK
  <2>2. PICK n \in Len(durable)..Len(disk) : disk' = SubSeq(disk, 1, n)
    BY <1>3 DEF PowerLoss
  <2> QED
    BY <2>1, <2>2 DEF Register!Next, Register!Lose
<1>4. CASE Crash
  BY <1>4 DEF Crash, Restarted, StoreTypeOK
<1>5. ASSUME NEW s \in Services,
             MutatorRefuses(s) \/ Conflict(s) \/ LoadFails(s) \/ SaveFails(s) \/ SyncFails(s)
      PROVE  UNCHANGED <<disk, durable, Told, syncs>>
  BY <1>5, SameTold
     DEF MutatorRefuses, Conflict, LoadFails, SaveFails, SyncFails, fileVars, FailureAnswer, Answers
<1>6. ASSUME NEW s \in Services, NEW c \in Calls, GetState(s, c) \/ Mutate(s, c)
      PROVE  UNCHANGED <<disk, durable, Told, syncs>>
  BY <1>6 DEF GetState, Mutate, fileVars, StoreTypeOK
<1>7. ASSUME NEW s \in Services, EnsureState(s) \/ RunMutator(s) \/ Compare(s)
      PROVE  UNCHANGED <<disk, durable, Told, syncs>>
  BY <1>7 DEF EnsureState, RunMutator, Compare, fileVars
<1>8. ASSUME NEW c \in Calls, Loaded(c) PROVE UNCHANGED <<disk, durable, Told, syncs>>
  BY <1>8 DEF Loaded, fileVars
<1>9. CASE UNCHANGED storeVars
  BY <1>9 DEF storeVars, fileVars
<1> QED
  BY <1>1, <1>2, <1>3, <1>4, <1>5, <1>6, <1>7, <1>8, <1>9 DEF Next

\* The services over one file implement the abstract register.
THEOREM StoreIsRegister == Spec => ImplementsRegister
<1>1. Init => Register!Init
  BY DEF Init, Register!Init
<1>2. StoreTypeOK /\ StoreInv /\ [Next]_storeVars => [Register!Next]_(Register!registerVars)
  BY RegisterStep DEF Register!registerVars, Told
<1> QED
  BY <1>1, <1>2, StoreInvariant, PTL DEF Spec, ImplementsRegister, Register!Spec

-----------------------------------------------------------------------------
(* What an acknowledgment is worth.                                        *)

\* What is durable is a beginning of the file, and the acknowledged calls are kept.
KeptInv == Begins(durable, disk) /\ AcknowledgedIsKept

\* A step that tells nobody of success leaves the calls that a power loss did not take.
LEMMA KeptOn ==
  ASSUME KeptInv, UNCHANGED <<durable, syncs>>, Told' = Told, lost \subseteq lost',
         Begins(durable, disk'),
         syncs => Range(disk) \cap Range(durable) \subseteq Range(disk'),
         Range(disk) \subseteq Range(disk') \cup lost'
  PROVE  KeptInv'
BY DEF KeptInv, AcknowledgedIsKept, Told

\* A state that begins another has no calls of its own.
LEMMA BeginsRange ==
  ASSUME NEW p \in States, NEW q \in States, Begins(p, q)
  PROVE  Range(p) \subseteq Range(q)
<1>1. /\ Len(p) \in Nat /\ Len(q) \in Nat
      /\ DOMAIN p = 1..Len(p) /\ DOMAIN q = 1..Len(q)
  BY LenProperties DEF States
<1> QED
  BY <1>1 DEF Begins, Range

\* Every step keeps it.
LEMMA KeptStep ==
  ASSUME StoreTypeOK, StoreInv, KeptInv, [Next]_storeVars
  PROVE  KeptInv'
<1>1. ASSUME NEW s \in Services, Rename(s) PROVE KeptInv'
  <2>1. /\ disk' = Append(disk, call[s]) /\ call[s] \in Calls /\ disk \in Seq(Calls)
        /\ Len(disk) \in Nat /\ Len(durable) \in Nat
    BY <1>1, RenameInv, LenProperties DEF StoreTypeOK, States
  <2>2. /\ disk' \in States /\ Len(disk') = Len(disk) + 1
        /\ \A k \in 1..Len(disk) : disk'[k] = disk[k]
    BY <2>1, AppendProperties DEF States
  <2>3. Begins(disk, disk') /\ Begins(durable, disk')
    BY <2>1, <2>2 DEF Begins, KeptInv
  <2>4. Range(disk) \subseteq Range(disk')
    BY <2>1, <2>2, <2>3, BeginsRange DEF States
  <2>5. UNCHANGED <<durable, syncs, lost>> /\ Told' = Told
    BY <1>1 DEF Rename, Told
  <2> QED
    BY <2>3, <2>4, <2>5, KeptOn
<1>2. ASSUME NEW s \in Services, Sync(s) PROVE KeptInv'
  <2>1. /\ call[s] \in Calls /\ disk \in Seq(Calls) /\ Len(disk) \in Nat \ {0}
        /\ DOMAIN disk = 1..Len(disk) /\ disk[Len(disk)] = call[s]
    BY <1>2, BusyCall, LenProperties DEF Sync, StoreInv, CallInv, StoreTypeOK, States
  <2>2. call[s] \in Range(disk)
    BY <2>1 DEF Range
  <2>3. /\ Told' = Told \cup {call[s]} /\ UNCHANGED <<disk, lost, syncs>>
        /\ durable' = IF syncs THEN disk ELSE durable
    BY <1>2, <2>1 DEF Sync, Synced, Answered, StoreTypeOK, Told
  <2>4. Begins(disk, disk)
    BY <2>1 DEF Begins
  <2>5. Begins(durable', disk)
    BY <2>3, <2>4 DEF KeptInv
  <2>6. \A c \in Told' : c \in IF syncs THEN Range(disk) ELSE Range(disk) \cup lost
    BY <2>2, <2>3 DEF KeptInv, AcknowledgedIsKept, Told
  <2>7. AcknowledgedIsKept'
    BY <2>3, <2>6 DEF AcknowledgedIsKept, Told
  <2> QED
    BY <2>3, <2>5, <2>7 DEF KeptInv
<1>3. CASE PowerLoss
  <2>1. Told' = Told /\ UNCHANGED <<durable, syncs>>
    BY <1>3 DEF PowerLoss, Restarted, StoreTypeOK, Told
  <2>2. PICK n \in Len(durable)..Len(disk) :
          /\ disk' = SubSeq(disk, 1, n)
          /\ lost' = lost \cup {disk[k] : k \in (n + 1)..Len(disk)}
    BY <1>3 DEF PowerLoss
  <2>3. /\ n \in Nat /\ n <= Len(disk) /\ Len(disk) \in Nat /\ Len(disk') = n
        /\ disk' \in States /\ \A k \in 1..n : disk'[k] = disk[k]
        /\ Len(durable) \in Nat /\ Len(durable) <= n
    BY <2>2, UndoneState, LenProperties DEF StoreTypeOK, States
  <2>4. Begins(durable, disk')
    BY <2>3 DEF Begins, KeptInv
  <2>5. Range(durable) \subseteq Range(disk')
    BY <2>3, <2>4, BeginsRange DEF StoreTypeOK
  <2>6. Range(disk) \subseteq Range(disk') \cup lost'
    <3>1. DOMAIN disk = 1..Len(disk) /\ DOMAIN disk' = 1..n
      BY <2>3, LenProperties DEF StoreTypeOK, States
    <3>2. ASSUME NEW k \in 1..Len(disk) PROVE disk[k] \in Range(disk') \cup lost'
      <4>1. CASE k <= n
        BY <2>3, <3>1, <4>1 DEF Range
      <4>2. CASE ~(k <= n)
        BY <2>2, <2>3, <4>2
      <4> QED
        BY <4>1, <4>2
    <3> QED
      BY <3>1, <3>2 DEF Range
  <2> QED
    BY <2>1, <2>2, <2>4, <2>5, <2>6, KeptOn
<1>4. CASE UNCHANGED <<fileVars, Told>>
  BY <1>4, KeptOn DEF fileVars, KeptInv
<1>5. ASSUME NEW s \in Services,
             MutatorRefuses(s) \/ Conflict(s) \/ LoadFails(s) \/ SaveFails(s) \/ SyncFails(s)
      PROVE  UNCHANGED <<fileVars, Told>>
  BY <1>5, SameTold
     DEF MutatorRefuses, Conflict, LoadFails, SaveFails, SyncFails, FailureAnswer, Answers
<1>6. ASSUME NEW s \in Services, NEW c \in Calls, GetState(s, c) \/ Mutate(s, c)
      PROVE  UNCHANGED <<fileVars, Told>>
  BY <1>6 DEF GetState, Mutate, StoreTypeOK, Told
<1>7. ASSUME NEW s \in Services, EnsureState(s) \/ RunMutator(s) \/ Compare(s)
      PROVE  UNCHANGED <<fileVars, Told>>
  BY <1>7 DEF EnsureState, RunMutator, Compare, Told
<1>8. ASSUME NEW c \in Calls, Loaded(c) PROVE UNCHANGED <<fileVars, Told>>
  BY <1>8 DEF Loaded, Told
<1>9. CASE UNCHANGED storeVars
  BY <1>4, <1>9 DEF storeVars, Told
<1>10. CASE Crash
  BY <1>4, <1>10 DEF Crash, Restarted, StoreTypeOK, Told, fileVars
<1> QED
  BY <1>1, <1>2, <1>3, <1>4, <1>5, <1>6, <1>7, <1>8, <1>9, <1>10 DEF Next

\* mutate tells its caller of success when syncDirectory has returned: on a file system
\* that can sync a directory no failure, crash or power loss takes the call back, and on
\* any other only a power loss does.
THEOREM AcknowledgedCallsKept == Spec => []AcknowledgedIsKept
<1>1. Init => KeptInv
  <2> SUFFICES ASSUME Init PROVE KeptInv
    OBVIOUS
  <2>1. 1..0 = {} /\ Len(<<>>) = 0
    OBVIOUS
  <2>2. Begins(durable, disk)
    BY <2>1 DEF Init, Begins
  <2>3. \A c \in Calls : answer[c] # "ok"
    BY DEF Init
  <2> QED
    BY <2>2, <2>3 DEF KeptInv, AcknowledgedIsKept
<1>2. KeptInv => AcknowledgedIsKept
  BY DEF KeptInv
<1> QED
  BY <1>1, <1>2, KeptStep, StoreInvariant, PTL DEF Spec

-----------------------------------------------------------------------------
(* A guarded call meets the state that its caller read.                    *)

\* What a caller has read is a beginning of the file, or a power loss took some of it.
ReadInv ==
  \A c \in Calls : seen[c] # Unknown => Begins(seen[c], disk) \/ Range(seen[c]) \cap lost # {}

\* A guarded call follows the very revision that its caller read.
PendingInv(s) ==
  phase[s] # "idle" /\ call[s] \in Guarded =>
    /\ seen[call[s]] # Unknown
    /\ phase[s] \in {"queued", "writing"} => Len(seen[call[s]]) + 1 = Len(next[s])

\* On the file too, a guarded call stands right behind what its caller read.
SeenInv ==
  /\ ReadInv
  /\ \A s \in Services : PendingInv(s)
  /\ \A k \in 1..Len(disk) : disk[k] \in Guarded =>
       seen[disk[k]] # Unknown /\ Len(seen[disk[k]]) = k - 1

\* What a caller has read changes only before its call, and to a beginning of the file.
LEMMA SeenChanges ==
  ASSUME StoreTypeOK, StoreInv, [Next]_storeVars, NEW c \in Calls
  PROVE  \/ seen'[c] = seen[c]
         \/ /\ answer[c] = "none" /\ UNCHANGED <<disk, lost, phase, call, next>>
            /\ seen'[c] # Unknown /\ Begins(seen'[c], disk)
<1>1. CASE seen' = seen
  BY <1>1
<1>2. ASSUME NEW s \in Services, NEW d \in Calls, GetState(s, d)
      PROVE  \/ seen'[c] = seen[c]
             \/ /\ answer[c] = "none" /\ UNCHANGED <<disk, lost, phase, call, next>>
                /\ seen'[c] # Unknown /\ Begins(seen'[c], disk)
  BY <1>2 DEF GetState, fileVars, StoreTypeOK, StoreInv, CopiesInv
<1>3. ASSUME NEW d \in Calls, Loaded(d)
      PROVE  \/ seen'[c] = seen[c]
             \/ /\ answer[c] = "none" /\ UNCHANGED <<disk, lost, phase, call, next>>
                /\ seen'[c] # Unknown /\ Begins(seen'[c], disk)
  <2>1. load[d].state \in States /\ Begins(load[d].state, disk)
    BY <1>3 DEF Loaded, StoreTypeOK, Load, StoreInv, CopiesInv
  <2> QED
    BY <1>3, <2>1, StoreAssumption DEF Loaded, fileVars, StoreTypeOK, States
<1>4. \/ seen' = seen
      \/ \E s \in Services, d \in Calls : GetState(s, d)
      \/ \E d \in Calls : Loaded(d)
  BY DEF Next, storeVars, fileVars, Mutate, EnsureState, RunMutator, MutatorRefuses, Compare, Conflict,
         Rename, Sync, LoadFails, SaveFails, SyncFails, Crash, PowerLoss, Restarted
<1> QED
  BY <1>1, <1>2, <1>3, <1>4

\* A call that is pending or on the file is not one that was never made.
LEMMA SeenFixed ==
  ASSUME StoreTypeOK, StoreInv, [Next]_storeVars
  PROVE  /\ \A k \in 1..Len(disk) : disk[k] \in Calls /\ seen'[disk[k]] = seen[disk[k]]
         /\ \A s \in Services : phase[s] # "idle" => seen'[call[s]] = seen[call[s]]
<1>1. ASSUME NEW k \in 1..Len(disk) PROVE disk[k] \in Calls /\ answer[disk[k]] # "none"
  <2>1. disk[k] \in Calls
    BY ElementOfSeq DEF StoreTypeOK, States
  <2>2. answer[disk[k]] # "none"
    BY DEF StoreInv, AppliedInv, CallInv
  <2> QED
    BY <2>1, <2>2
<1>2. ASSUME NEW s \in Services, phase[s] # "idle"
      PROVE  call[s] \in Calls /\ answer[call[s]] # "none"
  BY <1>2, BusyCall DEF StoreInv, CallInv
<1> QED
  BY <1>1, <1>2, SeenChanges

\* The file and what is lost stay, and the pending calls are pending calls before.
LEMMA QuietSeen ==
  ASSUME StoreTypeOK, StoreInv, SeenInv, [Next]_storeVars, UNCHANGED <<disk, lost>>,
         \A s \in Services : phase'[s] # "idle" =>
           \/ /\ phase[s] # "idle" /\ call'[s] = call[s] /\ next'[s] = next[s]
              /\ phase'[s] \in {"queued", "writing"} => phase[s] \in {"queued", "writing"}
           \/ PendingInv(s)'
  PROVE  SeenInv'
<1>1. ReadInv'
  BY SeenChanges DEF SeenInv, ReadInv
<1>2. ASSUME NEW s \in Services PROVE PendingInv(s)'
  BY SeenFixed DEF SeenInv, PendingInv
<1>3. \A k \in 1..Len(disk') : disk'[k] \in Guarded =>
        seen'[disk'[k]] # Unknown /\ Len(seen'[disk'[k]]) = k - 1
  BY SeenFixed DEF SeenInv
<1> QED
  BY <1>1, <1>2, <1>3 DEF SeenInv

\* Every step keeps it.
LEMMA SeenStep ==
  ASSUME StoreTypeOK, StoreInv, SeenInv, [Next]_storeVars
  PROVE  SeenInv'
<1>1. CASE UNCHANGED storeVars
  BY <1>1, QuietSeen DEF storeVars, fileVars
<1>2. ASSUME NEW s \in Services, NEW c \in Calls, GetState(s, c) PROVE SeenInv'
  BY <1>2, QuietSeen DEF GetState, fileVars
<1>3. ASSUME NEW s \in Services, NEW c \in Calls, Mutate(s, c) PROVE SeenInv'
  <2>1. PendingInv(s)'
    BY <1>3 DEF Mutate, PendingInv, StoreTypeOK
  <2> QED
    BY <1>3, <2>1, QuietSeen DEF Mutate, fileVars, StoreTypeOK
<1>4. ASSUME NEW s \in Services, EnsureState(s) PROVE SeenInv'
  BY <1>4, QuietSeen DEF EnsureState, fileVars
<1>5. ASSUME NEW c \in Calls, Loaded(c) PROVE SeenInv'
  BY <1>5, QuietSeen DEF Loaded, fileVars
<1>6. ASSUME NEW s \in Services, RunMutator(s) PROVE SeenInv'
  <2>1. /\ cache[s] \in Seq(Calls) /\ call[s] \in Calls /\ phase[s] = "ensuring"
        /\ next'[s] = Append(cache[s], call[s]) /\ call'[s] = call[s] /\ seen' = seen
    BY <1>6, BusyCall DEF RunMutator, StoreTypeOK, States, fileVars
  <2>2. Len(next'[s]) = Len(cache[s]) + 1
    BY <2>1, AppendProperties
  <2>3. PendingInv(s)'
    BY <1>6, <2>1, <2>2
       DEF RunMutator, ExpectedRevision, Revision, SeenInv, PendingInv, StoreTypeOK
  <2> QED
    BY <1>6, <2>3, QuietSeen DEF RunMutator, fileVars, StoreTypeOK
<1>7. ASSUME NEW s \in Services,
             MutatorRefuses(s) \/ Conflict(s) \/ LoadFails(s) \/ SaveFails(s) \/ SyncFails(s)
               \/ Sync(s)
      PROVE  SeenInv'
  <2>1. (\E a \in Answers : Answered(s, a)) /\ UNCHANGED <<disk, lost>>
    BY <1>7 DEF MutatorRefuses, Conflict, LoadFails, SaveFails, SyncFails, Sync, fileVars,
                FailureAnswer, Answers
  <2> QED
    BY <2>1, QuietSeen DEF Answered, StoreTypeOK
<1>8. ASSUME NEW s \in Services, Compare(s) PROVE SeenInv'
  BY <1>8, QuietSeen DEF Compare, fileVars, StoreTypeOK
<1>9. ASSUME NEW s \in Services, Rename(s) PROVE SeenInv'
  <2>1. /\ call[s] \in Calls /\ disk \in Seq(Calls) /\ Len(disk) \in Nat
        /\ disk' = Append(disk, call[s])
    BY <1>9, RenameInv, LenProperties DEF StoreTypeOK, States
  <2>2. /\ Len(disk') = Len(disk) + 1 /\ disk'[Len(disk) + 1] = call[s]
        /\ \A k \in 1..Len(disk) : disk'[k] = disk[k]
    BY <2>1, AppendProperties
  <2>3. /\ phase[s] = "writing" /\ Len(next[s]) = Len(disk) + 1
        /\ UNCHANGED <<call, next, seen, lost>>
        /\ phase'[s] = "syncing" /\ \A t \in Services : t # s => phase'[t] = phase[t]
    BY <1>9 DEF Rename, StoreInv, CallInv, StoreTypeOK
  <2>4. ReadInv'
    <3> SUFFICES ASSUME NEW c \in Calls, seen[c] # Unknown, Begins(seen[c], disk)
                 PROVE  Begins(seen[c], disk')
      BY <2>3 DEF SeenInv, ReadInv
    <3>1. Len(seen[c]) \in Nat
      BY LenProperties DEF StoreTypeOK, States
    <3> QED
      BY <2>1, <2>2, <3>1 DEF Begins
  <2>5. \A t \in Services : PendingInv(t)'
    BY <2>3 DEF SeenInv, PendingInv
  <2>6. call[s] \in Guarded => seen[call[s]] # Unknown /\ Len(seen[call[s]]) = Len(disk)
    <3> SUFFICES ASSUME call[s] \in Guarded
                 PROVE  seen[call[s]] # Unknown /\ Len(seen[call[s]]) = Len(disk)
      OBVIOUS
    <3>1. seen[call[s]] # Unknown /\ Len(seen[call[s]]) + 1 = Len(disk) + 1
      BY <2>3 DEF SeenInv, PendingInv
    <3>2. Len(seen[call[s]]) \in Nat
      BY <2>1, <3>1, LenProperties DEF StoreTypeOK, States
    <3> QED
      BY <2>1, <3>1, <3>2
  <2>7. \A k \in 1..(Len(disk) + 1) : disk'[k] \in Guarded =>
          seen[disk'[k]] # Unknown /\ Len(seen[disk'[k]]) = k - 1
    BY <2>1, <2>2, <2>6 DEF SeenInv
  <2> QED
    BY <2>2, <2>3, <2>4, <2>5, <2>7 DEF SeenInv
<1>10. CASE Crash
  BY <1>10, QuietSeen DEF Crash, Restarted
<1>11. CASE PowerLoss
  <2>1. PICK n \in Len(durable)..Len(disk) :
          /\ disk' = SubSeq(disk, 1, n)
          /\ lost' = lost \cup {disk[k] : k \in (n + 1)..Len(disk)}
    BY <1>11 DEF PowerLoss
  <2>2. /\ n \in Nat /\ n <= Len(disk) /\ Len(disk) \in Nat /\ Len(disk') = n
        /\ \A k \in 1..n : disk'[k] = disk[k]
    BY <2>1, UndoneState
  <2>3. seen' = seen /\ \A s \in Services : phase'[s] = "idle"
    BY <1>11 DEF PowerLoss, Restarted
  <2>4. ReadInv'
    <3> SUFFICES ASSUME NEW c \in Calls, seen[c] # Unknown
                 PROVE  Begins(seen[c], disk') \/ Range(seen[c]) \cap lost' # {}
      BY <2>3 DEF ReadInv
    <3>1. Len(seen[c]) \in Nat /\ DOMAIN seen[c] = 1..Len(seen[c])
      BY LenProperties DEF StoreTypeOK, States
    <3>2. CASE Range(seen[c]) \cap lost # {}
      BY <2>1, <3>2
    <3>3. CASE Begins(seen[c], disk) /\ Len(seen[c]) <= n
      BY <2>2, <3>1, <3>3 DEF Begins
    <3>4. CASE Begins(seen[c], disk) /\ Len(seen[c]) > n
      <4>1. n + 1 \in 1..Len(seen[c]) /\ n + 1 \in (n + 1)..Len(disk)
            /\ seen[c][n + 1] = disk[n + 1]
        BY <2>2, <3>1, <3>4 DEF Begins
      <4>2. seen[c][n + 1] \in Range(seen[c])
        BY <3>1, <4>1 DEF Range
      <4>3. disk[n + 1] \in lost'
        BY <2>1, <4>1
      <4> QED
        BY <4>1, <4>2, <4>3
    <3> QED
      BY <2>2, <3>1, <3>2, <3>3, <3>4 DEF SeenInv, ReadInv
  <2> QED
    BY <2>2, <2>3, <2>4 DEF SeenInv, PendingInv
<1> QED
  BY <1>1, <1>2, <1>3, <1>4, <1>5, <1>6, <1>7, <1>8, <1>9, <1>10, <1>11 DEF Next

\* An expected revision is as good as the state itself: a call that carries one is applied
\* to the very state its caller had read, unless a power loss took some of that back.
THEOREM GuardedCallMeetsItsState == Spec => []GuardedCallSeesItsState
<1>1. Init => SeenInv
  <2> SUFFICES ASSUME Init PROVE SeenInv
    OBVIOUS
  <2>1. 1..Len(disk) = {}
    BY DEF Init
  <2> QED
    BY <2>1 DEF Init, SeenInv, ReadInv, PendingInv
<1>2. ASSUME StoreTypeOK, SeenInv PROVE GuardedCallSeesItsState
  <2> SUFFICES ASSUME NEW k \in 1..Len(disk), disk[k] \in Guarded,
                      Range(seen[disk[k]]) \cap lost = {}
               PROVE  seen[disk[k]] = SubSeq(disk, 1, k - 1)
    BY DEF GuardedCallSeesItsState
  <2>1. disk \in Seq(Calls) /\ Len(disk) \in Nat /\ disk[k] \in Calls
    BY <1>2, ElementOfSeq, LenProperties DEF StoreTypeOK, States
  <2>2. /\ seen[disk[k]] \in Seq(Calls) /\ Len(seen[disk[k]]) = k - 1
        /\ Begins(seen[disk[k]], disk)
    BY <1>2, <2>1 DEF SeenInv, ReadInv, StoreTypeOK, States
  <2>3. \A j \in 1..(k - 1) : disk[j] \in Calls
    BY <2>1, ElementOfSeq
  <2>4. /\ SubSeq(disk, 1, k - 1) \in Seq(Calls)
        /\ Len(SubSeq(disk, 1, k - 1)) = IF 1 <= k - 1 THEN (k - 1) - 1 + 1 ELSE 0
        /\ \A j \in 1..((k - 1) - 1 + 1) : SubSeq(disk, 1, k - 1)[j] = disk[1 + j - 1]
    BY <2>1, <2>3, SubSeqProperties
  <2>5. Len(SubSeq(disk, 1, k - 1)) = k - 1
        /\ \A j \in 1..(k - 1) : seen[disk[k]][j] = SubSeq(disk, 1, k - 1)[j]
    BY <2>1, <2>2, <2>4 DEF Begins
  <2> QED
    BY <2>2, <2>4, <2>5, SeqEqual
<1> QED
  BY <1>1, <1>2, SeenStep, StoreInvariant, PTL DEF Spec
=============================================================================
