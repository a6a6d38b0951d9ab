----------------------------- MODULE MissionStore -----------------------------
(***************************************************************************)
(* How a call of a MissionService becomes part of the durable mission      *)
(* state: MissionService.mutate and getState (domain.ts) over one          *)
(* JsonMissionRepository (persistence.ts) that several services of a       *)
(* process share.                                                          *)
(*                                                                         *)
(* A mission state is the sequence of the calls that led to it, and its    *)
(* revision the length of that sequence.  Every await is a step boundary:  *)
(* the load of an unknown state, the repository's write queue, the         *)
(* comparison of revisions, the rename over the state file and the sync of *)
(* its directory.  Files fail, the process dies and starts again, and the  *)
(* machine loses power.  Some file systems cannot sync a directory, which  *)
(* the repository takes for success.                                       *)
(***************************************************************************)
EXTENDS Naturals, Sequences, Functions

CONSTANTS
  Services,     \* the mission services over the repository
  Calls,        \* mutating calls, each made at most once
  Guarded,      \* the calls that carry an expectedRevision
  NoCall, NoService,
  Unknown,      \* the cached state before it is loaded, or after a conflict
  MaxFaults     \* bound on failing files, crashes and power losses

ASSUME StoreAssumption ==
  /\ Guarded \subseteq Calls
  /\ NoCall \notin Calls /\ NoService \notin Services
  /\ Unknown \notin Seq(Calls)
  /\ MaxFaults \in Nat

VARIABLES
  disk,      \* what a read of the state file returns
  durable,   \* what it would return after a power loss
  cache,     \* cache[s]: state of service s
  phase,     \* phase[s]: how far the call of s is
  call,      \* call[s]: the call at the head of the pending queue of s
  next,      \* next[s]: the state the mutator of that call built
  writer,    \* the service whose save runs, the head of the write queue
  seen,      \* seen[c]: the state the caller of the guarded call c had read
  answer,    \* answer[c]: what the caller of c was told
  load,      \* load[c]: what was read for c, for getState or mutate, and not yet taken over
  lost,      \* calls a power loss has undone
  syncs,     \* whether the file system can sync a directory
  faults     \* faults so far

fileVars == <<disk, durable, lost, syncs>>
storeVars == <<fileVars, cache, phase, call, next, writer, seen, answer, load, faults>>

Phases == {"idle", "ensuring", "queued", "writing", "syncing"}
Answers == {"none", "running", "ok", "conflict", "refused", "error", "gone"}

States == Seq(Calls)

\* A read of the state file by a service; Unknown stands for no read.
Load == [service: Services, state: States]

StoreTypeOK ==
  /\ disk \in States /\ durable \in States
  /\ cache \in [Services -> States \cup {Unknown}]
  /\ phase \in [Services -> Phases]
  /\ call \in [Services -> Calls \cup {NoCall}]
  /\ next \in [Services -> States]
  /\ writer \in Services \cup {NoService}
  /\ seen \in [Calls -> States \cup {Unknown}]
  /\ answer \in [Calls -> Answers]
  /\ load \in [Calls -> Load \cup {Unknown}]
  /\ lost \subseteq Calls /\ syncs \in BOOLEAN
  /\ faults \in 0..MaxFaults
  /\ \A s \in Services : /\ phase[s] = "idle" <=> call[s] = NoCall
                         /\ phase[s] \in {"writing", "syncing"} <=> writer = s

Init ==
  /\ disk = <<>> /\ durable = <<>>
  /\ cache = [s \in Services |-> Unknown]
  /\ phase = [s \in Services |-> "idle"]
  /\ call = [s \in Services |-> NoCall]
  /\ next = [s \in Services |-> <<>>]
  /\ writer = NoService
  /\ seen = [c \in Calls |-> Unknown]
  /\ answer = [c \in Calls |-> "none"]
  /\ load = [c \in Calls |-> Unknown]
  /\ lost = {} /\ syncs \in BOOLEAN
  /\ faults = 0

Revision(state) == Len(state)

-----------------------------------------------------------------------------
(* One call at a time runs in a service; the others wait in its pending    *)
(* queue.                                                                  *)

\* The call of service s ends with the answer a.
Answered(s, a) ==
  /\ phase' = [phase EXCEPT ![s] = "idle"]
  /\ call' = [call EXCEPT ![s] = NoCall]
  /\ next' = [next EXCEPT ![s] = <<>>]
  /\ answer' = [answer EXCEPT ![call[s]] = a]

Fault == faults < MaxFaults /\ faults' = faults + 1

\* getState through service s, by the caller that will make the guarded call c: it waits
\* for the pending calls, not for the later ones.
GetState(s, c) ==
  /\ c \in Guarded /\ answer[c] = "none" /\ phase[s] = "idle" /\ load[c] = Unknown
  /\ IF cache[s] = Unknown
     THEN load' = [load EXCEPT ![c] = [service |-> s, state |-> disk]] /\ UNCHANGED seen
     ELSE seen' = [seen EXCEPT ![c] = cache[s]] /\ UNCHANGED load
  /\ UNCHANGED <<fileVars, cache, phase, call, next, writer, answer, faults>>

\* mutate: the call reaches the head of the pending queue.
Mutate(s, c) ==
  /\ phase[s] = "idle" /\ answer[c] = "none" /\ load[c] = Unknown
  /\ c \in Guarded => seen[c] # Unknown
  /\ phase' = [phase EXCEPT ![s] = "ensuring"]
  /\ call' = [call EXCEPT ![s] = c]
  /\ answer' = [answer EXCEPT ![c] = "running"]
  /\ UNCHANGED <<fileVars, cache, next, writer, seen, load, faults>>

\* ensureState: load waits for the saves queued so far, but not for a later one, whose
\* rename it may see before the directory is synced.
EnsureState(s) ==
  /\ phase[s] = "ensuring" /\ cache[s] = Unknown /\ load[call[s]] = Unknown
  /\ load' = [load EXCEPT ![call[s]] = [service |-> s, state |-> disk]]
  /\ UNCHANGED <<fileVars, cache, phase, call, next, writer, seen, answer, faults>>

\* What was read becomes the state of the service, which another load or a save may have
\* set in the meantime.
Loaded(c) ==
  /\ load[c] # Unknown
  /\ cache' = [cache EXCEPT ![load[c].service] = load[c].state]
  /\ seen' = IF answer[c] = "none" THEN [seen EXCEPT ![c] = load[c].state] ELSE seen
  /\ load' = [load EXCEPT ![c] = Unknown]
  /\ UNCHANGED <<fileVars, phase, call, next, writer, answer, faults>>

\* The state file cannot be read.
LoadFails(s) ==
  /\ phase[s] = "ensuring" /\ cache[s] = Unknown /\ load[call[s]] = Unknown
  /\ Fault
  /\ Answered(s, "error")
  /\ UNCHANGED <<fileVars, cache, writer, seen, load>>

\* Mutation of ExpectedRevision: a caller's revision may be behind.
AtMostRevision(c, state) == c \in Guarded => Revision(seen[c]) <= Revision(state)

\* ensureExpectedRevision
ExpectedRevision(c, state) == c \in Guarded => Revision(seen[c]) = Revision(state)

\* The mutator ran on a copy of the state and its result was enqueued to be saved.
RunMutator(s) ==
  /\ phase[s] = "ensuring" /\ cache[s] # Unknown /\ load[call[s]] = Unknown
  /\ ExpectedRevision(call[s], cache[s])
  /\ next' = [next EXCEPT ![s] = Append(cache[s], call[s])]
  /\ phase' = [phase EXCEPT ![s] = "queued"]
  /\ UNCHANGED <<fileVars, cache, call, writer, seen, answer, load, faults>>

\* A guard of the mutator failed, or its expected revision: nothing is saved, and
\* the service keeps the state it has.
MutatorRefuses(s) ==
  /\ phase[s] = "ensuring" /\ cache[s] # Unknown /\ load[call[s]] = Unknown
  /\ \/ Answered(s, "refused")
     \/ ~ExpectedRevision(call[s], cache[s]) /\ Answered(s, "conflict")
  /\ UNCHANGED <<fileVars, cache, writer, seen, load, faults>>

-----------------------------------------------------------------------------
(* saveIfRevision: the repository runs one save at a time.                 *)

\* Mutation of SameRevision: a state of the same revision is replaced too.
NotNewer(s) == Revision(disk) <= Revision(next[s])

\* The file has the state that the mutator of the call of s started from.
SameRevision(s) == Revision(disk) + 1 = Revision(next[s])

\* The head of the write queue reads the file and compares its revision.
Compare(s) ==
  /\ phase[s] = "queued" /\ writer = NoService
  /\ SameRevision(s)
  /\ writer' = s
  /\ phase' = [phase EXCEPT ![s] = "writing"]
  /\ UNCHANGED <<fileVars, cache, call, next, seen, answer, load, faults>>

\* Another service saved first: the service forgets its state.
Conflict(s) ==
  /\ phase[s] = "queued" /\ writer = NoService
  /\ ~SameRevision(s)
  /\ cache' = [cache EXCEPT ![s] = Unknown]
  /\ Answered(s, "conflict")
  /\ UNCHANGED <<fileVars, writer, seen, load, faults>>

\* The temporary file is written, synced and renamed over the state file.
Rename(s) ==
  /\ phase[s] = "writing"
  /\ disk' = next[s]
  /\ phase' = [phase EXCEPT ![s] = "syncing"]
  /\ UNCHANGED <<durable, lost, syncs, cache, call, next, writer, seen, answer, load, faults>>

\* Mutation of Released: a save that failed blocks the queue.
Blocking(s) == writer

\* A save that ended, well or not, lets the next one run.
Released(s) == NoService

\* Mutation of FailureAnswer: whatever went wrong is reported as a conflict.
AnyConflict == "conflict"
FailureAnswer == "error"

\* The file cannot be read, written or renamed: it stays as it is.
SaveFails(s) ==
  /\ \/ phase[s] = "queued" /\ writer = NoService
     \/ phase[s] = "writing"
  /\ Fault
  /\ Answered(s, FailureAnswer)
  /\ writer' = Released(s)
  /\ UNCHANGED <<fileVars, cache, seen, load>>

\* Mutation of Synced: the directory is not synced.
Unsynced == durable

\* syncDirectory: the rename is durable.  That the file system cannot sync a directory
\* (EINVAL, ENOTSUP, EOPNOTSUPP, ENOSYS) passes for success, but makes nothing durable.
Synced == IF syncs THEN disk ELSE durable

\* The call is acknowledged and the service takes its state.
Sync(s) ==
  /\ phase[s] = "syncing"
  /\ durable' = Synced
  /\ cache' = [cache EXCEPT ![s] = next[s]]
  /\ Answered(s, "ok")
  /\ writer' = Released(s)
  /\ UNCHANGED <<disk, lost, syncs, seen, load, faults>>

\* The sync of the directory fails after the rename, and not as unsupported: the caller is
\* told of an error and the service keeps its old state, but the file has the new one.
SyncFails(s) ==
  /\ phase[s] = "syncing"
  /\ Fault
  /\ Answered(s, FailureAnswer)
  /\ writer' = Released(s)
  /\ UNCHANGED <<fileVars, cache, seen, load>>

-----------------------------------------------------------------------------
(* The process and the machine.                                            *)

\* The process dies and starts again: its services know nothing.
Restarted ==
  /\ Fault
  /\ cache' = [s \in Services |-> Unknown]
  /\ phase' = [s \in Services |-> "idle"]
  /\ call' = [s \in Services |-> NoCall]
  /\ next' = [s \in Services |-> <<>>]
  /\ writer' = NoService
  /\ load' = [c \in Calls |-> Unknown]
  /\ answer' = [c \in Calls |-> IF answer[c] = "running" THEN "gone" ELSE answer[c]]
  /\ UNCHANGED <<durable, syncs, seen>>

Crash == Restarted /\ UNCHANGED <<disk, lost>>

\* Renames that were not synced may be undone.
PowerLoss ==
  /\ Restarted
  /\ \E n \in Len(durable)..Len(disk) :
       /\ disk' = SubSeq(disk, 1, n)
       /\ lost' = lost \cup {disk[k] : k \in (n + 1)..Len(disk)}

\* What a service and its repository do by themselves.
Advance(s) ==
  \/ EnsureState(s) \/ RunMutator(s) \/ MutatorRefuses(s) \/ Rename(s) \/ Sync(s)
  \/ \E c \in Calls : c = call[s] /\ Loaded(c)
Save(s) == Compare(s) \/ Conflict(s)

Next ==
  \/ \E s \in Services :
       \/ \E c \in Calls : GetState(s, c) \/ Mutate(s, c)
       \/ EnsureState(s) \/ RunMutator(s) \/ MutatorRefuses(s)
       \/ Compare(s) \/ Conflict(s) \/ Rename(s) \/ Sync(s)
       \/ LoadFails(s) \/ SaveFails(s) \/ SyncFails(s)
  \/ \E c \in Calls : Loaded(c)
  \/ Crash
  \/ PowerLoss

Spec == Init /\ [][Next]_storeVars

\* Steps that are due are taken, and the first-come write queue lets every save run.
FairSpec ==
  /\ Spec
  /\ \A s \in Services : WF_storeVars(Advance(s)) /\ SF_storeVars(Save(s))

-----------------------------------------------------------------------------
(* Properties.                                                             *)

Register == INSTANCE RevisionedRegister WITH
  log <- disk, kept <- Len(durable),
  acknowledged <- {c \in Calls : answer[c] = "ok"}

\* Several services, failing files, crashes and power losses notwithstanding, the file is
\* a register to which every saved call was applied once, on the state before it, and
\* from which only a power loss takes calls, the latest first, and where directories can
\* be synced no acknowledged one.
ImplementsRegister == Register!Spec

\* A caller that was told of success (mutate resolves after syncDirectory) need not look
\* again: its call is on the file and, where directories can be synced, would still be
\* after a power loss.  Where they cannot, a power loss may have taken it, and nothing
\* else can.
AcknowledgedIsKept ==
  \A c \in Calls : answer[c] = "ok" =>
    c \in IF syncs THEN Range(disk) \cap Range(durable) ELSE Range(disk) \cup lost

\* A call with an expected revision was applied to the very state its caller had read,
\* unless a power loss took back something that caller had read.
GuardedCallSeesItsState ==
  \A k \in 1..Len(disk) :
    disk[k] \in Guarded =>
      \/ seen[disk[k]] = SubSeq(disk, 1, k - 1)
      \/ Range(seen[disk[k]]) \cap lost # {}

\* A caller told of a conflict may try again: its call was not applied.  One told of an
\* error has no such promise.
ConflictMeansNotApplied ==
  \A c \in Calls : answer[c] \in {"conflict", "refused"} => c \notin Range(disk)

\* Every call ends, whatever happens to the saves queued before it.
CallsEnd == \A s \in Services : phase[s] # "idle" ~> phase[s] = "idle"
=============================================================================
