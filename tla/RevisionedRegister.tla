-------------------------- MODULE RevisionedRegister --------------------------
(***************************************************************************)
(* What a mission store promises its callers: the mission state is the     *)
(* result of a sequence of calls, each applied to the result of the ones   *)
(* before it.  A call may be applied without its caller ever being told,   *)
(* and such a call may be lost again.  One that was acknowledged is kept,  *)
(* as far as the medium can be told to keep it: on a medium that cannot,   *)
(* acknowledged calls are lost like the others, the latest first.          *)
(***************************************************************************)
EXTENDS Naturals, Sequences, Functions

CONSTANT Calls      \* the calls ever made; each is made once

VARIABLES
  log,            \* the calls applied, in order; the revision is its length
  kept,           \* how many of them will not be lost any more
  acknowledged,   \* the calls whose callers were told that they were applied
  syncs           \* whether the medium can be told to keep what it has

registerVars == <<log, kept, acknowledged, syncs>>

Init == log = <<>> /\ kept = 0 /\ acknowledged = {} /\ syncs \in BOOLEAN

Apply(c) ==
  /\ c \notin Range(log)
  /\ log' = Append(log, c)
  /\ UNCHANGED <<kept, acknowledged, syncs>>

Keep(told) ==
  /\ told \subseteq Range(log)
  /\ kept' = IF syncs THEN Len(log) ELSE kept
  /\ acknowledged' = acknowledged \cup told
  /\ UNCHANGED <<log, syncs>>

Lose(n) ==
  /\ n \in kept..Len(log)
  /\ log' = SubSeq(log, 1, n)
  /\ UNCHANGED <<kept, acknowledged, syncs>>

Next ==
  \/ \E c \in Calls : Apply(c) \/ Keep({c})
  \/ \E n \in kept..Len(log) : Lose(n)

Spec == Init /\ [][Next]_registerVars
=============================================================================
