--------------------------- MODULE MCMissionStore ---------------------------
(* Two services over one state file. *)
EXTENDS MissionStore
=============================================================================
