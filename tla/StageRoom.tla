----------------------------- MODULE StageRoom ------------------------------
(***************************************************************************)
(* The room as the page sees it (apps/frontend/src/components/             *)
(* MainStage.tsx): the pages whose StageScene is connected.  StageRequest  *)
(* has what they say to each other about the stage, StagePage what one of  *)
(* them shows.                                                             *)
(***************************************************************************)
EXTENDS Naturals, FiniteSets

CONSTANTS
    Member,
    Feature     \* StageFeature

VARIABLE
    inRoom      \* the pages whose StageScene is connected

Host == "host"

ASSUME StageRoomAssumption ==
    /\ Host \notin Member
    /\ Feature \subseteq {"camera", "screen_share"}

Page == Member \cup {Host}

Add(f, m, x) == [f EXCEPT ![m] = @ \cup {x}]
Without(f, m, x) == [f EXCEPT ![m] = @ \ {x}]
=============================================================================
