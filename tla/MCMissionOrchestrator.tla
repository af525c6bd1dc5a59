----------------------- MODULE MCMissionOrchestrator -----------------------
(* Constants for TLC: three challenges, of which the second restarts Nav2  *)
(* as soon as its parameters are right and the others once they pass; the  *)
(* last one ends the mission.                                              *)
EXTENDS MissionOrchestrator

MCHasParamsCheck == {2}
MCRestartStack == <<"slam", "nav2", "nav2">>
MCEditSegment == <<1, 2, 4>>
=============================================================================
