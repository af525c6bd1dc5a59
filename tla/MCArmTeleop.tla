---------------------------- MODULE MCArmTeleop ----------------------------
(* ArmTeleop with one pair of servos: no step of one pair reads another.  *)
EXTENDS ArmTeleop

MCNoGoal == -1
=============================================================================
