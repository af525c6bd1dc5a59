-------------------------- MODULE MCServoFeedback --------------------------
(* Two servos, the second one mirrored, driven forward only.               *)
EXTENDS ServoFeedback

MCInverted == {2}
MCCommand  == {0, 1}
=============================================================================
