-------------------------- MODULE MCJoystickDrive --------------------------
(* JoystickDrive in ticks of 50 ms, with the timeouts of the               *)
(* configuration, a short queue and an executor that is late by one tick.  *)
EXTENDS JoystickDrive
=============================================================================
