-------------------------- MODULE MCWheelOdometry --------------------------
(* Angles over more than two revolutions, at the edges of the encoder range *)
(* and on both sides of half a revolution from each other.                  *)
EXTENDS WheelOdometry

MCAngle == {-2049, -2048, -1, 0, 2047, 2048, 4096, 6143}
=============================================================================
