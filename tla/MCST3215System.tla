--------------------------- MODULE MCST3215System ---------------------------
(* Two servos and the speeds "stopped" and "turning" for ST3215System.     *)
EXTENDS ST3215System

MCSpeed == {0, 1}
=============================================================================
