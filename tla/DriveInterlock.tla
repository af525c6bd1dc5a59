--------------------------- MODULE DriveInterlock ---------------------------
(***************************************************************************)
(* What the wheel driver promises to the rest of the rover, with no        *)
(* threads, no serial bus and no lifecycle callbacks in it: a wheel may    *)
(* only be ordered to turn while the drive is armed and only if a          *)
(* controller has asked for it since it was armed, arming never makes a    *)
(* wheel turn, and disarming leaves none turning.                          *)
(*                                                                         *)
(* ST3215System is shown to implement this module.                         *)
(***************************************************************************)
CONSTANT Servo          \* the servos of the rover

VARIABLES
  armed,                \* may controllers command motion?
  wanted,               \* servos a controller has asked to turn since arming
  turning               \* servos whose last delivered order is "turn"

vars == <<armed, wanted, turning>>

TypeOK ==
  /\ armed \in BOOLEAN
  /\ wanted \in SUBSET Servo
  /\ turning \in SUBSET Servo

Init ==
  /\ armed = FALSE
  /\ wanted = {}
  /\ turning = {}

\* Arming needs every wheel at rest and starts with nothing asked for.
Arm ==
  /\ ~armed
  /\ turning = {}
  /\ armed' = TRUE
  /\ UNCHANGED <<wanted, turning>>

\* The controllers ask for motion.
Ask ==
  /\ armed
  /\ \E more \in SUBSET Servo : wanted' = wanted \union more
  /\ UNCHANGED <<armed, turning>>

\* The wheels follow: only those that were asked for may turn.
Drive ==
  /\ armed
  /\ turning' \in SUBSET wanted
  /\ UNCHANGED <<armed, wanted>>

\* Disarming, however it comes about, leaves no wheel ordered to turn.
Disarm ==
  /\ armed
  /\ armed' = FALSE
  /\ wanted' = {}
  /\ turning' = {}

Next == Arm \/ Ask \/ Drive \/ Disarm

Spec == Init /\ [][Next]_vars

\* What a user of the drive may rely on: a wheel is ordered to turn only
\* while the drive is armed, and only if it was asked for since then.
TurnsOnlyIfAsked == turning \subseteq IF armed THEN wanted ELSE {}
=============================================================================
