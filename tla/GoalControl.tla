----------------------------- MODULE GoalControl -----------------------------
(***************************************************************************)
(* What the waypoints bridge promises to its user, with no tokens, no      *)
(* responses and no action server in it: at most one route is wanted, the  *)
(* one asked for last; a route that was given up is never wanted again;    *)
(* and short of the user, the wish ends only when its route has ended.     *)
(*                                                                         *)
(* WaypointsBridge is shown to implement this module.                      *)
(***************************************************************************)
CONSTANTS
  Goal,                 \* routes that can be asked for
  None                  \* no route

VARIABLES
  wish,                 \* the route the user wants, or None
  live,                 \* routes the rover drives, or may be about to drive
  asked,                \* routes asked for so far
  dropped               \* routes the user gave up

vars == <<wish, live, asked, dropped>>

Init ==
  /\ wish = None
  /\ live = {}
  /\ asked = {}
  /\ dropped = {}

\* A route is asked for, instead of the one before.
Ask(g) ==
  /\ g \notin asked
  /\ asked' = asked \union {g}
  /\ wish' = g
  /\ live' \in {live, live \union {g}}
  /\ UNCHANGED dropped

\* The user gives up the wish.
Drop ==
  /\ wish # None
  /\ dropped' = dropped \union {wish}
  /\ wish' = None
  /\ UNCHANGED <<live, asked>>

\* Routes end: driven, given up, refused or failed.
End ==
  /\ live' \in SUBSET live
  /\ UNCHANGED <<wish, asked, dropped>>

\* The wish ends because its route has.
Notice ==
  /\ wish \notin live
  /\ wish' = None
  /\ UNCHANGED <<live, asked, dropped>>

Next == (\E g \in Goal : Ask(g)) \/ Drop \/ End \/ Notice

Spec == Init /\ [][Next]_vars

\* What the user may rely on: what was given up stays given up, and what is
\* wanted was asked for.
GivenUpForGood == wish # None => wish \in asked \ dropped
=============================================================================
