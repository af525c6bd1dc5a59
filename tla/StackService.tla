---------------------------- MODULE StackService ----------------------------
(***************************************************************************)
(* What the mission orchestrator promises for each launch stack, with no   *)
(* process groups, signals or timeouts in it: one set of its processes at  *)
(* a time, and a stack that is restarted comes back with the parameters    *)
(* asked for last.                                                         *)
(*                                                                         *)
(* MissionOrchestrator is shown to implement this module.                  *)
(***************************************************************************)
CONSTANTS
  Stack,                \* the stacks
  Params,               \* parameter files to run a stack with
  None

VARIABLES
  wish,                 \* the parameters each stack is wanted with, or None
  run                   \* the parameters its processes run with, or None

vars == <<wish, run>>

Choice == [Stack -> Params \union {None}]

Init ==
  /\ wish \in Choice
  /\ run = wish

\* The stack is asked for; it starts at once if nothing of it runs.
Ask(s) ==
  /\ wish'[s] \in Params
  /\ run'[s] = run[s] \/ (run[s] = None /\ run'[s] = wish'[s])

\* Its processes start, with the last wish, when all those before are gone.
Begin(s) ==
  /\ run[s] = None
  /\ run'[s] = wish[s]
  /\ wish'[s] = wish[s]

\* The last of its processes ends.
End(s) ==
  /\ run'[s] = None
  /\ wish'[s] = wish[s]

\* The wish ends: a failure, a shutdown, or processes that ended by themselves.
Forget(s) ==
  /\ wish'[s] = None
  /\ run'[s] = run[s]

Next ==
  /\ wish' \in Choice
  /\ run' \in Choice
  /\ \A s \in Stack :
       \/ Ask(s) \/ Begin(s) \/ End(s) \/ Forget(s)
       \/ wish'[s] = wish[s] /\ run'[s] = run[s]

Spec == Init /\ [][Next]_vars
=============================================================================
