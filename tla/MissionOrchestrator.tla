------------------------ MODULE MissionOrchestrator ------------------------
(***************************************************************************)
(* The mission orchestrator: MissionProgress, the two stacks it launches   *)
(* as process groups, the checkers' reports that restart them, the delayed *)
(* first start of Nav2, the supervision timer and the shutdown.            *)
(*                                                                         *)
(* rclpy.spin runs the callbacks one at a time, so each of them is one     *)
(* action.  The checkers report whenever they like and as often as they    *)
(* like; whether a reference file exists and whether a command can be      *)
(* started is up to the environment, and so is the life of the processes.  *)
(***************************************************************************)
EXTENDS ProcessGroup, Sequences

CONSTANTS
  NumChallenges,
  HasParamsCheck,     \* challenges with a params_checker_topic
  RestartStack,       \* the stack each challenge restarts, or None
  EditSegment,        \* challenge_indices: the segment of each challenge
  LastSegment,        \* index of the last segment
  SigintTimeout, SigtermTimeout,        \* of poll(), in ticks
  ShutdownSigint, ShutdownSigterm,      \* of stop_blocking()
  ShutdownGuard                         \* its margin before it gives up

Challenge == 1..NumChallenges
Stack  == {"slam", "nav2"}
Params == {"initial", "reference"}
None   == "none"

ASSUME MissionAssumption ==
  /\ NumChallenges \in Nat
  /\ HasParamsCheck \subseteq Challenge
  /\ RestartStack \in [Challenge -> Stack \union {None}]
  /\ EditSegment \in [Challenge -> Nat]
  /\ \A c, d \in Challenge : c < d => EditSegment[c] < EditSegment[d]
  /\ LastSegment \in Nat
  /\ \A c \in Challenge : EditSegment[c] <= LastSegment

ASSUME TimeoutAssumption ==
  /\ {SigintTimeout, SigtermTimeout, ShutdownSigint, ShutdownSigterm,
      ShutdownGuard} \subseteq Nat \ {0}
  /\ ShutdownSigint + ShutdownSigterm <= SigintTimeout + SigtermTimeout

MaxElapsed == SigintTimeout + SigtermTimeout

VARIABLES
  done,         \* MissionProgress.done
  fixed,        \* MissionProgress.params_fixed
  segment,      \* MissionProgress.current_idx
  startTimer,   \* _nav2_start_timer is armed
  proc,         \* the ManagedProcess of each stack, and its group
  pending,      \* Stack._pending_params
  stopping,     \* Stack._stopping
  params,       \* Stack.params_file
  phase,        \* "up", or the stack that shutdown() is stopping, or "over"
  waited,       \* ticks since stop_blocking() began
  polled,       \* it has polled since the last tick
  restarts      \* history: challenges whose restart was carried out

missionVars  == <<done, fixed, segment>>
stackVars    == <<proc, pending, stopping, params>>
shutdownVars == <<phase, waited, polled>>
vars == <<done, fixed, segment, startTimer, proc, pending, stopping, params,
          phase, waited, polled, restarts>>

-----------------------------------------------------------------------------
(* MissionProgress.                                                        *)

\* As Gate, for any challenge that has not passed.
GateAnyOrder(c) == ~done[c]

\* Only the first challenge that has not passed is accepted.
Gate(c) == ~done[c] /\ \A d \in 1..(c - 1) : done[d]

-----------------------------------------------------------------------------
(* Stack.                                                                  *)

\* start(): launch, or stop what runs and launch when it is gone.
StartStack(s, file, ok) ==
  IF proc[s].held
  THEN /\ pending' = [pending EXCEPT ![s] = file]
       /\ stopping' = [stopping EXCEPT ![s] = TRUE]
       /\ proc' = IF stopping[s] THEN proc
                  ELSE [proc EXCEPT ![s] = RequestStop(@)]
       /\ UNCHANGED params
  ELSE /\ proc' = [proc EXCEPT ![s] = StartProcess(@, ok)]
       /\ params' = IF ok THEN [params EXCEPT ![s] = file] ELSE params
       /\ UNCHANGED <<pending, stopping>>

\* _restart_stack_for.
RestartFor(c) ==
  \/ /\ RestartStack[c] # None
     /\ \E ok \in BOOLEAN : StartStack(RestartStack[c], "reference", ok)
     /\ restarts' = Append(restarts, c)
  \/ UNCHANGED <<stackVars, restarts>>         \* none, or no reference file

\* As OnParamsFixed, without remembering that the fix was accepted.
OnParamsFixedAgain(c) ==
  /\ phase = "up" /\ c \in HasParamsCheck
  /\ Gate(c) /\ ~fixed[c]
  /\ RestartFor(c)
  /\ UNCHANGED <<missionVars, startTimer, shutdownVars>>

\* _on_params_fixed, when the report is accepted.
OnParamsFixed(c) ==
  /\ phase = "up" /\ c \in HasParamsCheck
  /\ Gate(c) /\ ~fixed[c]
  /\ fixed' = [fixed EXCEPT ![c] = TRUE]
  /\ RestartFor(c)
  /\ UNCHANGED <<done, segment, startTimer, shutdownVars>>

\* As OnChallengePassed, with no regard to the end of the mission.
OnChallengePassedNoMin(c) ==
  /\ phase = "up"
  /\ Gate(c) /\ (c \in HasParamsCheck => fixed[c])
  /\ done' = [done EXCEPT ![c] = TRUE]
  /\ segment' = EditSegment[c] + 1
  /\ IF c \in HasParamsCheck THEN UNCHANGED <<stackVars, restarts>>
                             ELSE RestartFor(c)
  /\ UNCHANGED <<fixed, startTimer, shutdownVars>>

\* _on_challenge_passed, when the report is accepted.
OnChallengePassed(c) ==
  /\ phase = "up"
  /\ Gate(c) /\ (c \in HasParamsCheck => fixed[c])
  /\ done' = [done EXCEPT ![c] = TRUE]
  /\ segment' = IF EditSegment[c] < LastSegment THEN EditSegment[c] + 1
                                               ELSE LastSegment
  /\ IF c \in HasParamsCheck THEN UNCHANGED <<stackVars, restarts>>
                             ELSE RestartFor(c)
  /\ UNCHANGED <<fixed, startTimer, shutdownVars>>

\* As StartNav2, even if Nav2 was launched before.
StartNav2Anyway ==
  /\ phase = "up" /\ startTimer
  /\ startTimer' = FALSE
  /\ \E ok \in BOOLEAN : StartStack("nav2", "initial", ok)
  /\ UNCHANGED <<missionVars, shutdownVars, restarts>>

\* _start_nav2: the first start, unless a challenge was faster.
StartNav2 ==
  /\ phase = "up" /\ startTimer
  /\ startTimer' = FALSE
  /\ IF params["nav2"] = None
     THEN \E ok \in BOOLEAN : StartStack("nav2", "initial", ok)
     ELSE UNCHANGED stackVars
  /\ UNCHANGED <<missionVars, shutdownVars, restarts>>

\* _supervise: poll both stacks; what is gone is launched again, if wanted.
Supervise ==
  LET next(s) == Poll(proc[s], SigintTimeout, SigtermTimeout)
      gone(s) == proc[s].held /\ ~next(s).held
  IN
  /\ phase = "up"
  /\ \E ok \in [Stack -> BOOLEAN] :
       /\ proc' = [s \in Stack |->
            IF gone(s) /\ pending[s] # None THEN StartProcess(next(s), ok[s])
                                            ELSE next(s)]
       /\ params' = [s \in Stack |->
            IF gone(s) /\ pending[s] # None /\ ok[s] THEN pending[s]
                                                     ELSE params[s]]
  /\ stopping' = [s \in Stack |-> stopping[s] /\ ~gone(s)]
  /\ pending' = [s \in Stack |-> IF gone(s) THEN None ELSE pending[s]]
  /\ UNCHANGED <<missionVars, startTimer, shutdownVars, restarts>>

-----------------------------------------------------------------------------
(* Shutdown: the stacks are stopped one after the other.                   *)

StopStack(s) ==
  /\ phase' = s
  /\ pending' = [pending EXCEPT ![s] = None]
  /\ proc' = [proc EXCEPT ![s] = RequestStop(@)]
  /\ waited' = 0
  /\ polled' = FALSE

\* The node is interrupted.
BeginShutdown ==
  /\ phase = "up"
  /\ StopStack("slam")
  /\ UNCHANGED <<missionVars, startTimer, stopping, params, restarts>>

\* As Deadline, without the time SIGTERM is given.
DeadlineShort == ShutdownSigint + ShutdownGuard

Deadline == ShutdownSigint + ShutdownSigterm + ShutdownGuard

\* The loop of stop_blocking polls, and goes on unless it has to wait.
ShutdownPoll ==
  /\ phase \in Stack
  /\ LET next == Poll(proc[phase], ShutdownSigint, ShutdownSigterm) IN
     IF State(next) = "stopping" /\ waited < Deadline
     THEN /\ proc' = [proc EXCEPT ![phase] = next]
          /\ polled' = TRUE
          /\ UNCHANGED <<phase, waited, pending>>
     ELSE IF phase = "slam"
     THEN /\ proc' = [proc EXCEPT ![phase] = next,
                                  !["nav2"] = RequestStop(@)]
          /\ phase' = "nav2"
          /\ pending' = [pending EXCEPT !["nav2"] = None]
          /\ waited' = 0
          /\ polled' = FALSE
     ELSE /\ proc' = [proc EXCEPT ![phase] = next]
          /\ phase' = "over"
          /\ UNCHANGED <<pending, waited, polled>>
  /\ UNCHANGED <<missionVars, startTimer, stopping, params, restarts>>

-----------------------------------------------------------------------------
(* The processes and time.                                                 *)

LeaderEnds(s) ==
  /\ proc[s].leader = "alive"
  /\ proc' = [proc EXCEPT ![s].leader = "zombie"]
  /\ UNCHANGED <<missionVars, startTimer, pending, stopping, params,
                 shutdownVars, restarts>>

NodesEnd(s) ==
  /\ proc[s].node
  /\ proc' = [proc EXCEPT ![s].node = FALSE]
  /\ UNCHANGED <<missionVars, startTimer, pending, stopping, params,
                 shutdownVars, restarts>>

\* The launch starts its nodes, now or again after they ended.
Spawn(s) ==
  /\ proc[s].leader = "alive" /\ ~proc[s].node /\ proc[s].sent # "SIGKILL"
  /\ proc' = [proc EXCEPT ![s].node = TRUE]
  /\ UNCHANGED <<missionVars, startTimer, pending, stopping, params,
                 shutdownVars, restarts>>

\* Seconds pass; the loop of stop_blocking polls many times in each of them.
Tick ==
  /\ phase = "over" \/ phase = "up" \/ polled
  /\ proc' = [s \in Stack |->
       IF proc[s].elapsed \in 0..(MaxElapsed - 1)
       THEN [proc[s] EXCEPT !.elapsed = @ + 1] ELSE proc[s]]
  /\ waited' = IF phase \in Stack /\ waited < Deadline THEN waited + 1 ELSE waited
  /\ polled' = FALSE
  /\ UNCHANGED <<missionVars, startTimer, pending, stopping, params, phase,
                 restarts>>

\* __init__: SLAM is launched, Nav2 when the timer fires.
Init ==
  /\ done = [c \in Challenge |-> FALSE]
  /\ fixed = [c \in Challenge |-> FALSE]
  /\ segment = 0
  /\ startTimer = TRUE
  /\ \E ok \in BOOLEAN :
       /\ proc = [s \in Stack |-> IF s = "slam" THEN StartProcess(NewProcess, ok)
                                                ELSE NewProcess]
       /\ params = [s \in Stack |-> IF s = "slam" /\ ok THEN "initial" ELSE None]
  /\ pending = [s \in Stack |-> None]
  /\ stopping = [s \in Stack |-> FALSE]
  /\ phase = "up"
  /\ waited = 0
  /\ polled = FALSE
  /\ restarts = <<>>

Report(c) == OnParamsFixed(c) \/ OnChallengePassed(c)

Group(s) == LeaderEnds(s) \/ NodesEnd(s) \/ Spawn(s)

Next ==
  \/ \E c \in Challenge : Report(c)
  \/ StartNav2 \/ Supervise \/ BeginShutdown \/ ShutdownPoll \/ Tick
  \/ \E s \in Stack : Group(s)

Safety == Init /\ [][Next]_vars

\* The timers of the node fire, time passes, and SIGKILL ends a process.
Fairness ==
  /\ WF_vars(Supervise)
  /\ WF_vars(ShutdownPoll)
  /\ WF_vars(Tick)
  /\ \A s \in Stack :
       WF_vars(proc[s].sent = "SIGKILL" /\ (LeaderEnds(s) \/ NodesEnd(s)))

Spec == Safety /\ Fairness

-----------------------------------------------------------------------------
(* Properties.                                                             *)

TypeOK ==
  /\ done \in [Challenge -> BOOLEAN]
  /\ fixed \in [Challenge -> BOOLEAN]
  /\ segment \in 0..LastSegment
  /\ startTimer \in BOOLEAN
  /\ proc \in [Stack -> Process(MaxElapsed)]
  /\ pending \in [Stack -> Params \union {None}]
  /\ stopping \in [Stack -> BOOLEAN]
  /\ params \in [Stack -> Params \union {None}]
  /\ phase \in Stack \union {"up", "over"}
  /\ waited \in 0..Deadline
  /\ polled \in BOOLEAN
  /\ restarts \in Seq(Challenge)

\* Stacks are restarted in the order of the mission and once per challenge,
\* however often and in whatever order the checkers repeat their reports.
RestartsInMissionOrder ==
  \A i, j \in 1..Len(restarts) : i < j => restarts[i] < restarts[j]

\* The viewer is never shown a segment behind a challenge that has not passed.
NoChallengeSkipped ==
  \A c \in Challenge : segment > EditSegment[c] => done[c]

\* A stack that was launched with the reference parameters never goes back to
\* the broken ones, whenever the delayed first start of Nav2 fires.
ReferenceSticks ==
  [][\A s \in Stack : params[s] = "reference" => params'[s] = "reference"]_vars

\* When the node has shut down, what is left of a stack was sent SIGKILL,
\* even if it ignored every other signal.
NothingOutlivesShutdown ==
  phase = "over" =>
    \A s \in Stack : Alive(proc[s]) => proc[s].sent = "SIGKILL"

\* The orchestrator keeps the promise of StackService: no process of a launch
\* is left when the next one starts, which has the parameters asked for last.
Service == INSTANCE StackService WITH
  wish <- [s \in Stack |->
             IF pending[s] # None THEN pending[s]
             ELSE IF State(proc[s]) = "running" THEN params[s] ELSE None],
  run  <- [s \in Stack |-> IF Alive(proc[s]) THEN params[s] ELSE None]

ImplementsService == Service!Spec

\* A restart that was asked for is carried out (or fails, or the node shuts
\* down), even if the processes in its way ignore SIGINT and SIGTERM.
RestartCompletes == \A s \in Stack : pending[s] # None ~> pending[s] = None

\* The comment of poll(): a leader that exits on its own reports exited even
\* if stragglers remain.
UnexpectedExitReported ==
  [][\A s \in Stack :
       Supervise /\ State(proc[s]) = "running" /\ proc[s].leader = "zombie"
         => State(proc'[s]) = "exited"]_vars
=============================================================================
