--------------------------- MODULE WaypointsBridge ---------------------------
(***************************************************************************)
(* The Nav2 waypoints bridge: its goal tracker, the services that run and  *)
(* cancel a list of waypoints, the callbacks of the action client, and the *)
(* timer that tells the web page whether navigation is active.  Callbacks  *)
(* run one at a time (rclcpp::spin), each of them is one action.           *)
(*                                                                         *)
(* The action server is external: it accepts or rejects a goal, ends it    *)
(* when it likes, obeys a cancel, and may die and come back with nothing   *)
(* left of its goals.  Requests, responses, results and feedback are       *)
(* delivered late and in any order.                                        *)
(***************************************************************************)
EXTENDS Integers

CONSTANTS
  MaxRuns,           \* bound: how often run_waypoints is called
  ActivityTimeout    \* kActivityTimeoutSec, in ticks

ASSUME RunsAssumption == MaxRuns \in Nat
ASSUME TimeoutAssumption == ActivityTimeout \in Nat \ {0}

Token == 1..MaxRuns
None  == 0           \* no handle

VARIABLES
  current,           \* GoalTracker._current
  state,             \* GoalTracker._state
  handle,            \* GoalTracker._handle: the token of the goal, or None
  quiet,             \* ticks since _last_activity_time
  active,            \* navigation_active, as published last
  goal,              \* what the server knows of each goal
  response,          \* goal responses under way
  asked,             \* goals whose result the client has asked for
  cancels,           \* cancel requests under way
  feedback,          \* feedback messages under way
  dropped,           \* history: goals the user cancelled
  heard              \* history: ticks since the last sign of the current goal

trackerVars == <<current, state, handle>>
clientVars  == <<response, asked, cancels, feedback>>
vars == <<current, state, handle, quiet, active, goal, response, asked,
          cancels, feedback, dropped, heard>>

Fate == {"unsent", "requested", "running", "canceling", "over", "lost"}

TypeOK ==
  /\ current \in 0..MaxRuns
  /\ state \in {"Idle", "Pending", "Active"}
  /\ handle \in Token \union {None}
  /\ quiet \in 0..ActivityTimeout
  /\ active \in BOOLEAN
  /\ goal \in [Token -> Fate]
  /\ response \in [Token -> {"none", "accepted", "rejected"}]
  /\ asked \in SUBSET Token
  /\ cancels \in SUBSET Token
  /\ feedback \in SUBSET Token
  /\ dropped \in SUBSET Token
  /\ heard \in 0..ActivityTimeout

IsCurrent(t) == t = current /\ state # "Idle"
Busy         == state # "Idle"

-----------------------------------------------------------------------------
(* The bridge.                                                             *)

\* As BeginRequest, with the handle cancelled whether or not there is one.
BeginRequestNoNullCheck ==
  /\ current' = current + 1
  /\ cancels' = cancels \union {handle}
  /\ handle' = None
  /\ state' = "Pending"

\* begin_request: a new token; the handle of an active goal is handed back
\* to be cancelled.
BeginRequest ==
  /\ current' = current + 1
  /\ cancels' = IF state = "Active" THEN cancels \union {handle} ELSE cancels
  /\ handle' = None
  /\ state' = "Pending"

\* on_run with waypoints and a server: supersede the goal, send the new one.
\* When async_send_goal throws, the tracker has already moved on.
OnRun ==
  /\ current < MaxRuns
  /\ BeginRequest
  /\ quiet' = 0
  /\ heard' = 0
  /\ \E sent \in BOOLEAN :
       goal' = [goal EXCEPT ![current + 1] = IF sent THEN "requested"
                                                     ELSE "lost"]
  /\ UNCHANGED <<active, response, asked, feedback, dropped>>

\* As OnCancel, without the cancel request for an active goal.
OnCancelForgets ==
  /\ dropped' = IF Busy THEN dropped \union {current} ELSE dropped
  /\ handle' = None
  /\ state' = "Idle"
  /\ UNCHANGED <<current, quiet, active, goal, response, asked, cancels,
                 feedback, heard>>

\* on_cancel: an active goal is cancelled now, a pending one on acceptance.
OnCancel ==
  /\ cancels' = IF state = "Active" THEN cancels \union {handle} ELSE cancels
  /\ dropped' = IF Busy THEN dropped \union {current} ELSE dropped
  /\ handle' = None
  /\ state' = "Idle"
  /\ UNCHANGED <<current, quiet, active, goal, response, asked, feedback,
                 heard>>

\* The goal response callback: a rejection clears the current request only.
OnRejection(t) ==
  /\ response[t] = "rejected"
  /\ response' = [response EXCEPT ![t] = "none"]
  /\ state' = IF t = current /\ state = "Pending" THEN "Idle" ELSE state
  /\ UNCHANGED <<current, handle, quiet, active, goal, asked, cancels,
                 feedback, dropped, heard>>

\* As OnAcceptance, leaving alone a goal that is not the current request.
OnAcceptanceIgnored(t) ==
  /\ response[t] = "accepted"
  /\ response' = [response EXCEPT ![t] = "none"]
  /\ asked' = asked \union {t}
  /\ IF t = current /\ state = "Pending"
     THEN /\ handle' = t
          /\ state' = "Active"
          /\ quiet' = 0
          /\ heard' = 0
     ELSE UNCHANGED <<handle, state, quiet, heard>>
  /\ UNCHANGED <<current, active, goal, cancels, feedback, dropped>>

\* The goal response callback: track the goal, or cancel it if it was
\* cancelled or superseded meanwhile.  The client then asks for the result.
OnAcceptance(t) ==
  /\ response[t] = "accepted"
  /\ response' = [response EXCEPT ![t] = "none"]
  /\ asked' = asked \union {t}
  /\ IF t = current /\ state = "Pending"
     THEN /\ handle' = t
          /\ state' = "Active"
          /\ quiet' = 0
          /\ heard' = 0
          /\ UNCHANGED cancels
     ELSE /\ cancels' = cancels \union {t}
          /\ UNCHANGED <<handle, state, quiet, heard>>
  /\ UNCHANGED <<current, active, goal, feedback, dropped>>

\* As OnResult, whatever goal the result is of.
OnResultAnyGoal(t) ==
  /\ t \in asked
  /\ goal[t] \in {"over", "lost"}
  /\ asked' = asked \ {t}
  /\ handle' = None
  /\ state' = "Idle"
  /\ UNCHANGED <<current, quiet, active, goal, response, cancels, feedback,
                 dropped, heard>>

\* The result callback: only the result of the current goal ends it.  Of a
\* goal it does not know, a restarted server says so, if it is asked.
OnResult(t) ==
  /\ t \in asked
  /\ goal[t] \in {"over", "lost"}
  /\ asked' = asked \ {t}
  /\ IF IsCurrent(t)
     THEN handle' = None /\ state' = "Idle"
     ELSE UNCHANGED <<handle, state>>
  /\ UNCHANGED <<current, quiet, active, goal, response, cancels, feedback,
                 dropped, heard>>

\* As OnFeedback, whatever goal the feedback is of.
OnFeedbackAnyGoal(t) ==
  /\ t \in feedback
  /\ feedback' = feedback \ {t}
  /\ quiet' = IF t \in asked THEN 0 ELSE quiet
  /\ heard' = IF t \in asked /\ t = current THEN 0 ELSE heard
  /\ UNCHANGED <<trackerVars, active, goal, response, asked, cancels, dropped>>

\* The feedback callback, which the client calls for goals it has a handle
\* of: a sign of life, if it is the current goal's.
OnFeedback(t) ==
  /\ t \in feedback
  /\ feedback' = feedback \ {t}
  /\ quiet' = IF t \in asked /\ IsCurrent(t) THEN 0 ELSE quiet
  /\ heard' = IF t \in asked /\ t = current THEN 0 ELSE heard
  /\ UNCHANGED <<trackerVars, active, goal, response, asked, cancels, dropped>>

\* As PublishNavInfo, without the timeout.
PublishNavInfoForever ==
  /\ active' = Busy
  /\ UNCHANGED <<trackerVars, quiet, goal, clientVars, dropped, heard>>

\* The 10 Hz timer.
PublishNavInfo ==
  /\ active' = (Busy /\ quiet < ActivityTimeout)
  /\ UNCHANGED <<trackerVars, quiet, goal, clientVars, dropped, heard>>

-----------------------------------------------------------------------------
(* The action server and time.                                             *)

Accept(t) ==
  /\ goal[t] = "requested"
  /\ goal' = [goal EXCEPT ![t] = "running"]
  /\ response' = [response EXCEPT ![t] = "accepted"]
  /\ UNCHANGED <<trackerVars, quiet, active, asked, cancels, feedback,
                 dropped, heard>>

Reject(t) ==
  /\ goal[t] = "requested"
  /\ goal' = [goal EXCEPT ![t] = "over"]
  /\ response' = [response EXCEPT ![t] = "rejected"]
  /\ UNCHANGED <<trackerVars, quiet, active, asked, cancels, feedback,
                 dropped, heard>>

\* A cancel request arrives; it concerns a goal that runs, or nothing.
ObeyCancel(t) ==
  /\ t \in cancels
  /\ cancels' = cancels \ {t}
  /\ goal' = IF goal[t] = "running" THEN [goal EXCEPT ![t] = "canceling"]
                                    ELSE goal
  /\ UNCHANGED <<trackerVars, quiet, active, response, asked, feedback,
                 dropped, heard>>

\* A goal is reached, fails, is preempted by another, or has been cancelled.
Finish(t) ==
  /\ goal[t] \in {"running", "canceling"}
  /\ goal' = [goal EXCEPT ![t] = "over"]
  /\ UNCHANGED <<trackerVars, quiet, active, clientVars, dropped, heard>>

SendFeedback(t) ==
  /\ goal[t] \in {"running", "canceling"}
  /\ feedback' = feedback \union {t}
  /\ UNCHANGED <<trackerVars, quiet, active, goal, response, asked, cancels,
                 dropped, heard>>

\* Nav2 dies and comes back: its goals are gone, and with them the results
\* that were not yet sent and any of the messages under way.
ServerRestart ==
  /\ \E sent \in SUBSET {t \in Token : goal[t] = "over"} :
       goal' = [t \in Token |-> IF goal[t] = "unsent" \/ t \in sent
                                THEN goal[t] ELSE "lost"]
  /\ \E kept \in SUBSET Token :
       response' = [t \in Token |-> IF t \in kept THEN response[t] ELSE "none"]
  /\ cancels' = {}
  /\ UNCHANGED <<trackerVars, quiet, active, asked, feedback, dropped, heard>>

Tick ==
  /\ quiet < ActivityTimeout \/ heard < ActivityTimeout
  /\ quiet' = IF quiet < ActivityTimeout THEN quiet + 1 ELSE quiet
  /\ heard' = IF heard < ActivityTimeout THEN heard + 1 ELSE heard
  /\ UNCHANGED <<trackerVars, active, goal, clientVars, dropped>>

Init ==
  /\ current = 0
  /\ state = "Idle"
  /\ handle = None
  /\ quiet = ActivityTimeout
  /\ active = FALSE
  /\ goal = [t \in Token |-> "unsent"]
  /\ response = [t \in Token |-> "none"]
  /\ asked = {}
  /\ cancels = {}
  /\ feedback = {}
  /\ dropped = {}
  /\ heard = ActivityTimeout

Callback(t) == OnRejection(t) \/ OnAcceptance(t) \/ OnResult(t) \/ OnFeedback(t)

Server(t) == Accept(t) \/ Reject(t) \/ ObeyCancel(t) \/ Finish(t)
             \/ SendFeedback(t)

Next ==
  \/ OnRun \/ OnCancel \/ PublishNavInfo \/ ServerRestart \/ Tick
  \/ \E t \in Token : Callback(t) \/ Server(t)

Safety == Init /\ [][Next]_vars

\* Messages arrive, the executor runs its callbacks and its timer, and the
\* server answers requests and stops a goal it was asked to cancel; it need
\* not ever finish a goal that nobody cancels.
Fairness ==
  /\ WF_vars(PublishNavInfo)
  /\ WF_vars(Tick)
  /\ \A t \in Token :
       /\ WF_vars(OnRejection(t) \/ OnAcceptance(t))
       /\ WF_vars(goal[t] = "over" /\ OnResult(t))
       /\ WF_vars(OnFeedback(t))
       /\ WF_vars(Accept(t) \/ Reject(t))
       /\ WF_vars(ObeyCancel(t))
       /\ WF_vars(goal[t] = "canceling" /\ Finish(t))

Spec == Safety /\ Fairness

-----------------------------------------------------------------------------
(* Properties.                                                             *)

\* No goal runs untracked: a goal that runs on the server and whose response
\* the bridge has seen is the one it tracks, or its cancel is on the way.
NoUntrackedGoal ==
  \A t \in Token :
    goal[t] = "running" /\ response[t] = "none" =>
      (state = "Active" /\ handle = t) \/ t \in cancels

\* navigation_active is published only when the current goal itself has
\* given a sign of life within the timeout: feedback of a goal that was
\* superseded or cancelled does not count for its successor.
ActiveWhenHeard ==
  [][PublishNavInfo /\ active' => heard < ActivityTimeout]_vars

\* The bridge keeps the promise of GoalControl: late responses and results
\* neither revive a goal that was given up nor end the one that is wanted.
Control == INSTANCE GoalControl WITH
  Goal    <- Token,
  wish    <- IF Busy THEN current ELSE None,
  live    <- {t \in Token : goal[t] \in {"requested", "running", "canceling"}},
  asked   <- 1..current

ImplementsGoalControl == Control!Spec

\* A goal that was cancelled or superseded stops, whenever that happened: on
\* its way to the server, before its response, or while it ran.
UnwantedGoalStops ==
  \A t \in Token :
    (goal[t] \in {"requested", "running", "canceling"} /\ ~IsCurrent(t))
      ~> (goal[t] \in {"over", "lost"})

\* A goal that Nav2 lost in a restart does not stay on the web page, though
\* neither a response nor a result will ever clear the tracker.
LostGoalFades ==
  \A t \in Token : (goal[t] = "lost" /\ IsCurrent(t)) ~> (~active \/ t # current)
=============================================================================
