----------------------- MODULE WaypointsBridge_proofs -----------------------
(***************************************************************************)
(* Proofs about WaypointsBridge for any number of runs and any timeout.    *)
(* The inductive invariant says which handle the tracker holds in which    *)
(* state, that tokens not yet given out are unknown to client and server,  *)
(* and that a response under way agrees with the goal it is about.         *)
(***************************************************************************)
EXTENDS WaypointsBridge, TLAPS

TrackerInv ==
  /\ state = "Active" => handle = current
  /\ state # "Active" => handle = None
  /\ Busy => current \in Token

\* What is not yet sent is unknown; a response comes before the result.
GoalInv ==
  \A t \in Token :
    /\ t > current => goal[t] = "unsent"
    /\ response[t] = "rejected" => goal[t] \in {"over", "lost"}

\* The activity time is never younger than the current goal's own.
HeardInv == Busy => heard <= quiet

IInv == TypeOK /\ TrackerInv /\ GoalInv /\ HeardInv /\ NoUntrackedGoal

-----------------------------------------------------------------------------

LEMMA TypeInit == Init => TypeOK
  <1> SUFFICES ASSUME Init PROVE TypeOK
    OBVIOUS
  <1>1. current \in 0..MaxRuns
    BY RunsAssumption DEF Init
  <1>2. quiet \in 0..ActivityTimeout /\ heard \in 0..ActivityTimeout
    BY TimeoutAssumption DEF Init
  <1> QED
    BY <1>1, <1>2 DEF Init, TypeOK, Fate

LEMMA TypeStep == TypeOK /\ TrackerInv /\ [Next]_vars => TypeOK'
  <1> SUFFICES ASSUME TypeOK, TrackerInv, [Next]_vars PROVE TypeOK'
    OBVIOUS
  <1> USE DEF TypeOK, Fate, trackerVars, clientVars
  <1>1. CASE OnRun
    <2>1. current + 1 \in Token
      BY <1>1, RunsAssumption DEF OnRun, Token
    <2>2. current' \in 0..MaxRuns
      BY <1>1, RunsAssumption DEF OnRun, BeginRequest
    <2>3. cancels' \in SUBSET Token
      <3>1. state = "Active" => handle \in Token
        BY DEF TrackerInv, Busy
      <3> QED
        BY <1>1, <3>1 DEF OnRun, BeginRequest
    <2>4. goal' \in [Token -> Fate]
      BY <1>1, <2>1 DEF OnRun
    <2>5. quiet' \in 0..ActivityTimeout /\ heard' \in 0..ActivityTimeout
      BY <1>1, TimeoutAssumption DEF OnRun
    <2> QED
      BY <1>1, <2>2, <2>3, <2>4, <2>5 DEF OnRun, BeginRequest
  <1>2. CASE OnCancel
    BY <1>2 DEF OnCancel, TrackerInv, Busy
  <1>3. ASSUME NEW t \in Token, OnRejection(t) PROVE TypeOK'
    BY <1>3 DEF OnRejection
  <1>4. ASSUME NEW t \in Token, OnAcceptance(t) PROVE TypeOK'
    BY <1>4, TimeoutAssumption DEF OnAcceptance
  <1>5. ASSUME NEW t \in Token, OnResult(t) PROVE TypeOK'
    BY <1>5 DEF OnResult
  <1>6. ASSUME NEW t \in Token, OnFeedback(t) PROVE TypeOK'
    BY <1>6, TimeoutAssumption DEF OnFeedback
  <1>7. CASE PublishNavInfo
    BY <1>7 DEF PublishNavInfo
  <1>8. ASSUME NEW t \in Token, Accept(t) \/ Reject(t) PROVE TypeOK'
    BY <1>8 DEF Accept, Reject
  <1>9. ASSUME NEW t \in Token, ObeyCancel(t) PROVE TypeOK'
    BY <1>9 DEF ObeyCancel
  <1>10. ASSUME NEW t \in Token, Finish(t) \/ SendFeedback(t) PROVE TypeOK'
    BY <1>10 DEF Finish, SendFeedback
  <1>11. CASE ServerRestart
    BY <1>11 DEF ServerRestart
  <1>12. CASE Tick
    BY <1>12, TimeoutAssumption DEF Tick
  <1>13. CASE UNCHANGED vars
    BY <1>13 DEF vars
  <1> QED
    BY <1>1, <1>2, <1>3, <1>4, <1>5, <1>6, <1>7, <1>8, <1>9, <1>10, <1>11,
       <1>12, <1>13
    DEF Next, Callback, Server

LEMMA TrackerStep ==
  TypeOK /\ TrackerInv /\ HeardInv /\ [Next]_vars => TrackerInv' /\ HeardInv'
  <1> SUFFICES ASSUME TypeOK, TrackerInv, HeardInv, [Next]_vars
               PROVE  TrackerInv' /\ HeardInv'
    OBVIOUS
  <1>0. quiet \in Nat /\ heard \in Nat /\ quiet <= ActivityTimeout
    BY TimeoutAssumption DEF TypeOK
  <1> USE DEF TrackerInv, HeardInv, Busy, IsCurrent, trackerVars, clientVars
  <1>1. CASE OnRun
    <2>1. current + 1 \in Token
      BY <1>1, RunsAssumption DEF OnRun, Token, TypeOK
    <2> QED
      BY <1>1, <2>1 DEF OnRun, BeginRequest
  <1>2. CASE OnCancel
    BY <1>2 DEF OnCancel
  <1>3. ASSUME NEW t \in Token, OnRejection(t) PROVE TrackerInv' /\ HeardInv'
    BY <1>3 DEF OnRejection
  <1>4. ASSUME NEW t \in Token, OnAcceptance(t) PROVE TrackerInv' /\ HeardInv'
    BY <1>4 DEF OnAcceptance
  <1>5. ASSUME NEW t \in Token, OnResult(t) PROVE TrackerInv' /\ HeardInv'
    BY <1>5 DEF OnResult
  <1>6. ASSUME NEW t \in Token, OnFeedback(t) PROVE TrackerInv' /\ HeardInv'
    BY <1>0, <1>6 DEF OnFeedback
  <1>7. CASE PublishNavInfo
    BY <1>7 DEF PublishNavInfo
  <1>8. ASSUME NEW t \in Token, Accept(t) \/ Reject(t) PROVE TrackerInv' /\ HeardInv'
    BY <1>8 DEF Accept, Reject
  <1>9. ASSUME NEW t \in Token, ObeyCancel(t) PROVE TrackerInv' /\ HeardInv'
    BY <1>9 DEF ObeyCancel
  <1>10. ASSUME NEW t \in Token, Finish(t) \/ SendFeedback(t)
        PROVE  TrackerInv' /\ HeardInv'
    BY <1>10 DEF Finish, SendFeedback
  <1>11. CASE ServerRestart
    BY <1>11 DEF ServerRestart
  <1>12. CASE Tick
    <2>1. heard <= quiet => heard' <= quiet'
      BY <1>0, <1>12, TimeoutAssumption DEF Tick
    <2> QED
      BY <1>12, <2>1 DEF Tick
  <1>13. CASE UNCHANGED vars
    BY <1>13 DEF vars
  <1> QED
    BY <1>1, <1>2, <1>3, <1>4, <1>5, <1>6, <1>7, <1>8, <1>9, <1>10, <1>11,
       <1>12, <1>13
    DEF Next, Callback, Server

LEMMA GoalStep == TypeOK /\ TrackerInv /\ GoalInv /\ [Next]_vars => GoalInv'
  <1> SUFFICES ASSUME TypeOK, TrackerInv, GoalInv, [Next]_vars,
                      NEW t \in Token
               PROVE  /\ t > current' => goal'[t] = "unsent"
                      /\ response'[t] = "rejected" => goal'[t] \in {"over", "lost"}
    BY DEF GoalInv
  <1>0. /\ t > current => goal[t] = "unsent"
        /\ response[t] = "rejected" => goal[t] \in {"over", "lost"}
        /\ goal \in [Token -> Fate]
        /\ response \in [Token -> {"none", "accepted", "rejected"}]
        /\ current \in Nat /\ t \in Nat
    BY RunsAssumption DEF GoalInv, TypeOK, Token
  <1> USE DEF trackerVars, clientVars
  <1>1. CASE OnRun
    <2>1. current' = current + 1 /\ current + 1 \in Token
      BY <1>1, RunsAssumption DEF OnRun, BeginRequest, Token, TypeOK
    <2>2. t # current + 1 => goal'[t] = goal[t]
      BY <1>0, <1>1 DEF OnRun
    <2>3. response[current + 1] # "rejected"
      BY <1>0, <2>1 DEF GoalInv
    <2>4. response' = response
      BY <1>1 DEF OnRun
    <2> QED
      BY <1>0, <2>1, <2>2, <2>3, <2>4
  <1>2. CASE OnCancel
    BY <1>0, <1>2 DEF OnCancel
  <1>3. ASSUME NEW s \in Token, OnRejection(s) \/ OnAcceptance(s)
        PROVE  /\ t > current' => goal'[t] = "unsent"
               /\ response'[t] = "rejected" => goal'[t] \in {"over", "lost"}
    <2>1. /\ UNCHANGED <<current, goal>>
          /\ response' = [response EXCEPT ![s] = "none"]
      BY <1>3 DEF OnRejection, OnAcceptance
    <2> QED
      BY <1>0, <2>1
  <1>4. ASSUME NEW s \in Token, OnResult(s) \/ OnFeedback(s) \/ SendFeedback(s)
        PROVE  UNCHANGED <<current, goal, response>>
    BY <1>4 DEF OnResult, OnFeedback, SendFeedback
  <1>5. ASSUME PublishNavInfo \/ Tick \/ UNCHANGED vars
        PROVE  UNCHANGED <<current, goal, response>>
    BY <1>5 DEF PublishNavInfo, Tick, vars
  <1>6. ASSUME NEW s \in Token, Accept(s) \/ Reject(s)
        PROVE  /\ t > current' => goal'[t] = "unsent"
               /\ response'[t] = "rejected" => goal'[t] \in {"over", "lost"}
    <2>1. goal[s] = "requested" /\ current' = current
      BY <1>6 DEF Accept, Reject
    <2>2. CASE t = s
      BY <1>0, <1>6, <2>1, <2>2 DEF Accept, Reject
    <2>3. CASE t # s
      BY <1>0, <1>6, <2>1, <2>3 DEF Accept, Reject
    <2> QED
      BY <2>2, <2>3
  <1>7. ASSUME NEW s \in Token, ObeyCancel(s)
        PROVE  /\ t > current' => goal'[t] = "unsent"
               /\ response'[t] = "rejected" => goal'[t] \in {"over", "lost"}
    <2>1. current' = current /\ response' = response
      BY <1>7 DEF ObeyCancel
    <2>2. \/ goal'[t] = goal[t]
          \/ goal[t] \in {"running"} /\ goal'[t] = "canceling"
      <3>1. CASE t = s
        BY <1>0, <1>7, <3>1 DEF ObeyCancel
      <3>2. CASE t # s
        BY <1>0, <1>7, <3>2 DEF ObeyCancel
      <3> QED
        BY <3>1, <3>2
    <2> QED
      BY <1>0, <2>1, <2>2
  <1>8. ASSUME NEW s \in Token, Finish(s)
        PROVE  /\ t > current' => goal'[t] = "unsent"
               /\ response'[t] = "rejected" => goal'[t] \in {"over", "lost"}
    <2>1. current' = current /\ response' = response
      BY <1>8 DEF Finish
    <2>2. \/ goal'[t] = goal[t]
          \/ goal[t] \in {"running", "canceling"} /\ goal'[t] = "over"
      <3>1. CASE t = s
        BY <1>0, <1>8, <3>1 DEF Finish
      <3>2. CASE t # s
        BY <1>0, <1>8, <3>2 DEF Finish
      <3> QED
        BY <3>1, <3>2
    <2> QED
      BY <1>0, <2>1, <2>2
  <1>9. CASE ServerRestart
    <2>1. current' = current
      BY <1>9 DEF ServerRestart
    <2>2. (goal'[t] = "lost" /\ goal[t] # "unsent") \/ goal'[t] = goal[t]
      BY <1>9 DEF ServerRestart
    <2>3. response'[t] \in {response[t], "none"}
      BY <1>9 DEF ServerRestart
    <2> QED
      BY <1>0, <2>1, <2>2, <2>3
  <1> QED
    BY <1>0, <1>1, <1>2, <1>3, <1>4, <1>5, <1>6, <1>7, <1>8, <1>9
    DEF Next, Callback, Server

LEMMA UntrackedStep ==
  TypeOK /\ TrackerInv /\ GoalInv /\ NoUntrackedGoal /\ [Next]_vars
    => NoUntrackedGoal'
  <1> DEFINE Safe(t) ==
        goal[t] = "running" /\ response[t] = "none" =>
          (state = "Active" /\ handle = t) \/ t \in cancels
  <1> SUFFICES ASSUME TypeOK, TrackerInv, GoalInv, NoUntrackedGoal,
                      [Next]_vars, NEW t \in Token
               PROVE  Safe(t)'
    BY DEF NoUntrackedGoal
  <1>0. /\ Safe(t)
        /\ goal \in [Token -> Fate]
        /\ response \in [Token -> {"none", "accepted", "rejected"}]
        /\ response[t] = "rejected" => goal[t] \in {"over", "lost"}
    BY DEF NoUntrackedGoal, GoalInv, TypeOK
  <1> USE DEF trackerVars, clientVars
  <1>1. CASE OnRun
    <2>1. goal'[t] = "running" => goal[t] = "running"
      BY <1>0, <1>1 DEF OnRun
    <2>2. response' = response
      BY <1>1 DEF OnRun
    <2>3. state = "Active" /\ handle = t => t \in cancels'
      BY <1>1 DEF OnRun, BeginRequest
    <2>4. cancels \subseteq cancels'
      BY <1>1 DEF OnRun, BeginRequest
    <2> QED
      BY <1>0, <2>1, <2>2, <2>3, <2>4
  <1>2. CASE OnCancel
    BY <1>0, <1>2 DEF OnCancel
  <1>3. ASSUME NEW s \in Token, OnRejection(s) PROVE Safe(t)'
    <2>1. CASE t = s
      BY <1>0, <1>3, <2>1 DEF OnRejection
    <2>2. CASE t # s
      BY <1>0, <1>3, <2>2 DEF OnRejection
    <2> QED
      BY <2>1, <2>2
  <1>4. ASSUME NEW s \in Token, OnAcceptance(s) PROVE Safe(t)'
    <2>1. CASE t = s
      BY <1>0, <1>4, <2>1 DEF OnAcceptance
    <2>2. CASE t # s
      BY <1>0, <1>4, <2>2 DEF OnAcceptance, TrackerInv
    <2> QED
      BY <2>1, <2>2
  <1>5. ASSUME NEW s \in Token, OnResult(s) PROVE Safe(t)'
    <2>1. CASE IsCurrent(s)
      <3>1. state = "Active" /\ handle = t => t = s
        BY <2>1 DEF IsCurrent, TrackerInv
      <3>2. goal[s] # "running" /\ UNCHANGED <<goal, response, cancels>>
        BY <1>5 DEF OnResult
      <3> QED
        BY <1>0, <3>1, <3>2
    <2>2. CASE ~IsCurrent(s)
      BY <1>0, <1>5, <2>2 DEF OnResult
    <2> QED
      BY <2>1, <2>2
  <1>6. ASSUME NEW s \in Token, OnFeedback(s) \/ SendFeedback(s) PROVE Safe(t)'
    BY <1>0, <1>6 DEF OnFeedback, SendFeedback
  <1>7. CASE PublishNavInfo \/ Tick \/ UNCHANGED vars
    BY <1>0, <1>7 DEF PublishNavInfo, Tick, vars
  <1>8. ASSUME NEW s \in Token, Accept(s) \/ Reject(s) PROVE Safe(t)'
    <2>1. CASE t = s
      BY <1>0, <1>8, <2>1 DEF Accept, Reject
    <2>2. CASE t # s
      BY <1>0, <1>8, <2>2 DEF Accept, Reject
    <2> QED
      BY <2>1, <2>2
  <1>9. ASSUME NEW s \in Token, ObeyCancel(s) PROVE Safe(t)'
    <2>1. CASE t = s
      BY <1>0, <1>9, <2>1 DEF ObeyCancel
    <2>2. CASE t # s
      BY <1>0, <1>9, <2>2 DEF ObeyCancel
    <2> QED
      BY <2>1, <2>2
  <1>10. ASSUME NEW s \in Token, Finish(s) PROVE Safe(t)'
    <2>1. CASE t = s
      BY <1>0, <1>10, <2>1 DEF Finish
    <2>2. CASE t # s
      BY <1>0, <1>10, <2>2 DEF Finish
    <2> QED
      BY <2>1, <2>2
  <1>11. CASE ServerRestart
    <2>1. goal'[t] # "running"
      BY <1>0, <1>11 DEF ServerRestart
    <2> QED
      BY <2>1
  <1> QED
    BY <1>1, <1>2, <1>3, <1>4, <1>5, <1>6, <1>7, <1>8, <1>9, <1>10, <1>11
    DEF Next, Callback, Server

LEMMA InvInit == Init => IInv
  <1> SUFFICES ASSUME Init PROVE IInv
    OBVIOUS
  <1>1. TrackerInv /\ GoalInv /\ HeardInv /\ NoUntrackedGoal
    BY DEF Init, TrackerInv, GoalInv, HeardInv, NoUntrackedGoal, Busy, None
  <1> QED
    BY <1>1, TypeInit DEF IInv

LEMMA InvStep == IInv /\ [Next]_vars => IInv'
  BY TypeStep, TrackerStep, GoalStep, UntrackedStep DEF IInv

LEMMA InvHolds == Safety => []IInv
  BY InvInit, InvStep, PTL DEF Safety

-----------------------------------------------------------------------------

\* Type correctness, for any number of runs.
THEOREM TypeCorrect == Safety => []TypeOK
  BY InvHolds, PTL DEF IInv

\* No goal is left running without being tracked or about to be cancelled.
THEOREM NoUntrackedGoalHolds == Safety => []NoUntrackedGoal
  BY InvHolds, PTL DEF IInv

\* Navigation is shown as active only on a recent sign of the current goal.
THEOREM ActiveWhenHeardHolds == Safety => ActiveWhenHeard
  <1> DEFINE A == PublishNavInfo /\ active' => heard < ActivityTimeout
  <1>1. IInv => A
    <2> SUFFICES ASSUME IInv, PublishNavInfo, active' PROVE heard < ActivityTimeout
      OBVIOUS
    <2>1. active' = (Busy /\ quiet < ActivityTimeout)
      BY DEF PublishNavInfo
    <2>2. Busy /\ quiet < ActivityTimeout
      BY <2>1
    <2>3. heard <= quiet /\ heard \in Nat /\ quiet \in Nat
      BY <2>2, TimeoutAssumption DEF IInv, HeardInv, TypeOK
    <2> QED
      BY <2>2, <2>3, TimeoutAssumption
  <1>2. []IInv => [][A]_vars
    BY <1>1, PTL
  <1> QED
    BY InvHolds, <1>2, PTL DEF ActiveWhenHeard

-----------------------------------------------------------------------------
(* The bridge implements GoalControl.                                      *)

Live == {t \in Token : goal[t] \in {"requested", "running", "canceling"}}
Wish == IF Busy THEN current ELSE None

LEMMA ControlInit == Init => Control!Init
  <1> SUFFICES ASSUME Init PROVE Control!Init
    OBVIOUS
  <1>1. 1..current = {}
    BY DEF Init
  <1> QED
    BY <1>1 DEF Init, Control!Init, Busy, None

LEMMA ControlStep == IInv /\ [Next]_vars => [Control!Next]_(Control!vars)
  <1> SUFFICES ASSUME IInv, [Next]_vars
               PROVE  Control!Next \/ UNCHANGED Control!vars
    OBVIOUS
  <1>0. /\ TrackerInv /\ GoalInv
        /\ goal \in [Token -> Fate]
        /\ current \in Nat
        /\ \A t \in Token : t \in Nat
    BY RunsAssumption DEF IInv, TypeOK, Token
  <1> USE DEF trackerVars, clientVars
  <1>1. ASSUME UNCHANGED <<current, state, dropped>>, Live' \subseteq Live
        PROVE  Control!End
    BY <1>1 DEF Control!End, Live, Busy
  <1>2. ASSUME UNCHANGED <<current, dropped>>, Live' = Live, Busy' = Busy
        PROVE  UNCHANGED Control!vars
    BY <1>2 DEF Control!vars, Live
  <1>3. CASE OnRun
    <2>1. /\ current' = current + 1 /\ current + 1 \in Token
          /\ Busy' /\ UNCHANGED dropped
      BY <1>0, <1>3, RunsAssumption DEF OnRun, BeginRequest, Token, Busy
    <2>2. Live' \in {Live, Live \union {current + 1}}
      BY <1>0, <1>3, <2>1 DEF OnRun, Live, GoalInv
    <2>3. /\ current + 1 \notin 1..current
          /\ 1..(current + 1) = 1..current \union {current + 1}
      BY <1>0
    <2>4. current + 1 \in Token
      BY <2>1
    <2>5. PICK g \in Token : g = current + 1
      BY <2>4
    <2>6. /\ g \notin 1..current
          /\ 1..current' = 1..current \union {g}
          /\ (IF Busy THEN current ELSE None)' = g
      BY <2>1, <2>3, <2>5
    <2>7. Live' \in {Live, Live \union {g}}
      BY <2>2, <2>5
    <2>8. Control!Ask(g)
      BY <2>1, <2>6, <2>7 DEF Control!Ask, Live
    <2> QED
      BY <2>8 DEF Control!Next
  <1>4. CASE OnCancel
    <2>1. CASE Busy
      <3>1. Control!Drop
        BY <1>0, <1>4, <2>1
        DEF OnCancel, Control!Drop, Busy, TrackerInv, Token, None
      <3> QED
        BY <3>1 DEF Control!Next
    <2>2. CASE ~Busy
      BY <1>2, <1>4, <2>2 DEF OnCancel, Busy, Live
    <2> QED
      BY <2>1, <2>2
  <1>5. ASSUME NEW t \in Token, OnRejection(t)
        PROVE  Control!Next \/ UNCHANGED Control!vars
    <2>1. CASE t = current /\ state = "Pending"
      <3>1. goal[current] \in {"over", "lost"}
        BY <1>0, <1>5, <2>1 DEF OnRejection, GoalInv
      <3>2. Control!Notice
        BY <1>5, <2>1, <3>1 DEF OnRejection, Control!Notice, Busy, None
      <3> QED
        BY <3>2 DEF Control!Next
    <2>2. CASE ~(t = current /\ state = "Pending")
      BY <1>2, <1>5, <2>2 DEF OnRejection, Busy, Live
    <2> QED
      BY <2>1, <2>2
  <1>6. ASSUME NEW t \in Token, OnAcceptance(t)
        PROVE  Control!Next \/ UNCHANGED Control!vars
    <2>1. state' # "Idle" <=> state # "Idle"
      BY <1>6 DEF OnAcceptance
    <2> QED
      BY <1>2, <1>6, <2>1 DEF OnAcceptance, Busy, Live
  <1>7. ASSUME NEW t \in Token, OnResult(t)
        PROVE  Control!Next \/ UNCHANGED Control!vars
    <2>1. CASE IsCurrent(t)
      <3>1. Control!Notice
        BY <1>7, <2>1 DEF OnResult, IsCurrent, Control!Notice, Busy, None
      <3> QED
        BY <3>1 DEF Control!Next
    <2>2. CASE ~IsCurrent(t)
      BY <1>2, <1>7, <2>2 DEF OnResult, Busy, Live
    <2> QED
      BY <2>1, <2>2
  <1>8. ASSUME NEW t \in Token, OnFeedback(t) \/ SendFeedback(t)
        PROVE  Control!Next \/ UNCHANGED Control!vars
    BY <1>2, <1>8 DEF OnFeedback, SendFeedback, Busy, Live
  <1>9. CASE PublishNavInfo \/ Tick \/ UNCHANGED vars
    BY <1>2, <1>9 DEF PublishNavInfo, Tick, vars, Busy, Live
  <1>10. ASSUME NEW t \in Token, Accept(t) \/ Reject(t) \/ ObeyCancel(t) \/ Finish(t)
         PROVE  Control!Next \/ UNCHANGED Control!vars
    <2>1. Live' \subseteq Live
      BY <1>0, <1>10 DEF Accept, Reject, ObeyCancel, Finish, Live
    <2>2. UNCHANGED <<current, state, dropped>>
      BY <1>10 DEF Accept, Reject, ObeyCancel, Finish
    <2> QED
      BY <1>1, <2>1, <2>2 DEF Control!Next
  <1>11. CASE ServerRestart
    <2>1. Live' \subseteq Live
      BY <1>0, <1>11 DEF ServerRestart, Live
    <2>2. UNCHANGED <<current, state, dropped>>
      BY <1>11 DEF ServerRestart
    <2> QED
      BY <1>1, <2>1, <2>2 DEF Control!Next
  <1> QED
    BY <1>3, <1>4, <1>5, <1>6, <1>7, <1>8, <1>9, <1>10, <1>11
    DEF Next, Callback, Server

\* The bridge implements GoalControl: one route is wanted, the last one asked
\* for, and neither late responses nor late results bring back another.
THEOREM BridgeImplementsControl == Safety => ImplementsGoalControl
  <1>1. IInv /\ [Next]_vars => [Control!Next]_(Control!vars)
    BY ControlStep
  <1> QED
    BY InvHolds, ControlInit, <1>1, PTL
    DEF Safety, ImplementsGoalControl, Control!Spec

-----------------------------------------------------------------------------
(* What the user of GoalControl may rely on, and so the user of the bridge. *)

ControlInv == Control!GivenUpForGood /\ dropped \subseteq 1..current

LEMMA ControlPromise == Control!Spec => []ControlInv
  <1>1. Control!Init => ControlInv
    BY DEF Control!Init, ControlInv, Control!GivenUpForGood
  <1>2. ControlInv /\ [Control!Next]_(Control!vars) => ControlInv'
    BY DEF ControlInv, Control!GivenUpForGood, Control!Next, Control!vars,
           Control!Ask, Control!Drop, Control!End, Control!Notice
  <1> QED
    BY <1>1, <1>2, PTL DEF Control!Spec

\* A route the user gave up is never the one the bridge tracks again, whatever
\* response or result still arrives.
GivenUpForGood == Busy => current \notin dropped

\* A late response, result or feedback never revives a cancelled route: the
\* promise of GoalControl carries over to the code that implements it.
THEOREM GivenUpForGoodHolds == Safety => []GivenUpForGood
  <1>1. IInv /\ ControlInv => GivenUpForGood
    <2> SUFFICES ASSUME IInv, ControlInv, Busy PROVE current \notin dropped
      BY DEF GivenUpForGood
    <2>1. current # None
      BY DEF IInv, TrackerInv, Token, None
    <2> QED
      BY <2>1 DEF ControlInv, Control!GivenUpForGood
  <1> QED
    BY InvHolds, BridgeImplementsControl, ControlPromise, <1>1, PTL
    DEF ImplementsGoalControl

-----------------------------------------------------------------------------
(* A goal that is not wanted stops.                                        *)

\* What Fairness asks for one goal, with the condition of each step in place
\* of ENABLED: a step that stays possible is taken again and again.
Served(t) ==
  /\ []<>(goal[t] # "requested") \/ []<><<Accept(t) \/ Reject(t)>>_vars
  /\ []<>(response[t] = "none") \/ []<><<OnRejection(t) \/ OnAcceptance(t)>>_vars
  /\ []<>(t \notin cancels) \/ []<><<ObeyCancel(t)>>_vars
  /\ []<>(goal[t] # "canceling") \/ []<><<goal[t] = "canceling" /\ Finish(t)>>_vars

AllServed == \A t \in Token : Served(t)

\* The way of a goal that is not, or no longer, the current one.
OnItsWay(t)  == goal[t] = "requested" /\ ~IsCurrent(t)
Answered(t)  == goal[t] = "running" /\ response[t] # "none" /\ ~IsCurrent(t)
Cancelled(t) == goal[t] = "running" /\ response[t] = "none" /\ ~IsCurrent(t)
Stopping(t)  == goal[t] = "canceling" /\ ~IsCurrent(t)
Stopped(t)   == goal[t] \in {"over", "lost"}

\* What was superseded or cancelled does not become current again.
LEMMA StaysUnwanted ==
  ASSUME IInv, [Next]_vars, NEW t \in Token, goal[t] # "unsent", ~IsCurrent(t)
  PROVE  ~IsCurrent(t)'
  <1>0. current \in Nat /\ t \in Nat /\ t <= current
    BY RunsAssumption DEF IInv, TypeOK, GoalInv, Token
  <1>1. CASE OnRun
    <2>1. current' = current + 1
      BY <1>1 DEF OnRun, BeginRequest
    <2>2. t # current'
      BY <1>0, <2>1
    <2> QED
      BY <2>2 DEF IsCurrent
  <1>2. CASE ~OnRun
    <2>1. current' = current /\ (state' # "Idle" => state # "Idle")
      BY <1>2 DEF Next, Callback, Server, OnCancel, PublishNavInfo,
           ServerRestart, Tick, OnRejection, OnAcceptance, OnResult,
           OnFeedback, Accept, Reject, ObeyCancel, Finish, SendFeedback,
           trackerVars, clientVars, vars
    <2> QED
      BY <2>1 DEF IsCurrent
  <1> QED
    BY <1>1, <1>2

\* It only ever moves on.
LEMMA MovesOn ==
  ASSUME IInv, [Next]_vars, NEW t \in Token
  PROVE  /\ OnItsWay(t) => OnItsWay(t)' \/ Answered(t)' \/ Stopped(t)'
         /\ Answered(t) => \/ Answered(t)' \/ Cancelled(t)'
                           \/ Stopping(t)' \/ Stopped(t)'
         /\ Cancelled(t) => Cancelled(t)' \/ Stopping(t)' \/ Stopped(t)'
         /\ Stopping(t) => Stopping(t)' \/ Stopped(t)'
  <1> USE DEF trackerVars, clientVars
  <1>0. /\ goal \in [Token -> Fate] /\ current \in Nat
        /\ response \in [Token -> {"none", "accepted", "rejected"}]
        /\ goal[t] # "unsent" => t <= current
        /\ t \in Nat
    BY RunsAssumption DEF IInv, TypeOK, GoalInv, Token
  <1>1. goal[t] # "unsent" /\ ~IsCurrent(t) => ~IsCurrent(t)'
    BY StaysUnwanted
  <1>2. ASSUME goal'[t] = goal[t], response'[t] \in {response[t], "none"}
        PROVE  /\ OnItsWay(t) => OnItsWay(t)'
               /\ Answered(t) => Answered(t)' \/ Cancelled(t)'
               /\ Cancelled(t) => Cancelled(t)'
               /\ Stopping(t) => Stopping(t)'
    BY <1>1, <1>2 DEF OnItsWay, Answered, Cancelled, Stopping
  <1>3. CASE OnRun
    <2>1. goal[t] # "unsent" => goal'[t] = goal[t] /\ response' = response
      BY <1>0, <1>3 DEF OnRun
    <2> QED
      BY <1>2, <2>1 DEF OnItsWay, Answered, Cancelled, Stopping
  <1>4. CASE ServerRestart
    <2>1. goal[t] # "unsent" => goal'[t] \in {goal[t], "lost"}
                                /\ (goal'[t] = goal[t] => goal[t] \in {"over", "lost"})
      BY <1>0, <1>4 DEF ServerRestart
    <2> QED
      BY <2>1 DEF OnItsWay, Answered, Cancelled, Stopping, Stopped
  <1>5. ASSUME NEW s \in Token, OnRejection(s) \/ OnAcceptance(s) \/ OnResult(s)
                                \/ OnFeedback(s) \/ SendFeedback(s)
        PROVE  goal'[t] = goal[t] /\ response'[t] \in {response[t], "none"}
    BY <1>0, <1>5 DEF OnRejection, OnAcceptance, OnResult, OnFeedback, SendFeedback
  <1>6. ASSUME OnCancel \/ PublishNavInfo \/ Tick \/ UNCHANGED vars
        PROVE  goal'[t] = goal[t] /\ response'[t] \in {response[t], "none"}
    BY <1>6 DEF OnCancel, PublishNavInfo, Tick, vars
  <1>7. ASSUME NEW s \in Token, s # t,
               Accept(s) \/ Reject(s) \/ ObeyCancel(s) \/ Finish(s)
        PROVE  goal'[t] = goal[t] /\ response'[t] \in {response[t], "none"}
    BY <1>0, <1>7 DEF Accept, Reject, ObeyCancel, Finish
  <1>8. CASE Accept(t) \/ Reject(t)
    <2>1. /\ goal[t] = "requested"
          /\ \/ goal'[t] = "running" /\ response'[t] = "accepted"
             \/ goal'[t] = "over"
      BY <1>0, <1>8 DEF Accept, Reject
    <2> QED
      BY <1>1, <2>1 DEF OnItsWay, Answered, Cancelled, Stopping, Stopped
  <1>9. CASE ObeyCancel(t)
    <2>1. /\ response' = response
          /\ goal'[t] = IF goal[t] = "running" THEN "canceling" ELSE goal[t]
      BY <1>0, <1>9 DEF ObeyCancel
    <2> QED
      BY <1>1, <2>1 DEF OnItsWay, Answered, Cancelled, Stopping, Stopped
  <1>10. CASE Finish(t)
    <2>1. goal'[t] = "over" /\ goal[t] \in {"running", "canceling"}
      BY <1>0, <1>10 DEF Finish
    <2> QED
      BY <2>1 DEF OnItsWay, Answered, Cancelled, Stopping, Stopped
  <1> QED
    BY <1>2, <1>3, <1>4, <1>5, <1>6, <1>7, <1>8, <1>9, <1>10
    DEF Next, Callback, Server

\* Each step it is owed takes it out of its stage.
LEMMA ServiceMoves ==
  ASSUME IInv, NEW t \in Token
  PROVE  /\ Accept(t) \/ Reject(t) => ~OnItsWay(t)'
         /\ OnRejection(t) \/ OnAcceptance(t) => ~Answered(t)'
         /\ ObeyCancel(t) => ~Cancelled(t)'
         /\ Finish(t) => ~Stopping(t)'
         /\ Cancelled(t) => t \in cancels
  <1>1. /\ goal \in [Token -> Fate]
        /\ response \in [Token -> {"none", "accepted", "rejected"}]
    BY DEF IInv, TypeOK
  <1>2. Cancelled(t) => t \in cancels
    BY DEF IInv, NoUntrackedGoal, TrackerInv, Cancelled, IsCurrent
  <1>3. /\ Accept(t) \/ Reject(t) => ~OnItsWay(t)'
        /\ OnRejection(t) \/ OnAcceptance(t) => ~Answered(t)'
        /\ Finish(t) => ~Stopping(t)'
    BY <1>1 DEF Accept, Reject, OnRejection, OnAcceptance, Finish, OnItsWay,
                Answered, Stopping
  <1>4. ObeyCancel(t) => ~Cancelled(t)'
    BY <1>1 DEF ObeyCancel, Cancelled
  <1> QED
    BY <1>2, <1>3, <1>4

\* Stage by stage, a goal that is served comes to its end.
LEMMA ServedGoalStops ==
  ASSUME NEW t \in Token
  PROVE  Safety /\ Served(t) =>
           ((goal[t] \in {"requested", "running", "canceling"} /\ ~IsCurrent(t))
              ~> (goal[t] \in {"over", "lost"}))
  <1>1. /\ IInv /\ [Next]_vars =>
           /\ OnItsWay(t) => OnItsWay(t)' \/ Answered(t)' \/ Stopped(t)'
           /\ Answered(t) => \/ Answered(t)' \/ Cancelled(t)'
                             \/ Stopping(t)' \/ Stopped(t)'
           /\ Cancelled(t) => Cancelled(t)' \/ Stopping(t)' \/ Stopped(t)'
           /\ Stopping(t) => Stopping(t)' \/ Stopped(t)'
    BY MovesOn
  <1>2. /\ IInv /\ <<Accept(t) \/ Reject(t)>>_vars => ~OnItsWay(t)'
        /\ IInv /\ <<OnRejection(t) \/ OnAcceptance(t)>>_vars => ~Answered(t)'
        /\ IInv /\ <<ObeyCancel(t)>>_vars => ~Cancelled(t)'
        /\ IInv /\ <<goal[t] = "canceling" /\ Finish(t)>>_vars => ~Stopping(t)'
    BY ServiceMoves
  <1>3. /\ OnItsWay(t) => ~(goal[t] # "requested")
        /\ Answered(t) => ~(response[t] = "none")
        /\ IInv /\ Cancelled(t) => ~(t \notin cancels)
        /\ Stopping(t) => ~(goal[t] # "canceling")
    BY ServiceMoves DEF OnItsWay, Answered, Stopping
  <1>4. Safety /\ Served(t) => (OnItsWay(t) ~> Answered(t) \/ Stopped(t))
    BY <1>1, <1>2, <1>3, InvHolds, PTL DEF Safety, Served
  <1>5. Safety /\ Served(t) =>
          (Answered(t) ~> Cancelled(t) \/ Stopping(t) \/ Stopped(t))
    BY <1>1, <1>2, <1>3, InvHolds, PTL DEF Safety, Served
  <1>6. Safety /\ Served(t) => (Cancelled(t) ~> Stopping(t) \/ Stopped(t))
    BY <1>1, <1>2, <1>3, InvHolds, PTL DEF Safety, Served
  <1>7. Safety /\ Served(t) => (Stopping(t) ~> Stopped(t))
    BY <1>1, <1>2, <1>3, InvHolds, PTL DEF Safety, Served
  <1>8. /\ goal[t] \in {"requested", "running", "canceling"} /\ ~IsCurrent(t) =>
             OnItsWay(t) \/ Answered(t) \/ Cancelled(t) \/ Stopping(t)
        /\ Stopped(t) => goal[t] \in {"over", "lost"}
    BY DEF OnItsWay, Answered, Cancelled, Stopping, Stopped
  <1> QED
    BY <1>4, <1>5, <1>6, <1>7, <1>8, PTL

\* A goal that was cancelled or superseded stops, whenever that happened and
\* however many runs there are, if the action server and the executor serve
\* each goal as Fairness asks.
THEOREM UnwantedGoalStopsIfServed == Safety /\ AllServed => UnwantedGoalStops
  <1>1. ASSUME NEW t \in Token
        PROVE  Safety /\ Served(t) =>
                 ((goal[t] \in {"requested", "running", "canceling"} /\ ~IsCurrent(t))
                    ~> (goal[t] \in {"over", "lost"}))
    BY ServedGoalStops
  <1> QED
    BY <1>1 DEF AllServed, UnwantedGoalStops

-----------------------------------------------------------------------------
(* A goal lost in a restart of the server fades: the part of LostGoalFades *)
(* that is about states and steps.                                         *)

\* The server has lost t, and the bridge still tracks it.
Fading(t) == goal[t] = "lost" /\ IsCurrent(t)

\* How far t is from leaving the page: the ticks until its silence is long
\* enough, and those that each of its messages still under way may cost.
FadeLeft(t) ==
  (ActivityTimeout - quiet)
    + (IF t \in feedback THEN ActivityTimeout + 1 ELSE 0)
    + (IF response[t] # "none" THEN ActivityTimeout + 1 ELSE 0)

\* A step during which t fades, or stops being the current goal.
FadesOn(t) ==
  /\ FadeLeft(t) \in 0..(3 * ActivityTimeout + 2)
  /\ FadeLeft(t) = 0 => (active' => active) /\ (PublishNavInfo => ~active')
  /\ IsCurrent(t)' =>
       /\ Fading(t)'
       /\ FadeLeft(t)' <= FadeLeft(t)
       /\ \/ Tick /\ quiet < ActivityTimeout
          \/ OnFeedback(t) \/ OnRejection(t) \/ OnAcceptance(t)
            => FadeLeft(t)' < FadeLeft(t)

\* A lost goal is a bounded number of ticks and of its own late messages from
\* the end of its time on the page; nothing, and no message of another goal,
\* puts that off, every one of them brings it nearer, and when the time has
\* come the timer takes the goal off the page and nothing puts it back.
LostGoalFadesInTime == [][\A t \in Token : Fading(t) => FadesOn(t)]_vars

\* What one step does to a goal that was lost: its messages only get fewer,
\* and only they set the silence back.
FadeFacts(t) ==
  /\ goal'[t] = "lost"
  /\ t \in feedback' => t \in feedback
  /\ response'[t] # "none" => response[t] # "none"
  /\ \/ quiet' >= quiet /\ (Tick /\ quiet < ActivityTimeout => quiet' = quiet + 1)
     \/ quiet' = 0 /\ t \in feedback /\ t \notin feedback'
     \/ quiet' = 0 /\ response[t] # "none" /\ response'[t] = "none"

LEMMA FadingStep ==
  ASSUME IInv, [Next]_vars, NEW t \in Token, Fading(t), IsCurrent(t)'
  PROVE  FadeFacts(t)
  <1> USE DEF trackerVars, clientVars
  <1>0. /\ goal \in [Token -> Fate] /\ goal[t] = "lost" /\ t = current
        /\ response \in [Token -> {"none", "accepted", "rejected"}]
        /\ quiet \in Nat /\ current \in Nat /\ state # "Idle"
    BY TimeoutAssumption, RunsAssumption
    DEF IInv, TypeOK, Fading, IsCurrent, Token
  <1>1. CASE OnRun
    <2>1. current' # t
      BY <1>0, <1>1 DEF OnRun, BeginRequest
    <2> QED
      BY <2>1 DEF IsCurrent
  <1>2. CASE OnCancel
    BY <1>2 DEF OnCancel, IsCurrent
  <1>3. ASSUME NEW u \in Token, OnRejection(u) PROVE FadeFacts(t)
    BY <1>0, <1>3 DEF OnRejection, Tick, FadeFacts
  <1>4. ASSUME NEW u \in Token, OnAcceptance(u) PROVE FadeFacts(t)
    BY <1>0, <1>4 DEF OnAcceptance, Tick, FadeFacts
  <1>5. ASSUME NEW u \in Token, OnFeedback(u) PROVE FadeFacts(t)
    BY <1>0, <1>5 DEF OnFeedback, IsCurrent, Tick, FadeFacts
  <1>6. ASSUME NEW u \in Token, OnResult(u) PROVE FadeFacts(t)
    BY <1>0, <1>6 DEF OnResult, Tick, FadeFacts
  <1>7. CASE PublishNavInfo \/ Tick \/ UNCHANGED vars
    BY <1>0, <1>7 DEF PublishNavInfo, Tick, vars, FadeFacts
  <1>8. ASSUME NEW u \in Token,
               Accept(u) \/ Reject(u) \/ ObeyCancel(u) \/ Finish(u) \/ SendFeedback(u)
        PROVE  FadeFacts(t)
    BY <1>0, <1>8
    DEF Accept, Reject, ObeyCancel, Finish, SendFeedback, Tick, FadeFacts
  <1>9. CASE ServerRestart
    BY <1>0, <1>9 DEF ServerRestart, Tick, FadeFacts
  <1> QED
    BY <1>1, <1>2, <1>3, <1>4, <1>5, <1>6, <1>7, <1>8, <1>9
    DEF Next, Callback, Server, FadeFacts

\* A goal that Nav2 lost leaves the page, for any timeout, any number of runs
\* and any messages that were still under way when the server died.
THEOREM LostGoalFadesInTimeHolds == Safety => LostGoalFadesInTime
  <1>1. IInv /\ [Next]_vars => \A t \in Token : Fading(t) => FadesOn(t)
    <2> SUFFICES ASSUME IInv, [Next]_vars, NEW t \in Token, Fading(t)
                 PROVE  FadesOn(t)
      OBVIOUS
    <2>0. /\ ActivityTimeout \in Nat /\ quiet \in Nat
          /\ quiet <= ActivityTimeout /\ quiet' \in Nat
          /\ quiet' <= ActivityTimeout
      <3>1. IInv'
        BY InvStep
      <3> QED
        BY <3>1, TimeoutAssumption DEF IInv, TypeOK
    <2>1. FadeLeft(t) \in 0..(3 * ActivityTimeout + 2)
      BY <2>0 DEF FadeLeft
    <2>2. ASSUME FadeLeft(t) = 0
          PROVE  (active' => active) /\ (PublishNavInfo => ~active')
      <3>1. ~(quiet < ActivityTimeout)
        BY <2>0, <2>2 DEF FadeLeft
      <3>2. PublishNavInfo => ~active'
        BY <3>1 DEF PublishNavInfo
      <3>3. ~PublishNavInfo => active' = active
        BY DEF Next, Callback, Server, OnRun, OnCancel, OnRejection,
               OnAcceptance, OnResult, OnFeedback, Accept, Reject,
               ObeyCancel, Finish, SendFeedback, ServerRestart, Tick, vars
      <3> QED
        BY <3>2, <3>3
    <2>3. ASSUME IsCurrent(t)'
          PROVE  /\ Fading(t)'
                 /\ FadeLeft(t)' <= FadeLeft(t)
                 /\ \/ Tick /\ quiet < ActivityTimeout
                    \/ OnFeedback(t) \/ OnRejection(t) \/ OnAcceptance(t)
                      => FadeLeft(t)' < FadeLeft(t)
      <3>1. FadeFacts(t)
        BY <2>3, FadingStep DEF FadeFacts
      <3>2. /\ OnFeedback(t) => t \in feedback /\ t \notin feedback'
            /\ OnRejection(t) \/ OnAcceptance(t) =>
                 response[t] # "none" /\ response'[t] = "none"
        BY DEF OnFeedback, OnRejection, OnAcceptance, IInv, TypeOK
      <3> QED
        BY <2>0, <2>3, <3>1, <3>2 DEF FadeLeft, FadeFacts, Fading
    <2> QED
      BY <2>1, <2>2, <2>3 DEF FadesOn
  <1>2. IInv /\ [Next]_vars =>
          [\A t \in Token : Fading(t) => FadesOn(t)]_vars
    BY <1>1
  <1> QED
    BY <1>2, InvHolds, PTL DEF Safety, LostGoalFadesInTime
=============================================================================
