---------------------------- MODULE ST3215System ----------------------------
(***************************************************************************)
(* The ST3215 wheel driver (perseus_lite_hardware): the lifecycle          *)
(* callbacks and write() that ros2_control runs one at a time on the       *)
(* "controller" side, the communication thread that polls the servos, the  *)
(* serial mutex between them, and the servos, which keep turning at their  *)
(* last goal speed until a frame tells them otherwise.                     *)
(*                                                                         *)
(* Frames are sent one per step.  A frame is delivered, lost on the wire   *)
(* without the driver noticing (writes are fire-and-forget), or failed     *)
(* (the write throws).  Speeds keep only what the properties tell apart;   *)
(* signs and feedback are the subject of ServoFeedback.                   *)
(***************************************************************************)
EXTENDS Integers

CONSTANTS
  N,              \* number of servos; _servo_ids is iterated in this order
  Speed           \* the goal speeds a controller can command

ASSUME NAssumption == N \in Nat \ {0}
ASSUME SpeedAssumption == 0 \in Speed

Servo == 1..N

VARIABLES
  lifecycle,      \* ros2_control state of the hardware component
  op,             \* the callback in progress on the controller side
  pc,             \* where that callback is
  k,              \* index of its servo loop
  stage,          \* frame within the loop body, or probe attempt
  cmd,            \* _command_speeds
  running,        \* _comm_thread_running
  comm,           \* the communication thread; "none" is a thread not joinable
  ci,             \* its servo index
  serial,         \* owner of _serial_mutex
  port,           \* is _serial_port open?
  goal,           \* goal speed register of each servo
  torque,         \* torque enable register of each servo
  goalFate,       \* fate of the last goal-speed frame sent to each servo
  torqueFate,     \* fate of the last torque frame sent to each servo
  swept,          \* history: stop_all_servos has run since the last configure
  wanted          \* history: servos asked to turn since the last activation

ctlVars   == <<lifecycle, op, pc, k, stage, cmd>>
commVars  == <<running, comm, ci>>
servoVars == <<goal, torque, goalFate, torqueFate>>
vars == <<lifecycle, op, pc, k, stage, cmd, running, comm, ci, serial, port,
          goal, torque, goalFate, torqueFate, swept, wanted>>

Lifecycle == {"unconfigured", "inactive", "active", "finalized", "destroyed"}
Callback  == {"none", "configure", "write", "deactivate", "cleanup",
              "shutdown", "error", "destroy"}
CtlPc     == {"idle", "config", "probe", "start", "lockWrite", "write",
              "error", "join", "lockStop", "stop", "close"}
CommPc    == {"none", "top", "loop", "lock", "await", "sleep", "exited"}
Outcome   == {"delivered", "lost", "failed"}   \* of one frame
Fate      == {"none", "delivered", "missed"}   \* "none": nothing sent yet

ProbeAttempts == 3                             \* _STARTUP_PROBE_ATTEMPTS

AllZero == [s \in Servo |-> 0]

TypeOK ==
  /\ lifecycle \in Lifecycle
  /\ op \in Callback
  /\ pc \in CtlPc
  /\ k \in Servo
  /\ stage \in 1..4
  /\ cmd \in [Servo -> Speed]
  /\ running \in BOOLEAN
  /\ comm \in CommPc
  /\ ci \in 1..(N + 1)
  /\ serial \in {"free", "ctl", "comm"}
  /\ port \in {"closed", "open"}
  /\ goal \in [Servo -> Speed]
  /\ torque \in [Servo -> BOOLEAN]
  /\ goalFate \in [Servo -> Fate]
  /\ torqueFate \in [Servo -> Fate]
  /\ swept \in BOOLEAN
  /\ wanted \in SUBSET Servo

-----------------------------------------------------------------------------
(* The bus.                                                                *)

FateOf(f) == IF f = "delivered" THEN "delivered" ELSE "missed"

\* send_servo_command: a goal-speed frame of outcome f for servo s.
SendGoal(s, v, f) ==
  /\ goal' = [goal EXCEPT ![s] = IF f = "delivered" THEN v ELSE @]
  /\ goalFate' = [goalFate EXCEPT ![s] = FateOf(f)]
  /\ UNCHANGED <<torque, torqueFate>>

\* send_servo_command: a torque-enable frame of outcome f for servo s.
SendTorque(s, v, f) ==
  /\ torque' = [torque EXCEPT ![s] = IF f = "delivered" THEN v ELSE @]
  /\ torqueFate' = [torqueFate EXCEPT ![s] = FateOf(f)]
  /\ UNCHANGED <<goal, goalFate>>

\* The wheel of a servo turns when it is powered and its goal is not zero.
Turning(s) == torque[s] /\ goal[s] # 0

-----------------------------------------------------------------------------
(* Configuration.                                                          *)

\* Any callback that returns ERROR makes ros2_control call on_error.
FailInto ==
  /\ op' = "error"
  /\ pc' = "error"
  /\ UNCHANGED <<lifecycle, k, stage, cmd>>

\* on_configure up to its servo loop: open the port (which may throw).
Configure ==
  /\ pc = "idle"
  /\ lifecycle = "unconfigured"
  /\ \/ /\ op' = "configure"
        /\ pc' = "config"
        /\ k' = 1
        /\ stage' = 1
        /\ port' = "open"
        /\ UNCHANGED <<lifecycle, cmd>>
     \/ /\ FailInto
        /\ port' = "closed"
  /\ swept' = FALSE
  /\ UNCHANGED <<commVars, serial, servoVars, wanted>>

\* As ConfigFrame, with torque enabled before the goal speed is zeroed.
ConfigFrameTorqueFirst(f) ==
  CASE stage = 4 -> SendGoal(k, 0, f)
    [] stage = 1 -> SendTorque(k, TRUE, f)
    [] OTHER     -> UNCHANGED servoVars

\* The loop body: zero the goal speed, wheel mode, acceleration, torque on.
ConfigFrame(f) ==
  CASE stage = 1 -> SendGoal(k, 0, f)
    [] stage = 4 -> SendTorque(k, TRUE, f)
    [] OTHER     -> UNCHANGED servoVars

\* One frame of the configuration loop; a failed one closes the port.
ConfigureStep ==
  /\ pc = "config"
  /\ \E f \in Outcome :
       /\ ConfigFrame(f)
       /\ IF f = "failed"
          THEN FailInto /\ port' = "closed"
          ELSE /\ stage' = IF stage < 4 THEN stage + 1 ELSE 1
               /\ k' = IF stage < 4 THEN k ELSE IF k < N THEN k + 1 ELSE 1
               /\ pc' = IF stage = 4 /\ k = N THEN "probe" ELSE "config"
               /\ UNCHANGED <<lifecycle, op, cmd, port>>
  /\ UNCHANGED <<commVars, serial, swept, wanted>>

\* One attempt of the startup probe.  Its lock is free: no thread runs yet.
ProbeStep ==
  /\ pc = "probe"
  /\ serial = "free"
  /\ \E answered \in BOOLEAN :
       LET next == answered \/ stage = ProbeAttempts
       IN  /\ stage' = IF next THEN 1 ELSE stage + 1
           /\ k' = IF next /\ k < N THEN k + 1 ELSE IF next THEN 1 ELSE k
           /\ pc' = IF next /\ k = N THEN "start" ELSE "probe"
  /\ UNCHANGED <<lifecycle, op, cmd, commVars, serial, port, servoVars,
                 swept, wanted>>

\* The last lines of on_configure: start the thread and return SUCCESS.
\* Assigning over a joinable std::thread would end the program.
StartThread ==
  /\ pc = "start"
  /\ running' = TRUE
  /\ comm' = "top"
  /\ pc' = "idle"
  /\ op' = "none"
  /\ lifecycle' = "inactive"
  /\ UNCHANGED <<k, stage, cmd, ci, serial, port, servoVars, swept, wanted>>

\* The std::thread constructor throws, with the flag already set: the catch
\* block of on_configure closes the port and returns ERROR.
StartThreadFails ==
  /\ pc = "start"
  /\ running' = TRUE
  /\ FailInto
  /\ port' = "closed"
  /\ UNCHANGED <<comm, ci, serial, servoVars, swept, wanted>>

-----------------------------------------------------------------------------
(* Driving.                                                                *)

\* on_activate: reset the commands, so that activation moves nothing.
Activate ==
  /\ pc = "idle"
  /\ lifecycle = "inactive"
  /\ lifecycle' = "active"
  /\ cmd' = AllZero
  /\ wanted' = {}
  /\ UNCHANGED <<op, pc, k, stage, commVars, serial, port, servoVars, swept>>

\* A controller stores its velocity commands between two callbacks.
SetCommand ==
  /\ pc = "idle"
  /\ lifecycle = "active"
  /\ cmd' \in [Servo -> Speed]
  /\ wanted' = wanted \union {s \in Servo : cmd'[s] # 0}
  /\ UNCHANGED <<lifecycle, op, pc, k, stage, commVars, serial, port,
                 servoVars, swept>>

\* The periodic write() of the control loop, called in both states.
Write ==
  /\ pc = "idle"
  /\ lifecycle \in {"inactive", "active"}
  /\ op' = "write"
  /\ pc' = "lockWrite"
  /\ UNCHANGED <<lifecycle, k, stage, cmd, commVars, serial, port, servoVars,
                 swept, wanted>>

\* As Deactivate, without resetting the commands first.
DeactivateKeepsCommands ==
  /\ pc = "idle"
  /\ lifecycle = "active"
  /\ op' = "deactivate"
  /\ pc' = "lockWrite"
  /\ UNCHANGED <<lifecycle, k, stage, cmd, commVars, serial, port, servoVars,
                 swept, wanted>>

\* on_deactivate: zero the commands, then write() them.
Deactivate ==
  /\ pc = "idle"
  /\ lifecycle = "active"
  /\ cmd' = AllZero
  /\ op' = "deactivate"
  /\ pc' = "lockWrite"
  /\ UNCHANGED <<lifecycle, k, stage, commVars, serial, port, servoVars,
                 swept, wanted>>

\* As LockWrite, without waiting for the mutex.
LockWriteIgnored ==
  /\ pc = "lockWrite"
  /\ pc' = "write"
  /\ k' = 1
  /\ UNCHANGED <<lifecycle, op, stage, cmd, commVars, serial, port, servoVars,
                 swept, wanted>>

\* write() takes the serial mutex for all its frames.
LockWrite ==
  /\ pc = "lockWrite"
  /\ serial = "free"
  /\ serial' = "ctl"
  /\ pc' = "write"
  /\ k' = 1
  /\ UNCHANGED <<lifecycle, op, stage, cmd, commVars, port, servoVars, swept,
                 wanted>>

\* As WriteReturns, with on_deactivate returning SUCCESS whatever happened.
WriteReturnsAnyway(ok) ==
  \/ /\ op = "write" /\ ok
     /\ pc' = "idle"
     /\ op' = "none"
     /\ UNCHANGED <<lifecycle, k, stage, cmd, running>>
  \/ /\ op = "deactivate"
     /\ pc' = "idle"
     /\ op' = "none"
     /\ lifecycle' = "inactive"
     /\ UNCHANGED <<k, stage, cmd, running>>
  \/ /\ op = "write" /\ ~ok
     /\ FailInto
     /\ UNCHANGED running
  \/ /\ op = "destroy"
     /\ pc' = "join"
     /\ running' = FALSE
     /\ UNCHANGED <<lifecycle, op, k, stage, cmd>>

\* write() returns: OK after the last servo, ERROR at the first failure.
WriteReturns(ok) ==
  \/ /\ op = "write" /\ ok
     /\ pc' = "idle"
     /\ op' = "none"
     /\ UNCHANGED <<lifecycle, k, stage, cmd, running>>
  \/ /\ op = "deactivate" /\ ok
     /\ pc' = "idle"
     /\ op' = "none"
     /\ lifecycle' = "inactive"
     /\ UNCHANGED <<k, stage, cmd, running>>
  \/ /\ op \in {"write", "deactivate"} /\ ~ok
     /\ FailInto
     /\ UNCHANGED running
  \/ /\ op = "destroy"          \* the destructor only logs the result
     /\ pc' = "join"
     /\ running' = FALSE
     /\ UNCHANGED <<lifecycle, op, k, stage, cmd>>

\* One frame of write(): the first failure ends the call, so that the
\* servos after it keep the goal speed they had.
WriteStep ==
  /\ pc = "write"
  /\ \E f \in Outcome :
       /\ SendGoal(k, cmd[k], f)
       /\ IF f # "failed" /\ k < N
          THEN /\ k' = k + 1
               /\ UNCHANGED <<lifecycle, op, pc, stage, cmd, running, serial>>
          ELSE /\ WriteReturns(f # "failed")
               /\ serial' = "free"
  /\ UNCHANGED <<comm, ci, port, torque, torqueFate, swept, wanted>>

-----------------------------------------------------------------------------
(* Stopping: on_cleanup, on_shutdown, on_error and the destructor.         *)

\* on_cleanup starts: clear the flag of the thread and wait for it.
Cleanup ==
  /\ pc = "idle"
  /\ lifecycle = "inactive"
  /\ op' = "cleanup"
  /\ pc' = "join"
  /\ running' = FALSE
  /\ UNCHANGED <<lifecycle, k, stage, cmd, comm, ci, serial, port, servoVars,
                 swept, wanted>>

\* on_shutdown is on_cleanup, from any state that is not final.
Shutdown ==
  /\ pc = "idle"
  /\ lifecycle \in {"unconfigured", "inactive", "active"}
  /\ op' = "shutdown"
  /\ pc' = "join"
  /\ running' = FALSE
  /\ UNCHANGED <<lifecycle, k, stage, cmd, comm, ci, serial, port, servoVars,
                 swept, wanted>>

\* The destructor: deactivate if the thread runs, then on_cleanup.
Destroy ==
  /\ pc = "idle"
  /\ lifecycle # "destroyed"
  /\ op' = "destroy"
  /\ IF running
     THEN /\ cmd' = AllZero
          /\ pc' = "lockWrite"
          /\ UNCHANGED running
     ELSE /\ pc' = "join"
          /\ running' = FALSE
          /\ UNCHANGED cmd
  /\ UNCHANGED <<lifecycle, k, stage, comm, ci, serial, port, servoVars,
                 swept, wanted>>

\* on_error starts: zero the commands, clear the flag, wait for the thread.
OnError ==
  /\ pc = "error"
  /\ cmd' = AllZero
  /\ running' = FALSE
  /\ pc' = "join"
  /\ UNCHANGED <<lifecycle, op, k, stage, comm, ci, serial, port, servoVars,
                 swept, wanted>>

\* As Join, without waiting for the thread to return.
JoinSkipped ==
  /\ pc = "join"
  /\ pc' = IF port = "open" THEN "lockStop" ELSE "close"
  /\ UNCHANGED <<lifecycle, op, k, stage, cmd, comm, running, ci, serial,
                 port, servoVars, swept, wanted>>

\* join() returns; stop_all_servos does nothing on a closed port.
Join ==
  /\ pc = "join"
  /\ comm \in {"none", "exited"}
  /\ comm' = "none"
  /\ pc' = IF port = "open" THEN "lockStop" ELSE "close"
  /\ UNCHANGED <<lifecycle, op, k, stage, cmd, running, ci, serial, port,
                 servoVars, swept, wanted>>

\* stop_all_servos takes the serial mutex.
LockStop ==
  /\ pc = "lockStop"
  /\ serial = "free"
  /\ serial' = "ctl"
  /\ pc' = "stop"
  /\ k' = 1
  /\ stage' = 1
  /\ UNCHANGED <<lifecycle, op, cmd, commVars, port, servoVars, swept, wanted>>

\* As StopFrame, without the torque-off frame.
StopFrameKeepsTorque(f) ==
  IF stage = 1 THEN SendGoal(k, 0, f) ELSE UNCHANGED servoVars

\* The loop body of stop_all_servos: zero the goal speed, torque off.
StopFrame(f) ==
  IF stage = 1 THEN SendGoal(k, 0, f) ELSE SendTorque(k, FALSE, f)

\* One frame of stop_all_servos: failures are logged and passed over.
StopStep ==
  /\ pc = "stop"
  /\ \E f \in Outcome : StopFrame(f)
  /\ IF stage = 1
     THEN /\ stage' = 2
          /\ UNCHANGED <<pc, k, serial, swept>>
     ELSE /\ stage' = 1
          /\ IF k < N
             THEN k' = k + 1 /\ UNCHANGED <<pc, serial, swept>>
             ELSE /\ pc' = "close"
                  /\ serial' = "free"
                  /\ swept' = TRUE
                  /\ UNCHANGED k
  /\ UNCHANGED <<lifecycle, op, cmd, commVars, port, wanted>>

\* The port is closed and the callback returns SUCCESS.
Close ==
  /\ pc = "close"
  /\ port' = "closed"
  /\ pc' = "idle"
  /\ op' = "none"
  /\ lifecycle' = CASE op = "shutdown" -> "finalized"
                    [] op = "destroy"  -> "destroyed"
                    [] OTHER           -> "unconfigured"
  /\ UNCHANGED <<k, stage, cmd, commVars, serial, servoVars, swept, wanted>>

-----------------------------------------------------------------------------
(* The communication thread.                                               *)

\* As CommTop, without reading the flag.
CommTopForever ==
  /\ comm = "top"
  /\ comm' = "loop"
  /\ ci' = 1
  /\ UNCHANGED <<ctlVars, running, serial, port, servoVars, swept, wanted>>

\* while (_comm_thread_running)
CommTop ==
  /\ comm = "top"
  /\ IF running THEN comm' = "loop" /\ ci' = 1
                ELSE comm' = "exited" /\ UNCHANGED ci
  /\ UNCHANGED <<ctlVars, running, serial, port, servoVars, swept, wanted>>

\* As CommLoop, with the bound of the loop off by one.
CommLoopPastEnd ==
  /\ comm = "loop"
  /\ comm' = IF ci <= N + 1 /\ running THEN "lock" ELSE "sleep"
  /\ UNCHANGED <<ctlVars, running, ci, serial, port, servoVars, swept, wanted>>

\* The condition of the for loop: next servo, or go to sleep.
CommLoop ==
  /\ comm = "loop"
  /\ comm' = IF ci <= N /\ running THEN "lock" ELSE "sleep"
  /\ UNCHANGED <<ctlVars, running, ci, serial, port, servoVars, swept, wanted>>

\* Lock, discard pending input and send the READ request.
CommRequest ==
  /\ comm = "lock"
  /\ serial = "free"
  /\ \/ serial' = "comm" /\ comm' = "await" /\ UNCHANGED ci
     \/ serial' = "free" /\ comm' = "loop" /\ ci' = ci + 1   \* send failed
  /\ UNCHANGED <<ctlVars, running, port, servoVars, swept, wanted>>

\* As CommFinish, with the mutex held across the whole polling cycle.
CommFinishHoldsLock ==
  /\ comm = "await"
  /\ IF ci < N THEN comm' = "await" /\ ci' = ci + 1 /\ UNCHANGED serial
               ELSE comm' = "await" /\ ci' = 1 /\ UNCHANGED serial
  /\ UNCHANGED <<ctlVars, running, port, servoVars, swept, wanted>>

\* The reply arrives, the deadline passes or the read fails: unlock.
CommFinish ==
  /\ comm = "await"
  /\ comm' = "loop"
  /\ ci' = ci + 1
  /\ serial' = "free"
  /\ UNCHANGED <<ctlVars, running, port, servoVars, swept, wanted>>

\* The 20 ms pause between two polling cycles ends.
CommWake ==
  /\ comm = "sleep"
  /\ comm' = "top"
  /\ UNCHANGED <<ctlVars, running, ci, serial, port, servoVars, swept, wanted>>

-----------------------------------------------------------------------------

\* The process ends, by a crash or after the destructor, and a new one is
\* started: its memory is fresh, the servo registers are as they were left.
Restart ==
  /\ lifecycle' = "unconfigured"
  /\ op' = "none"
  /\ pc' = "idle"
  /\ k' = 1
  /\ stage' = 1
  /\ cmd' = AllZero
  /\ running' = FALSE
  /\ comm' = "none"
  /\ ci' = 1
  /\ serial' = "free"
  /\ port' = "closed"
  /\ goalFate' = [s \in Servo |-> "none"]
  /\ torqueFate' = [s \in Servo |-> "none"]
  /\ swept' = FALSE
  /\ wanted' = {}
  /\ UNCHANGED <<goal, torque>>

\* A freshly started driver and servos that have just been powered up.
Init ==
  /\ lifecycle = "unconfigured"
  /\ op = "none"
  /\ pc = "idle"
  /\ k = 1
  /\ stage = 1
  /\ cmd = AllZero
  /\ running = FALSE
  /\ comm = "none"
  /\ ci = 1
  /\ serial = "free"
  /\ port = "closed"
  /\ goal = AllZero
  /\ torque = [s \in Servo |-> FALSE]
  /\ goalFate = [s \in Servo |-> "none"]
  /\ torqueFate = [s \in Servo |-> "none"]
  /\ swept = FALSE
  /\ wanted = {}

\* Calls ros2_control and the controllers may make or not.
Environment ==
  \/ Configure \/ Activate \/ SetCommand \/ Write \/ Deactivate
  \/ Cleanup \/ Shutdown \/ Destroy \/ Restart

\* Steps of a callback under way, apart from write()'s wait for the mutex.
CtlStep ==
  \/ ConfigureStep \/ ProbeStep \/ StartThread \/ StartThreadFails
  \/ WriteStep \/ OnError \/ Join \/ LockStop \/ StopStep \/ Close

CommStep == CommTop \/ CommLoop \/ CommRequest \/ CommFinish \/ CommWake

Next == Environment \/ CtlStep \/ LockWrite \/ CommStep

\* Threads are scheduled.  LockWrite gets strong fairness: std::mutex is not
\* fair, but the thread sleeps 20 ms of every cycle with the mutex free, so
\* a waiting write() cannot lose every race.
Fairness ==
  /\ WF_vars(CtlStep)
  /\ SF_vars(LockWrite)
  /\ WF_vars(CommStep)

Safety == Init /\ [][Next]_vars
Spec == Safety /\ Fairness

-----------------------------------------------------------------------------
(* Properties.                                                             *)

\* While the component is not active, a servo that got the last goal-speed
\* frame the driver sent it has goal speed zero: deactivation, cleanup,
\* shutdown, error and the destructor all end with that frame, and nothing
\* (a periodic write() in the inactive state, an old command) undoes it.
HaltedUnlessActive ==
  lifecycle # "active" =>
    \A s \in Servo : goalFate[s] = "delivered" => goal[s] = 0

\* Once stop_all_servos has run, a wheel still turns only if both its zero
\* speed frame and its torque-off frame were lost: either alone stops it.
SweptWheelsAreSafe ==
  swept => \A s \in Servo :
    Turning(s) => goalFate[s] = "missed" /\ torqueFate[s] = "missed"

\* The half-duplex bus: between a status request and its reply the port is
\* open and the controller side, which configures, probes and closes without
\* or outside the mutex, is nowhere near the bus.
TransactionOwnsBus ==
  comm = "await" =>
    /\ serial = "comm"
    /\ port = "open"
    /\ pc \notin {"config", "probe", "start", "write", "stop", "close"}

\* on_configure never assigns a new thread over one that was not joined
\* (std::terminate), and no thread outlives the release of the port.
ThreadJoinedBeforeReuse ==
  /\ pc \in {"config", "probe", "start"} => comm = "none"
  /\ port = "closed" => comm = "none"

\* A servo is only powered up with its goal speed at zero, unless the frame
\* that zeroes it was lost: a wheel left turning by a crashed run does not
\* start again when torque is enabled.
TorqueOnAtRest ==
  [][\A s \in Servo : ~torque[s] /\ torque'[s] =>
        goal[s] = 0 \/ goalFate[s] = "missed"]_vars

\* The driver is a drive interlock: the abstract promise of DriveInterlock.
Interlock == INSTANCE DriveInterlock WITH
  armed   <- lifecycle = "active",
  wanted  <- IF lifecycle = "active" THEN wanted ELSE {},
  turning <- {s \in Servo : goalFate[s] = "delivered" /\ goal[s] # 0}

ImplementsInterlock == Interlock!Spec

\* Every callback that stops the servos comes to its end: join() returns,
\* because the thread leaves its transaction at the deadline and sees the
\* flag, and no lock is held across the join.
StopCompletes ==
  (op \in {"cleanup", "shutdown", "error", "destroy"}) ~> (pc = "idle")

\* A write() or on_deactivate blocked behind status transactions returns.
WriteCompletes == (pc = "lockWrite") ~> (pc = "idle")

\* What the comment on on_error says: when a transition errors, on_error
\* stops the servos before the bus is given up.  So when it is done, in a
\* process that did reach the bus, a wheel may only turn because the driver
\* sent it a frame that was lost.
ErrorStopsServos ==
  op = "error" /\ pc = "close" /\ (\E s \in Servo : goalFate[s] # "none") =>
    \A s \in Servo : Turning(s) => goalFate[s] = "missed"
=============================================================================
