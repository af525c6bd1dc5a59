# Verification of the Perseus Lite rover software

This directory holds TLA+ models of the software in `../src`, the TLC
configurations that check them on small instances, and TLAPS proofs of the
properties that matter most, for every size of the system.

Short paths: `H/` is `src/software/ros_ws/src/perseus_lite_hardware/`, `R/` is
`src/software/ros_ws/src/`, `S/` is `src/software/`.

## 1. The system

Perseus Lite is a four-wheel rover under ROS 2. A joystick, a web page, or the
Nav2 navigation stack produces velocity commands; a multiplexer picks one of
them; `diff_drive_controller` turns it into wheel velocities; a `ros2_control`
hardware component sends those to four ST3215 servos on one half-duplex serial
bus and reads their feedback back for odometry. Around that core sit a bridge
that turns waypoint lists into Nav2 goals, a mission game for students that
starts, stops and restarts the SLAM and Nav2 stacks, a terminal program that
manages jobs, an IMU driver, a leader/follower arm and a web interface.

| Component | State it keeps | Operations | Interacts by |
|---|---|---|---|
| Wheel driver (`H/src/st3215_system.cpp`) | port, commands, servo states, polling thread and its flag, two mutexes | `on_init` .. `on_error`, `read`, `write`, the polling thread, the destructor | callbacks of `ros2_control` on one side, frames to the servos on the other, shared memory between its two threads |
| Servo protocol (`H/include/st3215_protocol.hpp`) | none | packets, checksums, signs, unwrapping of positions | called by the driver |
| Waypoints bridge (`R/perseus_autonomy_bridge`) | current token, state and handle of the goal, last activity | run and cancel services, response, result and feedback callbacks, a 10 Hz timer | services of the web page, an action of Nav2 |
| Mission orchestrator (`R/perseus_lite_missions`) | progress of the mission, two stacks as process groups, pending restarts | checker callbacks, supervision timer, delayed start, shutdown | topics of the checkers, signals to process groups |
| Mission checkers (same package) | debounce of watched files, dwell at a goal | timers and file reads | latched topics |
| TUI job manager (`R/perseus_lite_tui`) | jobs, their groups and logs, escalation threads, a record on disk | start, stop, stop all, recover | signals, threads, a JSON file |
| Behaviour tree (`R/perseus_bt_nodes`, `R/autonomy/behavior_trees`) | a blackboard with goals and an index | four nodes ticked by two trees | Nav2 |
| Joystick and multiplexer (`R/perseus_input`, `R/input_devices`, `twist_mux.yaml`) | enable button, last message per source | message callbacks, timeouts | velocity topics |
| IMU driver and bias remover (`R/perseus_sensors`) | initialisation, failure counts, windows of samples | timers, reinitialisation, gating | I2C, topics |
| Arm teleoperation (`S/arm-teleop-direct`) | mirroring, calibration and errors per servo, torque protection | key presses, the read and follow loop, shutdown | two serial buses |
| Web UI, vision, diagnostics, networking client | see section 8 | | |

### What is hard, and what makes each part correct

* **Wheel driver.** A servo has no watchdog: it keeps turning at the last speed
  it was given, through a crash of the process, so every way out of the active
  state must send zero speed to every wheel, over a bus that loses frames and in
  a driver whose writes may fail half way through the wheels. The polling thread
  and the control loop share the bus; the thread is joined while locks are
  taken; configuration must not power up a wheel that a crashed run left with a
  speed. Correct means: halted whenever not active, no stale command survives a
  deactivation, no frame of one thread inside the transaction of the other, the
  thread joined before port and handle are reused, and every stop completes.
* **Feedback.** Replies come late, from the wrong servo, or in the company of
  acknowledgements. Correct means: motion is reported only on the recent word of
  that very servo, in the direction it was commanded.
* **Unwrapping.** Readings wrap every 4096 ticks and the receive buffer is
  processed again on every partial read. Correct means: exact while successive
  readings are less than half a revolution apart, off by whole turns otherwise.
* **Bridge.** A goal can be superseded or cancelled before it is accepted, and
  results of old goals arrive late. Correct means: at most one goal is left
  running, it is the one the user asked for last, and a cancel sticks.
* **Orchestrator.** Leaders exit before their groups, signals are ignored, restarts
  overtake one another. Correct means: never two groups of one stack, the last
  requested parameters win, nothing outlives the shutdown.
* **Job manager.** Groups outlive their leaders and the session, ids are used again, the
  curses thread and one escalation thread per job signal the same group, a signal can
  unwind the curses thread anywhere. Correct means: a serial port is held by one job
  at a time, across crashes too; nobody else's group is signalled; what is stopped ends.
* **Joystick.** The pad may be let go, unplugged or out of reach, the node late or dead,
  and a joystick has the highest priority. Correct means: the wheels stop within a bounded
  time of the last deadman seen, and an idle joystick leaves the rover to the other sources.
* **Arm.** Reads fail, writes are lost unnoticed, the torque protection acts while keys and
  calibrations change everything else. Correct means: a follower is only sent fresh
  positions inside its range, and one the protection switched off stays off.

## 2. Modules

| Module | Models | Checked by |
|---|---|---|
| `DriveInterlock` | abstract: what the driver promises, without threads, bus or callbacks | refinement target |
| `ST3215System` | lifecycle callbacks, `write()`, the polling thread, mutexes, frames, crash and restart | `driver`, `driver_error_path` |
| `ST3215System_proofs` | fourteen theorems about it | TLAPS |
| `ServoFeedback` | status transactions, late and foreign replies, acknowledgements, staleness, mirroring, `read()` | `feedback` |
| `ServoFeedback_proofs` | three theorems about it | TLAPS |
| `WheelOdometry` | integration of the wrapped positions of one wheel | `odometry` |
| `WheelOdometry_proofs` | three theorems about it | TLAPS |
| `GoalControl` | abstract: one route is wanted, the last one asked for | refinement target |
| `WaypointsBridge` | goal tracker, services, action client callbacks and timer, against an action server that answers late and may restart | `bridge` |
| `WaypointsBridge_proofs` | seven theorems about it | TLAPS |
| `ProcessGroup` | `ManagedProcess` as operators on the state of one process group | with `MissionOrchestrator` |
| `StackService` | abstract: the launches of one stack never overlap, the last one asked for runs | refinement target |
| `MissionOrchestrator` | mission progress, the two stacks, their timers and reports, shutdown | `mission`, `mission_stragglers` |
| `MissionOrchestrator_proofs` | ten theorems about it | TLAPS |
| `TuiJobs` | the TUI's jobs, groups, escalation threads, resources, record and orphans; its exits, crashes and restarts | `jobs`, `jobs_exit` |
| `TuiJobs_proofs` | seven theorems about it | TLAPS |
| `ArmTeleop` | the round of the main loop, keys, calibration file, protection, signals, crash and restart, two arms | `arm`, `arm_torque` |
| `ArmTeleop_proofs` | five theorems about it | TLAPS |
| `JoystickDrive` | the two joystick nodes composed with `joy_node`, the multiplexer and the drive controller's timeout | `teleop` |
| `JoystickDrive_proofs` | three theorems about it | TLAPS |
| `MC...` | the constants TLC uses | |

The three modules of the driver look at the same source file from three sides and
share no variables: `ST3215System` has the frames, locks and callbacks and no
feedback values; `ServoFeedback` has the packets and ages and no lifecycle;
`WheelOdometry` has one servo's positions and no time. A single module with all
of it would be out of TLC's reach at two servos.

### ST3215System

State: `lifecycle`, `op`, `pc`, `k`, `stage` are the callback the controller side
is in and where it is; `cmd` is `_command_speeds`; `running`, `comm`, `ci` are the
polling thread; `serial` is the owner of `_serial_mutex`; `port`; `goal` and
`torque` are registers of each servo, which survive a `Restart`; `goalFate` and
`torqueFate` say whether the last such frame got through; `swept` and `wanted` are
history. An action is one call, one frame or one lock:

| Action | Code |
|---|---|
| `Configure`, `ConfigureStep`, `ProbeStep`, `StartThread`, `StartThreadFails` | `on_configure`, its loop over the servos, the probe, the thread, the `catch` |
| `Activate`, `SetCommand`, `Write`, `Deactivate`, `LockWrite`, `WriteStep` | `on_activate`, the controllers, `write()`, `on_deactivate` |
| `Cleanup`, `Shutdown`, `Destroy`, `OnError`, `Join`, `LockStop`, `StopStep`, `Close` | the four ways to stop, `stop_communication_thread`, `stop_all_servos` |
| `CommTop`, `CommLoop`, `CommRequest`, `CommFinish`, `CommWake` | `communication_thread`, `request_status` |
| `Restart` | the process dies or ends, and a new one starts |

A frame is *delivered*, *lost* (the write succeeds, the servo never hears it) or
*failed* (the write throws). The wheel mode and acceleration frames change no
register of the model, but fail like any other. `ros2_control` is external: it
runs the callbacks and `write()` of a component one at a time, calls `on_error`
when one returns ERROR, and lets controllers store commands only while the
component is active and between callbacks.

### ServoFeedback

Servos owe replies (`owed`), which reach the input buffer (`input`) in any order,
at any time, or never. The polling thread discards pending input, asks, and then
reads some packets at a time; every read processes the whole buffer again from
its head, one packet per step, since `_state_mutex` is taken per packet and
`read()` may come in between. Time is `Tick`: ages and the silence of each servo
grow, and a transaction ends at its deadline. A corrupted packet is a lost one:
`extract_packets` skips what has no valid checksum.

### WheelOdometry

The wheel may be at any of the angles in `Angle` when a reading is taken, so that
the true motion between two readings is arbitrary. `slipped` records that two
readings integrated one after the other were half a revolution apart or more.

### WaypointsBridge

State: `current`, `state`, `handle` are the members of `GoalTracker`; `quiet` is the
time since `_last_activity_time` and `active` the flag last published. A token
stands for its goal. `goal` is what the server knows of each goal, `response`,
`cancels` and `feedback` are messages under way, `asked` the goals whose result the
client awaits; `dropped` and `heard` are history.

| Action | Code |
|---|---|
| `OnRun` | `on_run` with waypoints and a server: `begin_request`, the cancel of an active goal, the activity mark, the request, which may throw |
| `OnCancel` | `on_cancel`, `request_cancel` |
| `OnRejection`, `OnAcceptance` | the goal response callback, `on_goal_response` |
| `OnResult`, `OnFeedback`, `PublishNavInfo` | the other two callbacks, the timer |
| `Accept`, `Reject`, `ObeyCancel`, `Finish`, `SendFeedback`, `ServerRestart` | the action server, external |

`rclcpp::spin` runs the callbacks one at a time, so each is one action. `on_run`
without waypoints or server changes nothing and is a stutter. Messages
arrive in any order and may be lost in a restart of Nav2 only; a server that comes
back answers a question about a goal it does not know. `async_cancel_goal` is
assumed not to throw for a goal whose result is still awaited, which is the
only kind the tracker cancels. One life of the bridge is modelled: it keeps
nothing across its own restart.

### ProcessGroup and MissionOrchestrator

`ProcessGroup` has one record per group: the members of `ManagedProcess` (`held` for
`_proc`, `code` for `returncode`, `elapsed` for `_stop_started`, `sent`) and the group
itself: its `leader`, which is a zombie between its end and `poll()`, and `node`,
whether it has other members. `MissionOrchestrator` adds `done`, `fixed`, `segment`
(`MissionProgress`), `proc`, `pending`, `stopping`, `params` (`Stack`), the timer of
the first start of Nav2, and the shutdown: `phase`, the time `waited` and `polled`.
`restarts` is history.

| Action | Code |
|---|---|
| `OnParamsFixed`, `OnChallengePassed` | the subscriptions: the gate, the record, `_restart_stack_for`, `Stack.start` |
| `StartNav2` | the one-shot timer |
| `Supervise` | the 0.5 s timer: `Stack.poll` of both stacks, with the launch that waited |
| `BeginShutdown`, `ShutdownPoll` | the end of `rclpy.spin`, `stop_blocking` of SLAM, then of Nav2 |
| `LeaderEnds`, `NodesEnd`, `Spawn` | processes end by themselves or by a signal, a launch starts its nodes; external |
| `Tick` | the steady clock |

`rclpy.spin` runs the callbacks one at a time, so each is one action; a report that is
refused changes nothing and is a stutter. The processes run beside it, but `poll()`
looks at the leader once and at the group once, so a process that ends in between
could as well have ended before or after. A signal obliges nobody to end, except
SIGKILL; a killed group starts no new nodes. Whether a reference file exists and
whether `Popen` succeeds is left open at each call. Both stacks are managed, as by
default. Badges and `/mission/state` are output that nothing in the node reads.

### TuiJobs

State: `job` is `JobManager._jobs`, each with its group (`NoGroup` once `_group_gone` is
latched), the `stage` its escalator is in and the time `left` to it; `orphans`, `last`
(`_recorded_groups`) and `file` (`running_jobs.json`) map a key to a group; `starting` and
`fresh` are a launch between `Popen` and the job table; `masked` says whether SIGHUP and
SIGTERM are ignored. `kern` and `owner` are the system's view of the group ids; `missed`
is history: groups that an earlier session could not record before it ended.

| Action | Code |
|---|---|
| `Loop` | one turn of `_loop`: record the live groups, prune orphans, draw |
| `OtherKey`, `StopKey`, `ClearFinished`, `Launch`, `Register` | `_handle_key`: moving about, `k`, `x`, a start up to `Popen`, the rest of `JobManager.start` |
| `Quit`, `Interrupt`, `StopAll`, `Exit`, `CutShort` | `q`, the signal handler, `_shutdown` with `stop_all` and the last record, a signal that unwinds that too |
| `Crash`, `Start` | SIGKILL; `App.__init__` with the orphans of the record |
| `EscalatorSees`, `Escalate` | `_escalate`: the group is gone; SIGTERM, SIGKILL, giving up |
| `Tick`, `GroupEnds`, `Reuse` | time, groups that end, ids that the kernel hands out again; external |

Asking whether a group is alive changes state (it latches the answer), so every action that
asks includes the latch. The reader thread of a job only fills its log. The boot id in the
record is the case of a file whose groups are all gone.

### ArmTeleop

State: `leader` and `follower` are `arm1_data` and `arm2_data` (positions, range, mirroring,
error), `torque1` and `torque2` the TORQUE_ENABLE registers, which survive the program;
`protection`, `running`, `file` as in the code; `at` is the servo the round has come to;
`heard1`, `heard2` and `tripped` are history.

| Action | Code |
|---|---|
| `ReadLeader`, `ReadFollower`, `Advance` | the two reading loops, with the protection and the recovery from an overload |
| `NoKey`, `ToggleProtection`, `ToggleMirroring`, `Save`, `Load` | the keys |
| `Follow` | the driving loop with its `catch` and `scale_position` |
| `Shutdown`, `SwitchOff` | the signal handler, the torque-off sweep at the end |
| `Crash`, `Start` | SIGKILL or power loss, the next start |

A write is not acknowledged, so it may be lost; it throws only when the port refuses it. A
read throws after three tries. `scale_position` divides in floating point, so that its
truncated quotient may come out one lower; both are allowed.

### JoystickDrive

State: `pad` and `link` are the operator's side; `queue` holds the samples under way to the
node (the depth of the subscription); `stale` is the time since
`_prev_received_joy_time`, `timer` that to the next `_joy_timeout_callback`, `commanding` as
in the code; `late` is how long the executor has had something to do; `silent` is the
multiplexer's view of the joystick; `by` and `age` say whose command turns the wheels.
`hands` and `died` are history. `node` is fixed: `GenericController` or `XboxController`.

| Action | Code |
|---|---|
| `JoyCallback`, `TimeoutCallback` | `_joy_callback`, `_joy_timeout_callback` of `GenericController` |
| `ProcessJoystickInput` | `XboxController::process_joystick_input` |
| `Crash`, `Start` | the node is killed; its constructor |
| `Hold`, `LinkChanges`, `Sample` | the operator, the pad and `joy_node`; external |
| `OtherCommand`, `Tick` | the other inputs of `twist_mux`, time with the timeouts of the multiplexer and of the drive controller; external |

`twist_mux` has one active input at a time by priority and drops one that was silent for
longer than its timeout; both follow `twist_mux.yaml` and the velocity limits file.

## 3. Runs

| Run | Constants | Shows |
|---|---|---|
| `driver` | 2 servos, speeds stopped/turning | the four safety invariants, `TorqueOnAtRest`, refinement of `DriveInterlock`, `StopCompletes`, `WriteCompletes` |
| `driver_error_path` | same | finding 1 of section 6 |
| `feedback` | 2 servos, one mirrored, both timeouts one tick, 2 packets of buffer and of input, one reply owed per servo | `ReportsAsCommanded`, `NoPhantomMotion` |
| `odometry` | 8 angles around the wrap and around half a revolution, 3 readings per transaction | `OffByWholeTurns`, `ExactUnlessSlipped` |
| `bridge` | 2 runs, a timeout of two ticks | `NoUntrackedGoal`, `ActiveWhenHeard`, refinement of `GoalControl`, `UnwantedGoalStops`, `LostGoalFades` |
| `mission` | 3 challenges (SLAM; Nav2 with a parameter check; Nav2), timeouts of 2 and 1 ticks, at shutdown 1 and 2, guard 1 | `RestartsInMissionOrder`, `NoChallengeSkipped`, `NothingOutlivesShutdown`, `ReferenceSticks`, refinement of `StackService`, `RestartCompletes` |
| `mission_stragglers` | same, safety part | finding 2 |
| `jobs` | 2 launches that share a resource, 2 group ids, windows of 3 + 1 ticks, at exit 1 + 1 of 3 | `Exclusive`, `RecordCovers`, `OnlyOwnGroupsSignalled`, `ExitKills`, `StoppedGroupDies` |
| `jobs_exit` | same, safety part | finding 4 |
| `arm` | one pair of servos, positions 0 and 1 | `FollowsSafely`, `TrippedUntilAsked` |
| `arm_torque` | same | finding 3 |
| `teleop` | ticks of 50 ms: timeout 3, timer 2, mux and drive controller 10; one other source, a queue of 2, an executor late by 1 | `StopsInTime`, `GivesWay` |

Every passing run also checks the `TypeOK` of its module; a run with a liveness property
checks everything under the specification with fairness, which removes no finite behaviour.

Why the bounds are enough. Two servos are the least that have a first and a last
one, a partial failure and a foreign reply; the code treats the servos alike, and
the proofs cover any number. Speeds matter to the properties as zero or not zero.
In `feedback`, `MaxOwed` and `MaxInput` bound how many replies can be under way;
two packets of input let a late reply and an acknowledgement precede the expected
status, and fill the receive buffer. Timeouts of one tick keep apart "fresh", "stale"
and "just at the limit". In `odometry` the angles span more than two revolutions,
with pairs at distance 2047, 2048 and 2049 and on both sides of the wrap;
`MaxPosition` only stops the integrated position from drifting without end.
In the bridge, `MaxRuns` bounds the requests: two let a goal be superseded while it is
still unanswered, so that its late acceptance, result or feedback can be taken for the
other's; the proofs cover any number. Cancels, messages and restarts are not bounded.
The mission has one challenge of each kind the descriptor allows, two of them for the
same stack, so that one restart can overtake another; the timeouts tell "before",
"at" and "after" each escalation apart, and the two pairs differ, since `shutdown`
changes them in the middle of an escalation. `elapsed` and `waited` stop growing at
the last value the code compares them with. Deadlock is not checked there: a node
that has shut down and whose processes have ended rightly does nothing more.

In `jobs` two launches that claim the same port are the smallest conflict, and two group ids
let a group outlive its job, its session and its id; as in the code, `JobTerm` is as long
as all of `stop_all` (10 s), and the two windows at exit (6 and 3 s) are shorter, so
that a job stopped with `k` before `q` is a case of its own. Sessions, crashes and reuse are not bounded; the
proofs cover any keys, resources, groups and windows.
In `arm` no step of one pair of servos reads another, so that one pair shows what each does;
two positions already give an empty, a one-point and a full range, and a leader at either
end of its own. The proofs cover any number of servos and any resolution.
In `teleop` the timeouts are those of the code and the configuration in ticks of 50 ms;
`StopsInTime` is tight at `Stall` 1 (with one tick less TLC finds it violated). A queue of
two overflows and reorders nothing; the proofs cover any depth, lateness and timeouts.

`DriveInterlock`, `GoalControl` and `StackService` have no runs of their own: they are
checked as `ImplementsInterlock`, `ImplementsGoalControl` and `ImplementsService` and
proved as theorems.

### Fairness

`driver` assumes that the two threads are scheduled (weak fairness of the
steps of a callback under way and of the polling thread, whose waits are all
bounded by the 20 ms response deadline and the 20 ms pause) and strong fairness of
`LockWrite`: `std::mutex` promises no order, but the polling thread sleeps 20 ms of
every cycle with the mutex free, so a waiting `write()` cannot lose every race.
No fairness is assumed of the environment: callbacks, commands, frames and crashes.

`bridge` assumes that the executor runs its timer and the callbacks of
messages that arrived, that time passes, and that the server answers every request,
receives a cancel request, and ends a goal it is cancelling. It need not end a goal
nobody cancelled, need not report the loss of a goal, and may restart at will.

`mission` assumes that the supervision timer fires, that `stop_blocking` goes
round its loop, that time passes, and that a process that was sent SIGKILL ends. In
both runs `Tick` waits for a poll while a stack is being stopped: a tick stands for
seconds, the loop polls every 50 ms.

`jobs` assumes that the escalator threads and the waiting loop of `stop_all` run (both poll
every 50 ms), that time passes, and that a group that was sent SIGKILL ends. Nothing is
assumed of the user, of groups that were sent anything else, or of crashes. `arm` and
`teleop` have no liveness property: the promises there are deadlines and are stated as
safety, with the lateness of the executor bounded by `Stall`.

## 4. Properties

* `HaltedUnlessActive`: outside the active state, a servo that heard the last
  speed frame sent to it has speed zero.
* `SweptWheelsAreSafe`: after `stop_all_servos` a wheel turns only if both of its
  frames (zero speed, torque off) were lost.
* `TransactionOwnsBus`: between request and reply the controller side is off the bus.
* `ThreadJoinedBeforeReuse`: no assignment over a joinable thread, no thread that
  outlives the port.
* `TorqueOnAtRest`: torque comes on at speed zero, unless the zeroing frame was lost.
* `ImplementsInterlock`: the driver implements `DriveInterlock`: wheels are ordered
  to turn only while armed and only if asked since arming; disarming stops them.
* `StopCompletes`, `WriteCompletes`: the joins and the mutex let everyone through.
* `NoPhantomMotion`: `read()` reports motion only of a servo that sent a status within
  the two timeouts.
* `ReportsAsCommanded`: reported velocities are ones that could have been commanded.
* `OffByWholeTurns`: however late a reading is, the position is wrong by whole turns only.
  A fourth servo after three silent ones can slip so: the property bounds the slip, it does
  not exclude it.
* `ExactUnlessSlipped`: exact as long as successive readings are less than half a revolution
  apart, as in section 1.
* `NoUntrackedGoal`: a goal that runs is tracked, or its response or its cancel is
  still to come; the user can always stop the rover through the bridge.
* `ActiveWhenHeard`: the page shows navigation as active only on a recent sign of the
  current goal, not of one it superseded.
* `ImplementsGoalControl`: late responses and results neither revive a goal that was
  given up nor end the wanted one while it runs.
* `UnwantedGoalStops`: a cancel sticks, whether it comes before or after acceptance.
* `LostGoalFades`: a goal that Nav2 lost leaves the page by the activity timeout.
* `RestartsInMissionOrder`: however often and in whatever order the checkers repeat
  themselves, restarts follow the mission, one per challenge.
* `NoChallengeSkipped`: the segment shown is never past a challenge that is still open.
* `ReferenceSticks`: a stack launched with the reference parameters never goes back.
* `NothingOutlivesShutdown`: what is left when the node ends was sent SIGKILL, although
  the timeouts were shortened while an escalation was under way.
* `ImplementsService`: the launches of a stack never overlap, even if a leader dies
  before its group, and the later one has the parameters asked for last.
* `RestartCompletes`: no group can block a restart by ignoring signals.
* `Exclusive`: a resource is held by one living group at a time: jobs, stragglers of a dead
  leader and orphans of earlier sessions together.
* `RecordCovers`: while the TUI waits for a key the record lists every living group that
  holds a resource, so that a crash loses none.
* `OnlyOwnGroupsSignalled`: no signal goes to an id that the kernel gave to somebody else.
* `ExitKills`: when the TUI ends in order, what it began to stop at the exit is gone or was
  sent SIGKILL; the windows add up.
* `StoppedGroupDies`: a stopped group ends while the session lasts, whatever it ignores.
* `FollowsSafely`: a follower is only sent positions that come from an answer of the same
  round, on both sides, and lie inside the range it is known to have.
* `TrippedUntilAsked`: after the protection switched a follower off, neither the recovery
  from an overload nor the driving loop brings it back.
* `StopsInTime`: the wheels turn for the joystick only if a deadman was seen held a bounded
  time ago, through late executors, full queues, lost pads and dead nodes.
* `GivesWay`: an idle `GenericController` falls silent and leaves the rover to the others.

Each property has a mutant: a definition next to the original (`As ..., without ...`)
that makes a plausible mistake and violates it.

## 5. Proofs

* **Driver** (`ST3215System_proofs`, any number of servos, any set of speeds with 0).
  The invariant `IInv` adds to the types: what the loop counters mean (`LoopInv`),
  which callback can be where (`CallbackInv`), who holds the mutex and which thread
  exists (`BusInv`), that commands are zero outside the active state unless `write()`
  is about to be replaced (`CommandInv`), how far a loop has got through the servos
  with zeroed ones behind it (`ProgressInv`), and that a wheel that turns was asked
  for (`WantedInv`). The safety invariants say nothing about a callback half way
  through its servos, so none of them is inductive without these. The refinement
  maps a frame to `Drive` or a stutter, `Close` and `Restart` to `Disarm`.
* **Feedback** (`ServoFeedback_proofs`, any number of servos, any mirroring and any
  timeouts). `SignInv` follows a velocity from the wheel through packets to the
  report; `FreshInv` says a status in the buffers of a transaction is no older than
  the transaction, so an age is within one response timeout of the true silence.
* **Unwrapping** (`WheelOdometry_proofs`, any set of angles): the position differs from
  the last true angle by a multiple of 4096, and by a constant until a slip.
* **Bridge** (`WaypointsBridge_proofs`, any number of runs, any timeout). The invariant
  ties the tracker to the server: an active tracker holds the handle of the current
  token (`TrackerInv`), goals later than the current one are unsent and a goal with a
  rejection under way has ended (`GoalInv`), and the time since activity is never less than the silence of the current goal (`HeardInv`).
  The refinement maps `OnRun` to `Ask`, `OnCancel` to `Drop`, the end of the current
  goal to `Notice`, and everything the server does to `End` or a stutter.
* **Orchestrator** (`MissionOrchestrator_proofs`, any mission and any timeouts). Lemmas
  say what each operator of `ProcessGroup` does to a record; the rest never expands
  `Poll`. The invariant has per stack (`StackOK`) that a process not held has no group, that
  a restart waits for a process that is held, and that reference parameters are never
  followed by a request for others; that accepted reports form a prefix of the mission
  and restarts belong to it (`OrderInv`); and how far the escalation has got when a
  given time was waited (`ShutdownInv`), which is what makes the deadline enough. In
  the refinement a request is `Ask`, and `Supervise`, which may replace two launches at
  once, is a step of each stack. `LaunchesAloneHolds` says of the code what the refinement
  says of the promise: a launch finds nothing of its stack alive, carries out the pending
  restart with its parameters, and never comes after the shutdown has begun.

* **Job manager** (`TuiJobs_proofs`, any keys, resources, groups and windows). The invariant
  says whose group an id is (`OwnerInv`: one key per living group), what the job table
  and the orphans may name (`TableInv`, `FreshInv`), that every living group that holds
  a resource is in one of the two or about to be, unless it was missed (`HeldInv`), how
  `last` relates to both (`LastInv`), and how far an escalation is when a given time was
  waited (`WindowInv`). `Exclusive` is inductive only with these: `Launch` looks at the
  tables, never at the groups.
* **Arm** (`ArmTeleop_proofs`, any number of servos, any resolution). `LeaderInv` and
  `FollowerInv` say that a servo that is not failed at its turn answered in this round
  with a position inside its range, and `FileInv` that the range saved for a mirroring follower is not
  empty; a lemma
  bounds `scale_position` by arithmetic. `TrippedInv`: who tripped does not mirror.
  `FollowersFollowInProportion` says which position inside the range: the leader's place
  in proportion, at most one tick below, on any range and for either outcome of the
  floating point; so a leader that moves one way never drives its follower back by more
  than a tick (`ScalingKeepsOrder`).
* **Joystick** (`JoystickDrive_proofs`, any timeouts, depth and lateness). `QueueInv` bounds
  the age of every sample by how late the executor is, `CommandInv` relates the time since
  a deadman to the state of the timer, `DriveInv` does so for the multiplexer and the wheels.

All type invariants and all safety and action properties of the passing runs are proved,
the refinements included.

### What the abstract modules promise

A refinement is worth what its specification promises. `TurnsOnlyIfAsked` of
`DriveInterlock` and `GivenUpForGood` of `GoalControl` are proved of those small modules
and carried over to the code by the refinement theorems (`TurnsOnlyIfAskedHolds`,
`GivenUpForGoodHolds`): no proof about them looks at a thread, a frame or a late response.

### Termination: what is proved and what is not

A liveness property says three things: nobody waits in a circle, every wait is for
something nearer its end, and the steps waited for are taken. The first two are about
states and steps and are proved for every value of the constants; TLC evaluated each of
the formulas below on the instances of the runs before it was proved.

| Theorem | What it says | The liveness it is part of |
|---|---|---|
| `CallbacksBoundedHolds`, `CallbacksAdvanceHolds` | a callback has at most 9 N + 5 steps of its own, each brings it nearer its end, and a thread told to stop comes nearer its own | `StopCompletes`, `WriteCompletes` |
| `NoDeadlockHolds` | a callback and the polling thread never wait for each other | the same |
| `LostGoalFadesInTimeHolds` | a lost goal has a bounded number of ticks and late messages left on the page, none of another goal delays it, and what is cleared stays cleared | `LostGoalFades` |
| `PendingWaitsForStopHolds` | a pending restart always has a stop under way to wait for | `RestartCompletes` |
| `StopsEndInTimeHolds` | a stop has a bounded number of ticks and polls left, never gets more, and ends with nothing alive and nothing pending | the same |
| `ShutdownEndsInTimeHolds` | a shutdown has at most 4 `Deadline` + 4 of them left | the exit of the orchestrator |
| `GivesUpOnlyAfterKillHolds`, `EscalationsEndInTimeHolds` | an escalation has a bounded number of ticks and signals left, whatever keys are pressed, and SIGKILL is among them | `StoppedGroupDies` |

Where the way to the end has a length that no constant changes, the third part is proved
too, one leads-to for each stage and the chain of them by temporal logic:

* `UnwantedGoalStopsIfServed`: `UnwantedGoalStops` itself, for any number of runs. The
  stages are the answer of the server, the response, the cancel and the end.
* `JoinReturnsIfServed`: `join()` returns from wherever the thread was (`lock`, `await`,
  `loop`, `sleep`, `top`, `exited`): the one wait inside `StopCompletes`.
* `MutexObtainedIfServed`: `write()` gets the mutex, with the strong fairness of
  `LockWrite`: the one wait inside `WriteCompletes`.

Their hypotheses (`Served`, `CommServed`, `CtlServed`, `LockServed`) are the fairness of
`Spec` with the guard of each step written out where WF and SF have ENABLED: the prover
has no rule for ENABLED. That the guards of the driver are exactly when its steps are enabled, and
those of the bridge imply it, was checked with TLC on the instances of the runs, where
`Spec` therefore implies the hypotheses.

Only model-checked: `StopCompletes`, `WriteCompletes`, `LostGoalFades`, `RestartCompletes`
and `StoppedGroupDies` as leads-to formulas. The number of their stages grows with the
servos or the timeouts, and a chain of that length needs induction over a temporal
formula, which is out of this prover's reach; so is ENABLED.

## 6. Findings

1. `on_configure` closes the port when a frame fails (`H/src/st3215_system.cpp:278`,
287, 296, 305) and returns ERROR; `on_error` then calls `stop_all_servos`, which
returns at once on a closed port. A servo further down the list that a crashed
run left turning keeps turning. The comment on `on_error`
(`H/include/st3215_system.hpp:122-124`) says that it stops the servos before
giving up the bus when a transition errors. `driver_error_path` shows it.
`OpenPortIsSweptHolds` proves where the exception ends: a stop that still finds the
port open leaves a wheel turning only if both its frames were lost.

2. When a leader exits by itself while other members of its group remain, `poll()`
calls `request_stop` and returns STOPPING; EXITED follows only when the group is
gone. Its docstring (`R/perseus_lite_missions/perseus_lite_missions/process_group.py:138-140`)
says that such a leader reports `exited` even if stragglers remain. The
orchestrator relies on what the code does: `mission` shows that it never
launches beside stragglers. `mission_stragglers` shows the disagreement.

3. An error while following (`S/arm-teleop-direct/src/main.cpp:1096-1101`), or while a
mirroring follower is read (965-973), ends the mirroring and writes no torque register:
the servo holds its last goal with torque on, though its row says it does not mirror. The
comment at `main.cpp:1060` says that torque is on exactly while the servo mirrors.
`arm_torque` shows it.

4. After `q` or SIGINT, `_shutdown` ignores SIGINT only
(`R/perseus_lite_tui/perseus_lite_tui/app.py:142`). A SIGHUP or SIGTERM that arrives while
`stop_all` waits, such as the terminal being closed, unwinds the stopping itself, and the
escalators end before SIGKILL; `run()` promises to stop every job on any exit
(`app.py:99`). `jobs_exit` shows it. A job stopped with `k` just before `q` is left as well:
its interactive escalation takes longer than `stop_all` waits.

### Observed, not asserted by a run

* `XboxController` publishes a zero for every sample without a deadman. Where it takes the
  place of `GenericController` on `/joy_vel`, with the 20 Hz autorepeat of `joy_node`, an
  idle pad keeps the highest priority for ever; `GivesWay` is stated for `GenericController`
  only. It has no timeout of its own either: a lost pad is left to the drive controller.
* A signal between `Popen` and the job table loses the job; an orphan is overwritten in the
  record by a new run of its key; a record that could not be written is not written again
  until the groups change. `missed`, `Holders` and `file = last` account for them.
* `S/arm-teleop-direct/src/main.cpp:960-963` clears the error also when re-enabling torque
  failed, against the comment at 950.
* The defaults of the joystick's limits are said to match those of the drive controller
  (2.0 and 5.0 against 0.5 and 1.2 in its configuration).
* `on_deactivate` of the driver clears the commands and writes them in two steps; the
  controller manager keeps controllers out in between. A blocking wait for the
  action server and a cancel after a restart of the bridge act on the user's patience and on
  goals the bridge does not know; neither has a property.

## 7. Plan

Done: the wheel driver from its three sides; the waypoints bridge; the mission
orchestrator; the job manager; the arm; the joystick, multiplexer and drive timeout, each with proofs.

Left, in this order:

1. The mission checkers: debounce of a file that is written in pieces, dwell at a goal.
2. The waypoint tree and its blackboard index.
3. The IMU node: reinitialisation and the bias window.
4. The signalling of the web interface: sessions and reconnects.

Left to prove: how long the wheels of the joystick may turn after the last deadman, as a
rank of its own.

## 8. Not modelled

* The four components of the plan above: none commands an actuator by itself.
* `on_init` and the parsing of parameters: they only build the constants.
* Badges and the published mission state: written, never read back by a decision.
* Servo temperature and error flags of the wheels: reported or logged, never decided upon.
* In the TUI: drawing, log buffers, environment and preflight checks, the boot id.
* In the arm program: the choice of ports, serial set-up, bars on the screen; the flash of a
  status line and the wait for a key, which only delay a round.
* In the joystick nodes: scaling, clamping and the width of deadbands, parameters that
  change at run time, `timeout_enable: false`; restarts of `twist_mux`. Of the axis parsers,
  `hold` and an `is_less_than` threshold that a released trigger passes: none of the six
  configurations in `R/perseus_input_config` sets `hold`, and all their `is_less_than`
  thresholds are -0.5.
* `R/perseus_vision`, `R/pcl_to_lsr`, `R/teleop_diagnostics`: message in, message out.
* `S/shared`: generated CRC tables and blocking wrappers without protocol state of their own.
* `R/rplidar_ros`, `S/home-manager`, meshes, launch files: vendored, configuration, data.
