--------------------------- MODULE JoystickDrive ---------------------------
(***************************************************************************)
(* From the pad in the operator's hand to the wheels: the node that reads  *)
(* the pad (GenericController, or XboxController in its place), whose      *)
(* executor may be late, the multiplexer that lets the active source of    *)
(* the highest priority through, which is the joystick, and the drive      *)
(* controller, which drops a command that is not renewed.                  *)
(***************************************************************************)
EXTENDS Naturals, Sequences

CONSTANTS
  Joystick, Others, Nobody,  \* who commands the wheels
  Timeout, Period,           \* timeout_ns, JOY_TIMEOUT
  Depth,                     \* of the queue of /joy
  Stall,                     \* the executor catches up within so many ticks
  MuxTimeout, CmdTimeout     \* of an input, and of the drive controller

ASSUME SourceAssumption ==
  /\ Joystick \notin Others /\ Nobody \notin Others \union {Joystick}
ASSUME TimeAssumption ==
  /\ {Timeout, Stall, MuxTimeout, CmdTimeout} \subseteq Nat
  /\ {Period, Depth} \subseteq Nat \ {0}

VARIABLES
  pad,         \* how the operator holds the pad
  link,        \* the pad is there and joy_node runs
  queue,       \* samples on their way to the node
  up,          \* the node runs
  node,        \* which one it is
  stale,       \* ticks since _prev_received_joy_time
  timer,       \* ticks until _joy_timeout_timer is due
  late,        \* ticks during which the executor had something to do
  commanding,  \* _commanding
  silent,      \* ticks since the last message of the joystick at the mux
  by, age,     \* whose command turns the wheels, and for how long
  hands,       \* history: ticks since a deadman was held, as seen by joy_node
  died         \* history: the node ended without a twist since

nodeVars  == <<queue, up, node, stale, timer, late, commanding>>
driveVars == <<silent, by, age>>
vars == <<pad, link, nodeVars, driveVars, hands, died>>

\* The longest a released deadman, a lost pad or a lost message goes unseen.
Latency  == 2 * Stall + Timeout + Period
MaxStale == Timeout + Period + Stall + 1
MaxHands == Latency + CmdTimeout + MuxTimeout + 1
Counted(n, max) == IF n < max THEN n + 1 ELSE n

\* No deadman, a deadman and a centred stick, a deadman and a moved stick.
\* A message too short for an axis reads as if it were at rest.
Pads == {"off", "still", "moving"}

TypeOK ==
  /\ pad \in Pads
  /\ queue \in Seq(Pads) /\ Len(queue) <= Depth
  /\ link \in BOOLEAN /\ up \in BOOLEAN
  /\ node \in {"generic", "xbox"}
  /\ stale \in 0..MaxStale
  /\ timer \in 0..Period
  /\ late \in 0..Stall
  /\ commanding \in BOOLEAN
  /\ silent \in 0..MuxTimeout + 1
  /\ by \in Others \union {Joystick, Nobody}
  /\ age \in 0..CmdTimeout
  /\ hands \in 0..MaxHands
  /\ died \in BOOLEAN

-----------------------------------------------------------------------------
(* The pad, joy_node and the other sources.                                *)

Hold(p) ==
  /\ pad # p
  /\ pad' = p
  /\ UNCHANGED <<link, nodeVars, driveVars, hands, died>>

LinkChanges ==
  /\ link' = ~link
  /\ UNCHANGED <<pad, nodeVars, driveVars, hands, died>>

\* As Sample, with a queue that keeps everything.
SampleKeepsAll ==
  /\ link
  /\ hands' = IF pad = "off" THEN hands ELSE 0
  /\ queue' = IF up THEN Append(queue, pad) ELSE queue
  /\ UNCHANGED <<pad, link, up, node, stale, timer, late, commanding, driveVars,
                 died>>

\* joy_node publishes a change or repeats itself; the oldest message gives
\* way when the queue is full.
Sample ==
  /\ link
  /\ hands' = IF pad = "off" THEN hands ELSE 0
  /\ queue' = IF ~up THEN queue
              ELSE IF Len(queue) < Depth THEN Append(queue, pad)
              ELSE Append(Tail(queue), pad)
  /\ UNCHANGED <<pad, link, up, node, stale, timer, late, commanding, driveVars,
                 died>>

\* The wheels do what the last command that got through says.
Drive(s, moves) ==
  /\ by' = IF moves THEN s ELSE Nobody
  /\ age' = 0

\* A keyboard, the web UI or the navigation publishes: the multiplexer drops
\* the command while the joystick is active.
OtherCommand(s) ==
  /\ IF silent > MuxTimeout THEN \E moves \in BOOLEAN : Drive(s, moves)
                            ELSE UNCHANGED <<by, age>>
  /\ UNCHANGED <<pad, link, nodeVars, silent, hands, died>>

-----------------------------------------------------------------------------
(* The node.                                                               *)

\* _publish_twist: nothing has a higher priority.
PublishTwist(moves) ==
  /\ Drive(Joystick, moves)
  /\ silent' = 0
  /\ died' = FALSE

Quiet == UNCHANGED <<driveVars, died>>

\* _drive_enabled, and EnableParser::get_value of the two deadmen.
Enabled(p) == p # "off"

\* AxisParser::get_value of the two axes: outside their deadbands.
Moved(p) == p = "moving"

\* The executor is not late once it has nothing left to do.
Busy(q, t) == q # <<>> \/ t = 0
Caught == late' = IF Busy(queue', timer') THEN late ELSE 0

\* As JoyCallback, with zeros for as long as no deadman is held.
JoyCallbackStreamsZeros ==
  /\ up /\ node = "generic" /\ queue # <<>>
  /\ queue' = Tail(queue)
  /\ stale' = 0
  /\ PublishTwist(Moved(Head(queue)))
  /\ commanding' = Enabled(Head(queue))
  /\ UNCHANGED <<pad, link, up, node, timer, hands>>
  /\ Caught

\* _joy_callback: a command while a deadman is held, one zero after.
JoyCallback ==
  /\ up /\ node = "generic" /\ queue # <<>>
  /\ queue' = Tail(queue)
  /\ stale' = 0
  /\ commanding' = Enabled(Head(queue))
  /\ IF Enabled(Head(queue)) \/ commanding
     THEN PublishTwist(Moved(Head(queue)))
     ELSE Quiet
  /\ UNCHANGED <<pad, link, up, node, timer, hands>>
  /\ Caught

\* As TimeoutCallback, without the zero.
TimeoutCallbackOnlyWarns ==
  /\ up /\ node = "generic" /\ timer = 0
  /\ timer' = Period
  /\ commanding' = (commanding /\ stale <= Timeout)
  /\ Quiet
  /\ UNCHANGED <<pad, link, queue, up, node, stale, hands>>
  /\ Caught

\* _joy_timeout_callback
TimeoutCallback ==
  /\ up /\ node = "generic" /\ timer = 0
  /\ timer' = Period
  /\ IF commanding /\ stale > Timeout
     THEN PublishTwist(FALSE) /\ commanding' = FALSE
     ELSE Quiet /\ UNCHANGED commanding
  /\ UNCHANGED <<pad, link, queue, up, node, stale, hands>>
  /\ Caught

\* process_joystick_input of XboxController: a command or a zero, always.
ProcessJoystickInput ==
  /\ up /\ node = "xbox" /\ queue # <<>>
  /\ queue' = Tail(queue)
  /\ PublishTwist(Moved(Head(queue)))
  /\ UNCHANGED <<pad, link, up, node, stale, timer, commanding, hands>>
  /\ Caught

\* The process is killed: its queue and what it knew are gone.
Crash ==
  /\ up
  /\ up' = FALSE
  /\ queue' = <<>>
  /\ commanding' = FALSE
  /\ late' = 0
  /\ died' = TRUE
  /\ UNCHANGED <<pad, link, node, stale, timer, driveVars, hands>>

Start ==
  /\ ~up
  /\ up' = TRUE
  /\ stale' = 0
  /\ timer' = Period
  /\ UNCHANGED <<pad, link, queue, node, late, commanding, driveVars, hands, died>>

-----------------------------------------------------------------------------
\* The drive controller stops when a command is too old.
Tick ==
  /\ up /\ Busy(queue, timer) => late < Stall
  /\ late' = IF up /\ Busy(queue, timer) THEN late + 1 ELSE late
  /\ timer' = IF up /\ node = "generic" /\ timer > 0 THEN timer - 1 ELSE timer
  /\ stale' = Counted(stale, MaxStale)
  /\ silent' = Counted(silent, MuxTimeout + 1)
  /\ hands' = Counted(hands, MaxHands)
  /\ by' = IF age = CmdTimeout THEN Nobody ELSE by
  /\ age' = Counted(age, CmdTimeout)
  /\ UNCHANGED <<pad, link, queue, up, node, commanding, died>>

Init ==
  /\ pad = "off"
  /\ link = TRUE
  /\ queue = <<>>
  /\ up = TRUE
  /\ node \in {"generic", "xbox"}
  /\ stale = 0
  /\ timer = Period
  /\ late = 0
  /\ commanding = FALSE
  /\ silent = MuxTimeout + 1
  /\ by = Nobody
  /\ age = 0
  /\ hands = MaxHands
  /\ died = FALSE

World == LinkChanges \/ Sample \/ (\E p \in Pads : Hold(p))
           \/ \E s \in Others : OtherCommand(s)
Node  == JoyCallback \/ TimeoutCallback \/ ProcessJoystickInput
           \/ Crash \/ Start
Next  == World \/ Node \/ Tick

Spec == Init /\ [][Next]_vars

-----------------------------------------------------------------------------
(* Properties.                                                             *)

\* The wheels turn for the joystick only if joy_node saw a deadman held a
\* short time ago, whatever is released, unplugged, late, lost or killed; a
\* GenericController that runs does not leave it to the drive controller.
StopsInTime ==
  by = Joystick => /\ hands <= Stall + CmdTimeout
                   /\ node = "generic" /\ ~died => hands <= Latency

\* A joystick nobody uses does not keep the other sources from the wheels:
\* GenericController stops the rover once and goes quiet.
GivesWay ==
  node = "generic" /\ hands > Latency + MuxTimeout => silent > MuxTimeout

=============================================================================
