------------------------ MODULE JoystickDrive_proofs ------------------------
(***************************************************************************)
(* Proofs about JoystickDrive for any sources, timeouts, queue and         *)
(* lateness of the executor.  The inductive invariant follows a deadman    *)
(* from the pad to the wheels: how long ago joy_node saw it held, at each  *)
(* place where it can still be believed to be held.                        *)
(***************************************************************************)
EXTENDS JoystickDrive, TLAPS

Held(q) == \E i \in 1..Len(q) : q[i] # "off"

\* A held deadman on its way to the node is not older than the executor is
\* late.
QueueInv ==
  /\ Held(queue) => hands <= late
  /\ ~up => queue = <<>>

\* What the node believes, and when its timer puts an end to it.
CommandInv ==
  commanding =>
    /\ up /\ node = "generic"
    /\ hands <= Stall + stale
    /\ timer = 0 => stale <= Timeout + Period + late
    /\ timer # 0 => stale + timer <= Timeout + Period

\* What the wheels do, and what the multiplexer remembers.
DriveInv ==
  /\ by = Joystick => hands <= Stall + age
  /\ by = Joystick /\ node = "generic" /\ ~died => commanding
  /\ node = "generic" => silent > MuxTimeout \/ hands <= Latency + silent

IInv == TypeOK /\ QueueInv /\ CommandInv /\ DriveInv

-----------------------------------------------------------------------------
LEMMA ConstantsNat ==
  /\ Timeout \in Nat /\ Stall \in Nat /\ MuxTimeout \in Nat /\ CmdTimeout \in Nat
  /\ Period \in Nat \ {0} /\ Depth \in Nat \ {0}
  /\ Latency = 2 * Stall + Timeout + Period /\ Latency \in Nat
  /\ MaxStale = Timeout + Period + Stall + 1 /\ MaxStale \in Nat
  /\ MaxHands = Latency + CmdTimeout + MuxTimeout + 1 /\ MaxHands \in Nat
  BY TimeAssumption DEF Latency, MaxStale, MaxHands

LEMMA CountedType ==
  ASSUME NEW max \in Nat, NEW n \in 0..max
  PROVE  Counted(n, max) \in 0..max /\ n <= Counted(n, max) /\ Counted(n, max) <= n + 1
  BY DEF Counted

LEMMA TailFacts ==
  ASSUME NEW q \in Seq(Pads), q # <<>>
  PROVE  /\ Tail(q) \in Seq(Pads) /\ Len(Tail(q)) = Len(q) - 1 /\ Len(q) \in Nat
         /\ Head(q) # "off" => Held(q)
         /\ Held(Tail(q)) => Held(q)
  <1>1. Len(q) \in Nat \ {0} /\ Len(Tail(q)) = Len(q) - 1 /\ Tail(q) \in Seq(Pads)
    OBVIOUS
  <1>2. \A i \in 1..Len(Tail(q)) : Tail(q)[i] = q[i + 1] /\ i + 1 \in 1..Len(q)
    BY <1>1
  <1>3. Head(q) = q[1] /\ 1 \in 1..Len(q)
    BY <1>1
  <1> QED
    BY <1>1, <1>2, <1>3 DEF Held

LEMMA AppendFacts ==
  ASSUME NEW q \in Seq(Pads), NEW p \in Pads
  PROVE  /\ Append(q, p) \in Seq(Pads) /\ Len(Append(q, p)) = Len(q) + 1
         /\ Held(Append(q, p)) => Held(q) \/ p # "off"
  <1>1. Append(q, p) \in Seq(Pads) /\ Len(Append(q, p)) = Len(q) + 1 /\ Len(q) \in Nat
    OBVIOUS
  <1>2. \A i \in 1..Len(q) : Append(q, p)[i] = q[i]
    OBVIOUS
  <1>3. Append(q, p)[Len(q) + 1] = p
    OBVIOUS
  <1>4. \A i \in 1..Len(Append(q, p)) : i \in 1..Len(q) \/ i = Len(q) + 1
    BY <1>1
  <1> QED
    BY <1>1, <1>2, <1>3, <1>4 DEF Held

-----------------------------------------------------------------------------
(* Every action keeps the type.                                            *)

LEMMA TypeInit == Init => TypeOK
  <1> SUFFICES ASSUME Init PROVE TypeOK
    OBVIOUS
  <1>1. queue \in Seq(Pads) /\ Len(queue) <= Depth
    BY ConstantsNat DEF Init
  <1>2. /\ stale \in 0..MaxStale /\ timer \in 0..Period /\ late \in 0..Stall
        /\ silent \in 0..MuxTimeout + 1 /\ age \in 0..CmdTimeout
        /\ hands \in 0..MaxHands
    BY ConstantsNat DEF Init
  <1> QED
    BY <1>1, <1>2 DEF Init, TypeOK, Pads

LEMMA DriveType ==
  ASSUME NEW s \in Others \union {Joystick, Nobody}, NEW moves, Drive(s, moves)
  PROVE  by' \in Others \union {Joystick, Nobody} /\ age' \in 0..CmdTimeout
  BY ConstantsNat DEF Drive

LEMMA PublishType ==
  ASSUME NEW moves, PublishTwist(moves)
  PROVE  /\ by' \in Others \union {Joystick, Nobody} /\ age' \in 0..CmdTimeout
         /\ silent' \in 0..MuxTimeout + 1 /\ died' \in BOOLEAN
  <1>1. by' \in Others \union {Joystick, Nobody} /\ died' \in BOOLEAN
    BY DEF PublishTwist, Drive
  <1> QED
    BY <1>1, ConstantsNat DEF PublishTwist, Drive

LEMMA CaughtType ==
  ASSUME TypeOK, Caught
  PROVE  late' \in 0..Stall
  BY ConstantsNat DEF TypeOK, Caught

LEMMA TypeStep == TypeOK /\ [Next]_vars => TypeOK'
  <1> SUFFICES ASSUME TypeOK, [Next]_vars PROVE TypeOK'
    OBVIOUS
  <1> USE DEF nodeVars, driveVars
  <1>1. ASSUME NEW p \in Pads, Hold(p) PROVE TypeOK'
    BY <1>1 DEF Hold, TypeOK
  <1>2. CASE LinkChanges
    BY <1>2 DEF LinkChanges, TypeOK
  <1>3. CASE Sample
    <2>1. queue' \in Seq(Pads) /\ Len(queue') <= Depth
      <3>1. /\ queue \in Seq(Pads) /\ pad \in Pads /\ Len(queue) <= Depth
            /\ Len(queue) \in Nat
        BY DEF TypeOK
      <3>2. CASE Len(queue) < Depth
        BY <1>3, <3>1, <3>2, AppendFacts, ConstantsNat DEF Sample
      <3>3. CASE ~(Len(queue) < Depth)
        <4>1. queue # <<>>
          BY <3>1, <3>3, ConstantsNat
        <4>2. Tail(queue) \in Seq(Pads) /\ Len(Tail(queue)) = Len(queue) - 1
          BY <3>1, <4>1, TailFacts
        <4> QED
          BY <1>3, <3>1, <3>3, <4>2, AppendFacts DEF Sample
      <3> QED
        BY <3>2, <3>3
    <2>2. hands' \in 0..MaxHands
      BY <1>3, ConstantsNat DEF Sample, TypeOK
    <2> QED
      BY <1>3, <2>1, <2>2 DEF Sample, TypeOK
  <1>4. ASSUME NEW s \in Others, OtherCommand(s) PROVE TypeOK'
    <2>1. by' \in Others \union {Joystick, Nobody} /\ age' \in 0..CmdTimeout
      BY <1>4, DriveType DEF OtherCommand, TypeOK
    <2> QED
      BY <1>4, <2>1 DEF OtherCommand, TypeOK
  <1>5. ASSUME queue # <<>>, queue' = Tail(queue)
        PROVE  queue' \in Seq(Pads) /\ Len(queue') <= Depth
    <2>1. queue \in Seq(Pads) /\ Len(queue) <= Depth
      BY DEF TypeOK
    <2> QED
      BY <1>5, <2>1, TailFacts, ConstantsNat
  <1>6. CASE JoyCallback
    <2>1. queue' \in Seq(Pads) /\ Len(queue') <= Depth
      BY <1>5, <1>6 DEF JoyCallback
    <2>2. /\ by' \in Others \union {Joystick, Nobody} /\ age' \in 0..CmdTimeout
          /\ silent' \in 0..MuxTimeout + 1 /\ died' \in BOOLEAN
      BY <1>6, PublishType DEF JoyCallback, Quiet, TypeOK
    <2>3. stale' \in 0..MaxStale /\ commanding' \in BOOLEAN
      BY <1>6, ConstantsNat DEF JoyCallback, Enabled
    <2> QED
      BY <1>6, <2>1, <2>2, <2>3, CaughtType DEF JoyCallback, TypeOK
  <1>7. CASE TimeoutCallback
    <2>1. /\ by' \in Others \union {Joystick, Nobody} /\ age' \in 0..CmdTimeout
          /\ silent' \in 0..MuxTimeout + 1 /\ died' \in BOOLEAN
          /\ commanding' \in BOOLEAN
      BY <1>7, PublishType DEF TimeoutCallback, Quiet, TypeOK
    <2>2. timer' \in 0..Period
      BY <1>7, ConstantsNat DEF TimeoutCallback
    <2> QED
      BY <1>7, <2>1, <2>2, CaughtType DEF TimeoutCallback, TypeOK
  <1>8. CASE ProcessJoystickInput
    <2>1. queue' \in Seq(Pads) /\ Len(queue') <= Depth
      BY <1>5, <1>8 DEF ProcessJoystickInput
    <2>2. /\ by' \in Others \union {Joystick, Nobody} /\ age' \in 0..CmdTimeout
          /\ silent' \in 0..MuxTimeout + 1 /\ died' \in BOOLEAN
      BY <1>8, PublishType DEF ProcessJoystickInput
    <2> QED
      BY <1>8, <2>1, <2>2, CaughtType DEF ProcessJoystickInput, TypeOK
  <1>9. CASE Crash
    <2>1. queue' \in Seq(Pads) /\ Len(queue') <= Depth /\ late' \in 0..Stall
      BY <1>9, ConstantsNat DEF Crash
    <2> QED
      BY <1>9, <2>1 DEF Crash, TypeOK
  <1>10. CASE Start
    <2>1. stale' \in 0..MaxStale /\ timer' \in 0..Period
      BY <1>10, ConstantsNat DEF Start
    <2> QED
      BY <1>10, <2>1 DEF Start, TypeOK
  <1>11. CASE Tick
    <2>1. late' \in 0..Stall /\ timer' \in 0..Period
      BY <1>11, ConstantsNat DEF Tick, TypeOK
    <2>2. stale' \in 0..MaxStale /\ hands' \in 0..MaxHands
      BY <1>11, ConstantsNat, CountedType DEF Tick, TypeOK
    <2>3. silent' \in 0..MuxTimeout + 1 /\ age' \in 0..CmdTimeout
      BY <1>11, ConstantsNat, CountedType DEF Tick, TypeOK
    <2>4. by' \in Others \union {Joystick, Nobody}
      BY <1>11 DEF Tick, TypeOK
    <2> QED
      BY <1>11, <2>1, <2>2, <2>3, <2>4 DEF Tick, TypeOK
  <1>12. CASE UNCHANGED vars
    BY <1>12 DEF vars, TypeOK
  <1> QED
    BY <1>1, <1>2, <1>3, <1>4, <1>6, <1>7, <1>8, <1>9, <1>10, <1>11, <1>12
    DEF Next, World, Node

\* Every variable keeps its type.
THEOREM TypeCorrect == Spec => []TypeOK
  <1>1. Init => TypeOK
    BY TypeInit
  <1>2. TypeOK /\ [Next]_vars => TypeOK'
    BY TypeStep
  <1> QED
    BY <1>1, <1>2, PTL DEF Spec

-----------------------------------------------------------------------------
(* Every action keeps what is known of the deadman.                        *)

LEMMA Numbers ==
  ASSUME TypeOK
  PROVE  /\ stale \in Nat /\ timer \in Nat /\ late \in Nat /\ late <= Stall
         /\ timer <= Period /\ silent \in Nat /\ age \in Nat /\ hands \in Nat
         /\ age <= CmdTimeout /\ queue \in Seq(Pads) /\ pad \in Pads
  BY ConstantsNat DEF TypeOK

\* What the node does with its messages leaves the rest as young as it was.
LEMMA CaughtKeeps ==
  ASSUME QueueInv, up', hands' = hands, Caught, Held(queue') => Held(queue)
  PROVE  QueueInv'
  <1>1. Held(queue') => queue' # <<>>
    BY DEF Held
  <1> QED
    BY <1>1 DEF QueueInv, Caught, Busy

LEMMA QueueStep == TypeOK /\ QueueInv /\ [Next]_vars => QueueInv'
  <1> SUFFICES ASSUME TypeOK, QueueInv, [Next]_vars PROVE QueueInv'
    OBVIOUS
  <1> USE DEF nodeVars, driveVars
  <1>1. CASE Sample
    <2>1. Held(queue') => Held(queue) \/ pad # "off"
      <3>1. /\ queue \in Seq(Pads) /\ pad \in Pads
            /\ \/ queue' = queue
               \/ queue' = Append(queue, pad)
               \/ Len(queue) >= Depth /\ queue' = Append(Tail(queue), pad)
        BY <1>1, Numbers, ConstantsNat DEF Sample
      <3>2. CASE queue' = queue \/ queue' = Append(queue, pad)
        BY <3>1, <3>2, AppendFacts
      <3>3. CASE Len(queue) >= Depth /\ queue' = Append(Tail(queue), pad)
        <4>1. queue # <<>>
          BY <3>3, ConstantsNat
        <4> QED
          BY <3>1, <3>3, <4>1, TailFacts, AppendFacts
      <3> QED
        BY <3>1, <3>2, <3>3
    <2>2. pad # "off" => hands' = 0
      BY <1>1 DEF Sample
    <2>3. pad = "off" => hands' = hands
      BY <1>1 DEF Sample
    <2>4. late' = late /\ up' = up /\ (~up => queue' = queue)
      BY <1>1 DEF Sample
    <2> QED
      BY <2>1, <2>2, <2>3, <2>4, Numbers DEF QueueInv
  <1>2. CASE JoyCallback \/ TimeoutCallback \/ ProcessJoystickInput
    <2>1. up' /\ hands' = hands /\ Caught
      <3>1. CASE JoyCallback
        BY <3>1 DEF JoyCallback
      <3>2. CASE TimeoutCallback
        BY <3>2 DEF TimeoutCallback
      <3>3. CASE ProcessJoystickInput
        BY <3>3 DEF ProcessJoystickInput
      <3> QED
        BY <1>2, <3>1, <3>2, <3>3
    <2>2. CASE queue # <<>> /\ queue' = Tail(queue)
      BY <2>1, <2>2, Numbers, TailFacts, CaughtKeeps
    <2>3. CASE queue' = queue
      <3>1. Held(queue') => Held(queue)
        BY <2>3
      <3> QED
        BY <2>1, <3>1, CaughtKeeps
    <2> QED
      BY <1>2, <2>2, <2>3 DEF JoyCallback, TimeoutCallback, ProcessJoystickInput
  <1>3. CASE Crash
    <2>1. queue' = <<>> /\ ~Held(<<>>)
      BY <1>3 DEF Crash, Held
    <2> QED
      BY <2>1 DEF QueueInv
  <1>4. CASE Start
    <2>1. ~Held(<<>>)
      BY DEF Held
    <2> QED
      BY <1>4, <2>1 DEF Start, QueueInv
  <1>5. CASE Tick
    <2>1. hands' <= hands + 1
      BY <1>5, CountedType, ConstantsNat DEF Tick, TypeOK
    <2>2. Held(queue) => up /\ Busy(queue, timer) /\ late' = late + 1
      BY <1>5 DEF Tick, QueueInv, Held, Busy
    <2>3. queue' = queue /\ up' = up /\ hands' \in Nat
      BY <1>5, TypeStep, Numbers, ConstantsNat DEF Tick, TypeOK, Counted
    <2> QED
      BY <2>1, <2>2, <2>3, Numbers DEF QueueInv
  <1>6. CASE LinkChanges \/ (\E p \in Pads : Hold(p))
               \/ (\E s \in Others : OtherCommand(s)) \/ UNCHANGED vars
    BY <1>6 DEF LinkChanges, Hold, OtherCommand, vars, QueueInv
  <1> QED
    BY <1>1, <1>2, <1>3, <1>4, <1>5, <1>6 DEF Next, World, Node

LEMMA CommandStep ==
  TypeOK /\ QueueInv /\ CommandInv /\ [Next]_vars => CommandInv'
  <1> SUFFICES ASSUME TypeOK, QueueInv, CommandInv, [Next]_vars, commanding'
               PROVE  /\ up' /\ node' = "generic"
                      /\ hands' <= Stall + stale'
                      /\ timer' = 0 => stale' <= Timeout + Period + late'
                      /\ timer' # 0 => stale' + timer' <= Timeout + Period
    BY DEF CommandInv
  <1> USE DEF nodeVars, driveVars
  <1>1. CASE Sample
    <2>1. /\ up' = up /\ node' = node /\ stale' = stale /\ timer' = timer
          /\ late' = late /\ commanding' = commanding
          /\ hands' = hands \/ hands' = 0
      BY <1>1 DEF Sample
    <2> QED
      BY <2>1, Numbers, ConstantsNat DEF CommandInv
  <1>2. CASE JoyCallback
    <2>1. up' /\ node' = "generic" /\ Enabled(Head(queue)) /\ queue # <<>>
      BY <1>2 DEF JoyCallback
    <2>2. stale' = 0 /\ timer' = timer /\ hands' = hands
      BY <1>2 DEF JoyCallback
    <2>3. hands <= late
      BY <2>1, TailFacts, Numbers DEF QueueInv, Enabled
    <2>4. late' \in 0..Stall
      BY <1>2, CaughtType DEF JoyCallback
    <2>5. /\ hands' <= Stall + stale'
          /\ stale' <= Timeout + Period + late'
          /\ stale' + timer' <= Timeout + Period
      <3>1. hands' <= Stall + stale'
        BY <2>2, <2>3, Numbers, ConstantsNat
      <3>2. stale' <= Timeout + Period + late'
        <4>1. Timeout \in Nat /\ Period \in Nat /\ Stall \in Nat
          BY ConstantsNat
        <4>2. late' \in Nat
          BY <2>4, <4>1
        <4> DEFINE lateness == late'
        <4>3. lateness \in Nat
          BY <4>2
        <4> HIDE DEF lateness
        <4>4. 0 <= Timeout + Period + lateness
          BY <4>1, <4>3
        <4> QED
          BY <2>2, <4>4 DEF lateness
      <3>3. stale' + timer' <= Timeout + Period
        BY <2>2, Numbers, ConstantsNat
      <3> QED
        BY <3>1, <3>2, <3>3
    <2> QED
      BY <2>1, <2>5
  <1>3. CASE TimeoutCallback
    <2>1. up' /\ node' = "generic" /\ commanding
      BY <1>3 DEF TimeoutCallback
    <2>2. stale' = stale /\ timer' = Period /\ hands' = hands /\ ~(stale > Timeout)
      BY <1>3 DEF TimeoutCallback
    <2>3. hands <= Stall + stale
      BY <2>1 DEF CommandInv
    <2>4. hands' <= Stall + stale' /\ timer' # 0 /\ stale' + timer' <= Timeout + Period
      BY <2>2, <2>3, Numbers, ConstantsNat
    <2> QED
      BY <2>1, <2>4
  <1>4. CASE Tick
    <2>1. up' = up /\ node' = node /\ up /\ node = "generic"
      BY <1>4 DEF Tick, CommandInv
    <2>2. /\ hands <= Stall + stale
          /\ timer = 0 => stale <= Timeout + Period + late
          /\ timer # 0 => stale + timer <= Timeout + Period
      BY <1>4 DEF Tick, CommandInv
    <2>3. /\ timer' = IF timer > 0 THEN timer - 1 ELSE timer
          /\ timer = 0 => late' = late + 1
          /\ hands' = Counted(hands, MaxHands) /\ stale' = Counted(stale, MaxStale)
      BY <1>4, <2>1 DEF Tick, Busy
    <2>4. hands' <= hands + 1 /\ hands' \in Nat
      BY <2>3, CountedType, ConstantsNat DEF TypeOK
    <2>5. stale <= Timeout + Period + Stall
      BY <2>2, Numbers, ConstantsNat
    <2>6. stale' = stale + 1
      BY <2>3, <2>5, Numbers, ConstantsNat DEF Counted
    <2>7. late' \in Nat
      BY <1>4, Numbers DEF Tick
    <2>8. hands' <= Stall + stale'
      BY <2>2, <2>4, <2>6, Numbers, ConstantsNat
    <2>9. CASE timer = 0
      <3>1. timer' = 0 /\ stale' <= Timeout + Period + late'
        BY <2>2, <2>3, <2>6, <2>9, Numbers, ConstantsNat
      <3> QED
        BY <2>1, <2>8, <3>1
    <2>10. CASE timer # 0
      <3>0. timer' = timer - 1 /\ stale + timer <= Timeout + Period
        BY <2>2, <2>3, <2>10, Numbers
      <3>1. stale' + timer' <= Timeout + Period
        BY <2>6, <3>0, Numbers, ConstantsNat
      <3>2. timer' = 0 => stale' <= Timeout + Period + late'
        BY <3>1, <2>6, <2>7, Numbers, ConstantsNat
      <3> QED
        BY <2>1, <2>8, <3>1, <3>2
    <2> QED
      BY <2>9, <2>10
  <1>5. CASE ProcessJoystickInput
    BY <1>5 DEF ProcessJoystickInput, CommandInv
  <1>6. CASE Crash \/ Start
    BY <1>6 DEF Crash, Start, CommandInv
  <1>7. CASE LinkChanges \/ (\E p \in Pads : Hold(p))
               \/ (\E s \in Others : OtherCommand(s)) \/ UNCHANGED vars
    BY <1>7 DEF LinkChanges, Hold, OtherCommand, vars, CommandInv
  <1> QED
    BY <1>1, <1>2, <1>3, <1>4, <1>5, <1>6, <1>7 DEF Next, World, Node

\* A twist of the joystick is not older than what it is about.
LEMMA Publishes ==
  ASSUME TypeOK, NEW moves, PublishTwist(moves), hands' = hands,
         moves => hands <= Stall,
         node' = "generic" => hands <= Latency,
         moves /\ node' = "generic" => commanding'
  PROVE  DriveInv'
  <1>1. by' = Joystick => moves
    BY SourceAssumption DEF PublishTwist, Drive
  <1>2. age' = 0 /\ silent' = 0
    BY DEF PublishTwist, Drive
  <1>3. moves => hands' <= Stall + age'
    BY <1>2, Numbers, ConstantsNat
  <1>4. node' = "generic" => hands' <= Latency + silent'
    BY <1>2, Numbers, ConstantsNat
  <1> QED
    BY <1>1, <1>3, <1>4 DEF DriveInv

LEMMA DriveStep ==
  TypeOK /\ QueueInv /\ CommandInv /\ DriveInv /\ [Next]_vars => DriveInv'
  <1> SUFFICES ASSUME TypeOK, QueueInv, CommandInv, DriveInv, [Next]_vars
               PROVE  DriveInv'
    OBVIOUS
  <1> USE DEF nodeVars, driveVars
  <1>1. CASE Sample
    <2>1. /\ by' = by /\ age' = age /\ silent' = silent /\ died' = died /\ node' = node
          /\ commanding' = commanding
      BY <1>1 DEF Sample
    <2>2. /\ hands' = hands \/ hands' = 0
          /\ 0 <= Stall + age /\ 0 <= Latency + silent
      BY <1>1, Numbers, ConstantsNat DEF Sample
    <2> QED
      BY <2>1, <2>2 DEF DriveInv
  <1>2. ASSUME NEW s \in Others, OtherCommand(s) PROVE DriveInv'
    <2>1. /\ hands' = hands /\ silent' = silent /\ died' = died /\ node' = node
          /\ commanding' = commanding
          /\ (by' = by /\ age' = age) \/ by' # Joystick
      BY <1>2, SourceAssumption DEF OtherCommand, Drive
    <2> QED
      BY <2>1 DEF DriveInv
  <1>3. Held(queue) => hands <= Stall /\ hands <= Latency
    BY Numbers, ConstantsNat DEF QueueInv
  <1>4. commanding => hands <= Latency
    <2>1. commanding => hands <= Stall + stale /\ stale <= Timeout + Period + Stall
      BY Numbers, ConstantsNat DEF CommandInv
    <2> QED
      BY <2>1, Numbers, ConstantsNat
  <1>5. CASE JoyCallback
    <2>1. /\ hands' = hands /\ node' = node /\ commanding' = Enabled(Head(queue))
          /\ Enabled(Head(queue)) => Held(queue)
          /\ Moved(Head(queue)) => Enabled(Head(queue))
      BY <1>5, Numbers, TailFacts DEF JoyCallback, Enabled, Moved
    <2>2. CASE Enabled(Head(queue)) \/ commanding
      <3>1. PublishTwist(Moved(Head(queue)))
        BY <1>5, <2>2 DEF JoyCallback
      <3> QED
        BY <1>3, <1>4, <2>1, <2>2, <3>1, Publishes
    <2>3. CASE ~(Enabled(Head(queue)) \/ commanding)
      <3>1. by' = by /\ age' = age /\ silent' = silent /\ died' = died
        BY <1>5, <2>3 DEF JoyCallback, Quiet
      <3> QED
        BY <2>1, <2>3, <3>1 DEF DriveInv
    <2> QED
      BY <2>2, <2>3
  <1>6. CASE TimeoutCallback
    <2>1. hands' = hands /\ node' = node
      BY <1>6 DEF TimeoutCallback
    <2>2. CASE commanding /\ stale > Timeout
      <3>1. PublishTwist(FALSE)
        BY <1>6, <2>2 DEF TimeoutCallback
      <3> QED
        BY <1>4, <2>1, <2>2, <3>1, Publishes
    <2>3. CASE ~(commanding /\ stale > Timeout)
      <3>1. /\ by' = by /\ age' = age /\ silent' = silent /\ died' = died
            /\ commanding' = commanding
        BY <1>6, <2>3 DEF TimeoutCallback, Quiet
      <3> QED
        BY <2>1, <3>1 DEF DriveInv
    <2> QED
      BY <2>2, <2>3
  <1>7. CASE ProcessJoystickInput
    <2>1. /\ hands' = hands /\ node' # "generic" /\ PublishTwist(Moved(Head(queue)))
          /\ Moved(Head(queue)) => Held(queue)
      BY <1>7, Numbers, TailFacts DEF ProcessJoystickInput, Moved
    <2> QED
      BY <1>3, <2>1, Publishes
  <1>8. CASE Crash
    BY <1>8 DEF Crash, DriveInv
  <1>9. CASE Start
    BY <1>9 DEF Start, DriveInv
  <1>10. CASE Tick
    <2>1. /\ node' = node /\ died' = died /\ commanding' = commanding
          /\ by' = Joystick => by = Joystick /\ age # CmdTimeout
      BY <1>10, SourceAssumption DEF Tick
    <2>2. hands' <= hands + 1 /\ hands' \in Nat
      BY <1>10, CountedType, ConstantsNat DEF Tick, TypeOK
    <2>3. age # CmdTimeout => age' = age + 1
      BY <1>10, Numbers, ConstantsNat DEF Tick, Counted
    <2>4. silent' > MuxTimeout \/ (silent <= MuxTimeout /\ silent' = silent + 1)
      <3>1. silent' = Counted(silent, MuxTimeout + 1)
        BY <1>10 DEF Tick
      <3>2. CASE silent < MuxTimeout + 1
        <4>1. silent' = silent + 1
          BY <3>1, <3>2 DEF Counted
        <4>2. silent <= MuxTimeout
          BY <3>2, Numbers, ConstantsNat
        <4> QED
          BY <4>1, <4>2
      <3>3. CASE ~(silent < MuxTimeout + 1)
        <4>1. silent' = silent
          BY <3>1, <3>3 DEF Counted
        <4>2. silent' > MuxTimeout
          BY <3>3, <4>1, Numbers, ConstantsNat
        <4> QED
          BY <4>2
      <3> QED
        BY <3>2, <3>3
    <2>5. by' = Joystick => hands' <= Stall + age'
      <3>1. by' = Joystick => hands <= Stall + age
        BY <2>1 DEF DriveInv
      <3> QED
        BY <2>1, <2>2, <2>3, <3>1, Numbers, ConstantsNat
    <2>6. node' = "generic" => silent' > MuxTimeout \/ hands' <= Latency + silent'
      <3>1. node' = "generic" => silent > MuxTimeout \/ hands <= Latency + silent
        BY <2>1 DEF DriveInv
      <3> QED
        BY <2>2, <2>4, <3>1, Numbers, ConstantsNat
    <2> QED
      BY <2>1, <2>5, <2>6 DEF DriveInv
  <1>11. CASE LinkChanges \/ (\E p \in Pads : Hold(p)) \/ UNCHANGED vars
    BY <1>11 DEF LinkChanges, Hold, vars, DriveInv
  <1> QED
    BY <1>1, <1>2, <1>5, <1>6, <1>7, <1>8, <1>9, <1>10, <1>11 DEF Next, World, Node

-----------------------------------------------------------------------------
(* What reaches the wheels.                                                *)

LEMMA InvInit == Init => IInv
  <1> SUFFICES ASSUME Init PROVE IInv
    OBVIOUS
  <1>1. TypeOK
    BY TypeInit
  <1>2. /\ queue = <<>> /\ ~commanding /\ by # Joystick /\ ~Held(<<>>)
        /\ silent = MuxTimeout + 1
    BY SourceAssumption DEF Init, Held
  <1>3. silent > MuxTimeout
    BY <1>2, ConstantsNat
  <1> QED
    BY <1>1, <1>2, <1>3 DEF IInv, QueueInv, CommandInv, DriveInv

LEMMA Invariance == Spec => []IInv
  <1>1. Init => IInv
    BY InvInit
  <1>2. IInv /\ [Next]_vars => IInv'
    BY TypeStep, QueueStep, CommandStep, DriveStep DEF IInv
  <1> QED
    BY <1>1, <1>2, PTL DEF Spec

\* The wheels turn for the joystick only if a deadman was held a short time
\* ago, for any timeouts, any queue and any lateness of the executor.
THEOREM StopsInTimeHolds == Spec => []StopsInTime
  <1>1. IInv => StopsInTime
    <2> SUFFICES ASSUME IInv, by = Joystick
                 PROVE  /\ hands <= Stall + CmdTimeout
                        /\ node = "generic" /\ ~died => hands <= Latency
      BY DEF StopsInTime
    <2>1. TypeOK
      BY DEF IInv
    <2>2. hands <= Stall + age
      BY DEF IInv, DriveInv
    <2>3. hands <= Stall + CmdTimeout
      BY <2>1, <2>2, Numbers, ConstantsNat
    <2>4. node = "generic" /\ ~died => commanding
      BY DEF IInv, DriveInv
    <2>5. commanding => hands <= Stall + stale /\ stale <= Timeout + Period + Stall
      BY <2>1, Numbers, ConstantsNat DEF IInv, CommandInv
    <2>6. commanding => hands <= Latency
      BY <2>1, <2>5, Numbers, ConstantsNat
    <2> QED
      BY <2>3, <2>4, <2>6
  <1> QED
    BY <1>1, Invariance, PTL

\* A GenericController nobody uses leaves the wheels to the other sources.
THEOREM GivesWayHolds == Spec => []GivesWay
  <1>1. IInv => GivesWay
    <2> SUFFICES ASSUME IInv, node = "generic", hands > Latency + MuxTimeout
                 PROVE  silent > MuxTimeout
      BY DEF GivesWay
    <2>1. TypeOK /\ (silent > MuxTimeout \/ hands <= Latency + silent)
      BY DEF IInv, DriveInv
    <2> QED
      BY <2>1, Numbers, ConstantsNat
  <1> QED
    BY <1>1, Invariance, PTL
=============================================================================
