------------------------ MODULE ST3215System_proofs ------------------------
(***************************************************************************)
(* Proofs about ST3215System for every number of servos and every set of   *)
(* speeds.  The inductive invariant IInv ties each program counter to the  *)
(* callback it belongs to, the mutex and the port to the two threads, and  *)
(* the servo registers to how far the current loop over the servos is.     *)
(***************************************************************************)
EXTENDS ST3215System, TLAPS

\* Servo s obeys the last goal-speed frame delivered to it, and is at zero.
AtRest(s) == goalFate[s] = "delivered" => goal[s] = 0

\* Both frames of stop_all_servos have been sent to servo s.
Safed(s) ==
  /\ goalFate[s] # "none" /\ AtRest(s)
  /\ torqueFate[s] # "none"
  /\ torqueFate[s] = "delivered" => ~torque[s]

Bringup  == {"config", "probe", "start"}
Writing  == {"lockWrite", "write"}
Stopping == {"join", "lockStop", "stop", "close"}
Released == {"unconfigured", "finalized", "destroyed"}

\* Which callback, in which lifecycle state, each program counter is in.
CallbackInv ==
  /\ pc = "idle" => op = "none"
  /\ pc \in Bringup => op = "configure" /\ lifecycle = "unconfigured"
  /\ pc \in Writing => op \in {"write", "deactivate", "destroy"}
  /\ pc = "error" => op = "error"
  /\ pc \in Stopping => op \in {"cleanup", "shutdown", "error", "destroy"}
  /\ op = "write" => lifecycle \in {"inactive", "active"}
  /\ op = "deactivate" => lifecycle = "active"
  /\ op = "cleanup" => lifecycle = "inactive"

\* The mutex, the port and the life of the communication thread.
BusInv ==
  /\ serial = "comm" <=> comm = "await"
  /\ serial = "ctl" <=> pc \in {"write", "stop"}
  /\ port = "closed" => comm = "none"
  /\ pc \in Bringup => port = "open"
  /\ lifecycle \in {"inactive", "active"} => port = "open"
  /\ lifecycle \in Released => comm = "none"
  /\ lifecycle \in Released => ~running \/ pc = "error"
  /\ pc \in {"lockStop", "stop", "close"} => comm = "none"
  /\ pc \in {"lockStop", "stop"} => port = "open"
  /\ pc \in Stopping => ~running
  /\ lifecycle \in Released /\ pc \notin Bringup => port = "closed"
  /\ lifecycle \in Released => pc \notin Writing \union {"lockStop", "stop"}

\* When the commands are known to be zero.
CommandInv ==
  /\ lifecycle \in {"unconfigured", "inactive"} => cmd = AllZero
  /\ pc \in Writing /\ (lifecycle # "active" \/ op # "write") => cmd = AllZero
  /\ op = "error" /\ pc \in Stopping => cmd = AllZero

\* How far the loop over the servos has come.
ProgressInv ==
  /\ lifecycle # "active" \/ pc = "close" => \A s \in Servo : AtRest(s)
  /\ pc = "write" /\ op = "deactivate" => \A s \in 1..(k - 1) : AtRest(s)
  /\ pc = "stop" =>
       /\ \A s \in 1..(k - 1) : Safed(s)
       /\ stage \in {1, 2}
       /\ stage = 2 => goalFate[k] # "none" /\ AtRest(k)
  /\ pc = "config" /\ stage > 1 => goalFate[k] # "none"
  /\ swept => \A s \in Servo : Safed(s)
  /\ swept => pc = "close" \/ lifecycle \in Released
  /\ swept => pc \notin Bringup /\ ~running

\* What may turn in the active state is what a controller asked for.
WantedInv ==
  lifecycle = "active" =>
    \A s \in Servo :
      /\ cmd[s] # 0 => s \in wanted
      /\ goalFate[s] = "delivered" => goal[s] = 0 \/ s \in wanted

\* The bounds of the servo and attempt counters inside their loops.
LoopInv ==
  /\ comm \in {"lock", "await"} => ci \in Servo
  /\ pc = "probe" => stage \in 1..ProbeAttempts

IInv ==
  /\ TypeOK /\ LoopInv /\ CallbackInv /\ BusInv /\ CommandInv
  /\ ProgressInv /\ WantedInv

-----------------------------------------------------------------------------


\* The servos are numbered from 1 to N; Servo is not opened below.
LEMMA FirstServo == 1 \in Servo
  BY NAssumption DEF Servo

LEMMA ServoRange ==
  /\ N \in Nat
  /\ \A i \in Servo : i \in Nat /\ 1 <= i /\ i <= N
  /\ \A i \in Int : 1 <= i /\ i <= N => i \in Servo
  BY NAssumption DEF Servo

LEMMA ZeroSpeed == 0 \in Speed /\ AllZero \in [Servo -> Speed]
  BY SpeedAssumption DEF AllZero

\* A frame writes registers of the right type, whatever becomes of it.
LEMMA GoalFrameType ==
  ASSUME TypeOK, NEW s \in Servo, NEW v \in Speed, NEW f \in Outcome,
         SendGoal(s, v, f)
  PROVE  /\ goal' \in [Servo -> Speed] /\ goalFate' \in [Servo -> Fate]
         /\ torque' \in [Servo -> BOOLEAN] /\ torqueFate' \in [Servo -> Fate]
  <1>1. FateOf(f) \in Fate
    BY DEF FateOf, Fate
  <1> QED
    BY <1>1 DEF TypeOK, SendGoal

LEMMA TorqueFrameType ==
  ASSUME TypeOK, NEW s \in Servo, NEW v \in BOOLEAN, NEW f \in Outcome,
         SendTorque(s, v, f)
  PROVE  /\ goal' \in [Servo -> Speed] /\ goalFate' \in [Servo -> Fate]
         /\ torque' \in [Servo -> BOOLEAN] /\ torqueFate' \in [Servo -> Fate]
  <1>1. FateOf(f) \in Fate
    BY DEF FateOf, Fate
  <1> QED
    BY <1>1 DEF TypeOK, SendTorque

LEMMA TypeInit == Init => TypeOK /\ LoopInv
  <1> SUFFICES ASSUME Init PROVE TypeOK /\ LoopInv
    OBVIOUS
  <1>1. /\ goalFate \in [Servo -> Fate] /\ torqueFate \in [Servo -> Fate]
        /\ goal \in [Servo -> Speed] /\ torque \in [Servo -> BOOLEAN]
    BY ZeroSpeed DEF Init, Fate
  <1>2. /\ lifecycle \in Lifecycle /\ op \in Callback
        /\ pc \in CtlPc /\ comm \in CommPc
    BY DEF Init, Lifecycle, Callback, CtlPc, CommPc
  <1>3. k \in Servo /\ ci \in 1..(N + 1) /\ cmd \in [Servo -> Speed]
    BY FirstServo, ServoRange, ZeroSpeed DEF Init
  <1>4. stage \in 1..4 /\ serial \in {"free", "ctl", "comm"}
        /\ port \in {"closed", "open"}
    BY DEF Init
  <1>5. running \in BOOLEAN /\ swept \in BOOLEAN
    BY DEF Init
  <1>6. wanted \in SUBSET Servo
    BY DEF Init
  <1>7. TypeOK
    BY <1>1, <1>2, <1>3, <1>4, <1>5, <1>6 DEF TypeOK
  <1> QED
    BY <1>7 DEF Init, LoopInv

\* Every step keeps the type invariant.
LEMMA TypeStep == TypeOK /\ LoopInv /\ [Next]_vars => TypeOK'
  <1> SUFFICES ASSUME TypeOK, LoopInv, [Next]_vars PROVE TypeOK'
    OBVIOUS
  <1> USE DEF TypeOK, LoopInv, ctlVars, commVars, servoVars
  <1>1. CASE Configure
    <2>1. op' \in Callback /\ pc' \in CtlPc
      BY <1>1 DEF Configure, FailInto, Callback, CtlPc
    <2>2. k' \in Servo /\ stage' \in 1..4
      BY <1>1, FirstServo DEF Configure, FailInto
    <2> QED
      BY <1>1, <2>1, <2>2 DEF Configure, FailInto
  <1>2. CASE ConfigureStep
    <2> USE DEF ConfigureStep
    <2>1. PICK f \in Outcome : ConfigFrame(f)
      BY <1>2
    <2>2. /\ goal' \in [Servo -> Speed] /\ goalFate' \in [Servo -> Fate]
          /\ torque' \in [Servo -> BOOLEAN] /\ torqueFate' \in [Servo -> Fate]
      BY <2>1, GoalFrameType, TorqueFrameType, ZeroSpeed DEF ConfigFrame
    <2>3. op' \in Callback /\ pc' \in CtlPc
      BY <1>2 DEF FailInto, Callback, CtlPc
    <2>4. k' \in Servo /\ stage' \in 1..4 /\ lifecycle' = lifecycle
          /\ cmd' = cmd /\ port' \in {"closed", "open"}
      BY <1>2, FirstServo, ServoRange DEF FailInto
    <2> QED
      BY <1>2, <2>2, <2>3, <2>4
  <1>3. CASE ProbeStep
    BY <1>3, FirstServo, ServoRange
    DEF ProbeStep, CtlPc, ProbeAttempts
  <1>4. CASE StartThread
    BY <1>4
    DEF StartThread, Lifecycle, Callback, CtlPc, CommPc
  <1>5. CASE StartThreadFails
    BY <1>5
    DEF StartThreadFails, FailInto, Callback, CtlPc
  <1>6. CASE Activate
    BY <1>6, ZeroSpeed
    DEF Activate, Lifecycle
  <1>7. CASE SetCommand
    BY <1>7
    DEF SetCommand
  <1>8. CASE Write
    BY <1>8
    DEF Write, Callback, CtlPc
  <1>9. CASE Deactivate
    BY <1>9, ZeroSpeed
    DEF Deactivate, Callback, CtlPc
  <1>10. CASE LockWrite
    BY <1>10, FirstServo
    DEF LockWrite, CtlPc
  <1>11. CASE WriteStep
    <2> USE DEF WriteStep
    <2>1. PICK f \in Outcome : SendGoal(k, cmd[k], f)
      BY <1>11
    <2>2. /\ goal' \in [Servo -> Speed] /\ goalFate' \in [Servo -> Fate]
          /\ torque' = torque /\ torqueFate' = torqueFate
      BY <2>1, GoalFrameType DEF SendGoal
    <2>3. op' \in Callback /\ pc' \in CtlPc /\ lifecycle' \in Lifecycle
      BY <1>11 DEF WriteReturns, FailInto, Callback, CtlPc, Lifecycle
    <2>4. k' \in Servo
      BY <1>11, ServoRange DEF WriteReturns, FailInto
    <2>5. /\ stage' = stage /\ cmd' = cmd /\ running' \in BOOLEAN
          /\ serial' \in {"free", "ctl", "comm"}
      BY <1>11 DEF WriteReturns, FailInto
    <2> QED
      BY <1>11, <2>2, <2>3, <2>4, <2>5
  <1>12. CASE Cleanup
    BY <1>12
    DEF Cleanup, Callback, CtlPc
  <1>13. CASE Shutdown
    BY <1>13
    DEF Shutdown, Callback, CtlPc
  <1>14. CASE Destroy
    BY <1>14, ZeroSpeed
    DEF Destroy, Callback, CtlPc
  <1>15. CASE OnError
    BY <1>15, ZeroSpeed
    DEF OnError, CtlPc
  <1>16. CASE Join
    BY <1>16
    DEF Join, CtlPc, CommPc
  <1>17. CASE LockStop
    BY <1>17, FirstServo
    DEF LockStop, CtlPc
  <1>18. CASE StopStep
    <2> USE DEF StopStep
    <2>1. PICK f \in Outcome : StopFrame(f)
      BY <1>18
    <2>2. /\ goal' \in [Servo -> Speed] /\ goalFate' \in [Servo -> Fate]
          /\ torque' \in [Servo -> BOOLEAN] /\ torqueFate' \in [Servo -> Fate]
      BY <2>1, GoalFrameType, TorqueFrameType, ZeroSpeed DEF StopFrame
    <2>3. pc' \in CtlPc
      BY <1>18 DEF CtlPc
    <2>4. k' \in Servo
      BY <1>18, ServoRange
    <2>5. stage' \in 1..4
      BY <1>18
    <2>6. serial' \in {"free", "ctl", "comm"}
      BY <1>18
    <2>7. swept' \in BOOLEAN
      BY <1>18, Zenon
    <2> QED
      BY <1>18, <2>2, <2>3, <2>4, <2>5, <2>6, <2>7
  <1>19. CASE Close
    BY <1>19
    DEF Close, Lifecycle, Callback, CtlPc
  <1>20. CASE CommTop
    BY <1>20, FirstServo, ServoRange
    DEF CommTop, CommPc
  <1>21. CASE CommLoop
    BY <1>21, FirstServo, ServoRange
    DEF CommLoop, CommPc
  <1>22. CASE CommRequest
    BY <1>22, FirstServo, ServoRange
    DEF CommRequest, CommPc
  <1>23. CASE CommFinish
    BY <1>23, FirstServo, ServoRange
    DEF CommFinish, CommPc
  <1>24. CASE CommWake
    BY <1>24
    DEF CommWake, CommPc
  <1>25. CASE Restart
    <2>1. /\ goalFate' \in [Servo -> Fate] /\ torqueFate' \in [Servo -> Fate]
          /\ goal' \in [Servo -> Speed] /\ torque' \in [Servo -> BOOLEAN]
      BY <1>25 DEF Restart, Fate
    <2>2. /\ lifecycle' \in Lifecycle /\ op' \in Callback
          /\ pc' \in CtlPc /\ comm' \in CommPc
      BY <1>25 DEF Restart, Lifecycle, Callback, CtlPc, CommPc
    <2>3. k' \in Servo /\ ci' \in 1..(N + 1) /\ cmd' \in [Servo -> Speed]
      BY <1>25, FirstServo, ServoRange, ZeroSpeed DEF Restart
    <2>4. /\ stage' \in 1..4 /\ serial' \in {"free", "ctl", "comm"}
          /\ port' \in {"closed", "open"}
      BY <1>25 DEF Restart
    <2>5. running' \in BOOLEAN /\ swept' \in BOOLEAN
      BY <1>25 DEF Restart
    <2>6. wanted' \in SUBSET Servo
      BY <1>25 DEF Restart
    <2> QED
      BY <2>1, <2>2, <2>3, <2>4, <2>5, <2>6
  <1>26. CASE UNCHANGED vars
    BY <1>26
    DEF vars
  <1> QED
    BY <1>1, <1>2, <1>3, <1>4, <1>5, <1>6, <1>7, <1>8, <1>9, <1>10, <1>11,
       <1>12, <1>13, <1>14, <1>15, <1>16, <1>17, <1>18, <1>19, <1>20, <1>21,
       <1>22, <1>23, <1>24, <1>25, <1>26
    DEF Next, Environment, CtlStep, CommStep

LEMMA LoopStep == TypeOK /\ LoopInv /\ [Next]_vars => LoopInv'
  <1> SUFFICES ASSUME TypeOK, LoopInv, [Next]_vars PROVE LoopInv'
    OBVIOUS
  <1>0. ci \in 1..(N + 1) /\ stage \in 1..4
    BY DEF TypeOK
  <1> USE DEF LoopInv, ctlVars, commVars, servoVars, ProbeAttempts
  <1>1. CASE Configure
    BY <1>1
    DEF Configure, FailInto
  <1>2. CASE ConfigureStep
    BY <1>2, <1>0, FirstServo, ServoRange
    DEF ConfigureStep, ConfigFrame, FailInto
  <1>3. CASE ProbeStep
    BY <1>3, <1>0, FirstServo, ServoRange
    DEF ProbeStep
  <1>4. CASE StartThread
    BY <1>4
    DEF StartThread
  <1>5. CASE StartThreadFails
    BY <1>5
    DEF StartThreadFails, FailInto
  <1>6. CASE Activate
    BY <1>6
    DEF Activate
  <1>7. CASE SetCommand
    BY <1>7
    DEF SetCommand
  <1>8. CASE Write
    BY <1>8
    DEF Write
  <1>9. CASE Deactivate
    BY <1>9
    DEF Deactivate
  <1>10. CASE LockWrite
    BY <1>10
    DEF LockWrite
  <1>11. CASE WriteStep
    BY <1>11
    DEF WriteStep, WriteReturns, FailInto
  <1>12. CASE Cleanup
    BY <1>12
    DEF Cleanup
  <1>13. CASE Shutdown
    BY <1>13
    DEF Shutdown
  <1>14. CASE Destroy
    BY <1>14
    DEF Destroy
  <1>15. CASE OnError
    BY <1>15
    DEF OnError
  <1>16. CASE Join
    BY <1>16
    DEF Join
  <1>17. CASE LockStop
    BY <1>17
    DEF LockStop
  <1>18. CASE StopStep
    BY <1>18
    DEF StopStep, StopFrame
  <1>19. CASE Close
    BY <1>19
    DEF Close
  <1>20. CASE CommTop
    BY <1>20
    DEF CommTop
  <1>21. CASE CommLoop
    BY <1>21, <1>0, FirstServo, ServoRange
    DEF CommLoop
  <1>22. CASE CommRequest
    BY <1>22, <1>0, FirstServo, ServoRange
    DEF CommRequest
  <1>23. CASE CommFinish
    BY <1>23, <1>0, FirstServo, ServoRange
    DEF CommFinish
  <1>24. CASE CommWake
    BY <1>24
    DEF CommWake
  <1>25. CASE Restart
    BY <1>25
    DEF Restart
  <1>26. CASE UNCHANGED vars
    BY <1>26
    DEF vars
  <1> QED
    BY <1>1, <1>2, <1>3, <1>4, <1>5, <1>6, <1>7, <1>8, <1>9, <1>10, <1>11,
       <1>12, <1>13, <1>14, <1>15, <1>16, <1>17, <1>18, <1>19, <1>20, <1>21,
       <1>22, <1>23, <1>24, <1>25, <1>26
    DEF Next, Environment, CtlStep, CommStep

\* Every variable stays in its type, whatever the servos, the bus and the
\* two threads do.
THEOREM TypeCorrect == Safety => []TypeOK
  <1>1. TypeOK /\ LoopInv /\ [Next]_vars => (TypeOK /\ LoopInv)'
    BY TypeStep, LoopStep
  <1> QED
    BY TypeInit, <1>1, PTL DEF Safety

\* Every step keeps each program counter within its callback.
LEMMA CallbackStep == CallbackInv /\ [Next]_vars => CallbackInv'
  <1> SUFFICES ASSUME CallbackInv, [Next]_vars PROVE CallbackInv'
    OBVIOUS
  <1> USE DEF CallbackInv, Bringup, Writing, Stopping, ctlVars, commVars,
              servoVars
  <1>1. CASE Configure
    BY <1>1
    DEF Configure, FailInto
  <1>2. CASE ConfigureStep
    BY <1>2
    DEF ConfigureStep, ConfigFrame, FailInto
  <1>3. CASE ProbeStep
    BY <1>3
    DEF ProbeStep
  <1>4. CASE StartThread
    BY <1>4
    DEF StartThread
  <1>5. CASE StartThreadFails
    BY <1>5
    DEF StartThreadFails, FailInto
  <1>6. CASE Activate
    BY <1>6
    DEF Activate
  <1>7. CASE SetCommand
    BY <1>7
    DEF SetCommand
  <1>8. CASE Write
    BY <1>8
    DEF Write
  <1>9. CASE Deactivate
    BY <1>9
    DEF Deactivate
  <1>10. CASE LockWrite
    BY <1>10
    DEF LockWrite
  <1>11. CASE WriteStep
    BY <1>11
    DEF WriteStep, WriteReturns, FailInto
  <1>12. CASE Cleanup
    BY <1>12
    DEF Cleanup
  <1>13. CASE Shutdown
    BY <1>13
    DEF Shutdown
  <1>14. CASE Destroy
    BY <1>14
    DEF Destroy
  <1>15. CASE OnError
    BY <1>15
    DEF OnError
  <1>16. CASE Join
    BY <1>16
    DEF Join
  <1>17. CASE LockStop
    BY <1>17
    DEF LockStop
  <1>18. CASE StopStep
    BY <1>18
    DEF StopStep, StopFrame
  <1>19. CASE Close
    BY <1>19
    DEF Close
  <1>20. CASE CommTop
    BY <1>20
    DEF CommTop
  <1>21. CASE CommLoop
    BY <1>21
    DEF CommLoop
  <1>22. CASE CommRequest
    BY <1>22
    DEF CommRequest
  <1>23. CASE CommFinish
    BY <1>23
    DEF CommFinish
  <1>24. CASE CommWake
    BY <1>24
    DEF CommWake
  <1>25. CASE Restart
    BY <1>25
    DEF Restart
  <1>26. CASE UNCHANGED vars
    BY <1>26
    DEF vars
  <1> QED
    BY <1>1, <1>2, <1>3, <1>4, <1>5, <1>6, <1>7, <1>8, <1>9, <1>10, <1>11,
       <1>12, <1>13, <1>14, <1>15, <1>16, <1>17, <1>18, <1>19, <1>20, <1>21,
       <1>22, <1>23, <1>24, <1>25, <1>26
    DEF Next, Environment, CtlStep, CommStep

\* Every step keeps the mutex, the port and the thread consistent.
LEMMA BusStep ==
  CallbackInv /\ BusInv /\ [Next]_vars => BusInv'
  <1> SUFFICES ASSUME CallbackInv, BusInv, [Next]_vars PROVE BusInv'
    OBVIOUS
  <1> USE DEF CallbackInv, BusInv, Bringup, Writing, Stopping, Released,
              ctlVars, commVars, servoVars
  <1>1. CASE Configure
    BY <1>1
    DEF Configure, FailInto
  <1>2. CASE ConfigureStep
    BY <1>2
    DEF ConfigureStep, ConfigFrame, FailInto
  <1>3. CASE ProbeStep
    BY <1>3
    DEF ProbeStep
  <1>4. CASE StartThread
    BY <1>4
    DEF StartThread
  <1>5. CASE StartThreadFails
    BY <1>5
    DEF StartThreadFails, FailInto
  <1>6. CASE Activate
    BY <1>6
    DEF Activate
  <1>7. CASE SetCommand
    BY <1>7
    DEF SetCommand
  <1>8. CASE Write
    BY <1>8
    DEF Write
  <1>9. CASE Deactivate
    BY <1>9
    DEF Deactivate
  <1>10. CASE LockWrite
    BY <1>10
    DEF LockWrite
  <1>11. CASE WriteStep
    BY <1>11
    DEF WriteStep, WriteReturns, FailInto
  <1>12. CASE Cleanup
    BY <1>12
    DEF Cleanup
  <1>13. CASE Shutdown
    BY <1>13
    DEF Shutdown
  <1>14. CASE Destroy
    BY <1>14
    DEF Destroy
  <1>15. CASE OnError
    BY <1>15
    DEF OnError
  <1>16. CASE Join
    BY <1>16
    DEF Join
  <1>17. CASE LockStop
    BY <1>17
    DEF LockStop
  <1>18. CASE StopStep
    BY <1>18
    DEF StopStep, StopFrame
  <1>19. CASE Close
    BY <1>19
    DEF Close
  <1>20. CASE CommTop
    BY <1>20
    DEF CommTop
  <1>21. CASE CommLoop
    BY <1>21
    DEF CommLoop
  <1>22. CASE CommRequest
    BY <1>22
    DEF CommRequest
  <1>23. CASE CommFinish
    BY <1>23
    DEF CommFinish
  <1>24. CASE CommWake
    BY <1>24
    DEF CommWake
  <1>25. CASE Restart
    BY <1>25
    DEF Restart
  <1>26. CASE UNCHANGED vars
    BY <1>26
    DEF vars
  <1> QED
    BY <1>1, <1>2, <1>3, <1>4, <1>5, <1>6, <1>7, <1>8, <1>9, <1>10, <1>11,
       <1>12, <1>13, <1>14, <1>15, <1>16, <1>17, <1>18, <1>19, <1>20, <1>21,
       <1>22, <1>23, <1>24, <1>25, <1>26
    DEF Next, Environment, CtlStep, CommStep

\* Every step keeps what is known of the commands.
LEMMA CommandStep ==
  CallbackInv /\ BusInv /\ CommandInv /\ [Next]_vars => CommandInv'
  <1> SUFFICES ASSUME CallbackInv, BusInv, CommandInv, [Next]_vars
               PROVE  CommandInv'
    OBVIOUS
  <1> AllZero' = AllZero
    BY DEF AllZero
  <1> USE DEF CallbackInv, BusInv, CommandInv, Bringup, Writing, Stopping,
              Released, ctlVars, commVars, servoVars
  <1>1. CASE Configure
    BY <1>1
    DEF Configure, FailInto
  <1>2. CASE ConfigureStep
    BY <1>2
    DEF ConfigureStep, ConfigFrame, FailInto
  <1>3. CASE ProbeStep
    BY <1>3
    DEF ProbeStep
  <1>4. CASE StartThread
    BY <1>4
    DEF StartThread
  <1>5. CASE StartThreadFails
    BY <1>5
    DEF StartThreadFails, FailInto
  <1>6. CASE Activate
    BY <1>6
    DEF Activate
  <1>7. CASE SetCommand
    BY <1>7
    DEF SetCommand
  <1>8. CASE Write
    BY <1>8
    DEF Write
  <1>9. CASE Deactivate
    BY <1>9
    DEF Deactivate
  <1>10. CASE LockWrite
    BY <1>10
    DEF LockWrite
  <1>11. CASE WriteStep
    BY <1>11
    DEF WriteStep, WriteReturns, FailInto
  <1>12. CASE Cleanup
    BY <1>12
    DEF Cleanup
  <1>13. CASE Shutdown
    BY <1>13
    DEF Shutdown
  <1>14. CASE Destroy
    BY <1>14
    DEF Destroy
  <1>15. CASE OnError
    BY <1>15
    DEF OnError
  <1>16. CASE Join
    BY <1>16
    DEF Join
  <1>17. CASE LockStop
    BY <1>17
    DEF LockStop
  <1>18. CASE StopStep
    BY <1>18
    DEF StopStep, StopFrame
  <1>19. CASE Close
    BY <1>19
    DEF Close
  <1>20. CASE CommTop
    BY <1>20
    DEF CommTop
  <1>21. CASE CommLoop
    BY <1>21
    DEF CommLoop
  <1>22. CASE CommRequest
    BY <1>22
    DEF CommRequest
  <1>23. CASE CommFinish
    BY <1>23
    DEF CommFinish
  <1>24. CASE CommWake
    BY <1>24
    DEF CommWake
  <1>25. CASE Restart
    BY <1>25
    DEF Restart
  <1>26. CASE UNCHANGED vars
    BY <1>26
    DEF vars
  <1> QED
    BY <1>1, <1>2, <1>3, <1>4, <1>5, <1>6, <1>7, <1>8, <1>9, <1>10, <1>11,
       <1>12, <1>13, <1>14, <1>15, <1>16, <1>17, <1>18, <1>19, <1>20, <1>21,
       <1>22, <1>23, <1>24, <1>25, <1>26
    DEF Next, Environment, CtlStep, CommStep

\* What a zero-speed frame does to the servo it is sent to and the others.
LEMMA ZeroFrame ==
  ASSUME TypeOK, NEW s \in Servo, NEW f \in Outcome, SendGoal(s, 0, f)
  PROVE  /\ goalFate'[s] # "none"
         /\ goalFate'[s] = "delivered" => goal'[s] = 0
         /\ \A t \in Servo \ {s} : goal'[t] = goal[t] /\ goalFate'[t] = goalFate[t]
         /\ torque' = torque /\ torqueFate' = torqueFate
  BY DEF TypeOK, SendGoal, FateOf, Outcome

\* The same for a torque-off frame.
LEMMA OffFrame ==
  ASSUME TypeOK, NEW s \in Servo, NEW f \in Outcome, SendTorque(s, FALSE, f)
  PROVE  /\ torqueFate'[s] # "none"
         /\ torqueFate'[s] = "delivered" => ~torque'[s]
         /\ \A t \in Servo \ {s} :
              torque'[t] = torque[t] /\ torqueFate'[t] = torqueFate[t]
         /\ goal' = goal /\ goalFate' = goalFate
  BY DEF TypeOK, SendTorque, FateOf, Outcome


\* Every step keeps what is known of the servos behind the loop index.
LEMMA ProgressStep ==
  ASSUME TypeOK, CallbackInv, BusInv, CommandInv, ProgressInv, [Next]_vars
  PROVE  ProgressInv'
  <1>0. k \in Servo /\ stage \in 1..4
    BY DEF TypeOK
  <1> USE DEF CallbackInv, BusInv, ProgressInv, AtRest, Safed,
              Bringup, Writing, Stopping, Released, ctlVars, commVars, servoVars
  <1>1. CASE Configure
    BY <1>1
    DEF Configure, FailInto
  <1>2. CASE ConfigureStep
    <2>1. PICK f \in Outcome : ConfigFrame(f)
      BY <1>2 DEF ConfigureStep
    <2>2. /\ \A s \in Servo : AtRest(s)'
          /\ pc' = "config" /\ stage' > 1 => goalFate'[k'] # "none"
      <3>1. CASE stage = 1
        <4>1. SendGoal(k, 0, f)
          BY <2>1, <3>1 DEF ConfigFrame
        <4> QED
          BY <1>2, <3>1, <4>1, <1>0, ZeroFrame DEF ConfigureStep, FailInto
      <3>2. CASE stage # 1
        <4>1. goal' = goal /\ goalFate' = goalFate
          BY <2>1, <3>2 DEF ConfigFrame, SendTorque
        <4> QED
          BY <1>2, <3>2, <4>1, <1>0 DEF ConfigureStep, FailInto
      <3> QED
        BY <3>1, <3>2
    <2> QED
      BY <1>2, <2>2 DEF ConfigureStep, FailInto
  <1>3. CASE ProbeStep
    BY <1>3
    DEF ProbeStep
  <1>4. CASE StartThread
    BY <1>4
    DEF StartThread
  <1>5. CASE StartThreadFails
    BY <1>5
    DEF StartThreadFails, FailInto
  <1>6. CASE Activate
    BY <1>6
    DEF Activate
  <1>7. CASE SetCommand
    BY <1>7
    DEF SetCommand
  <1>8. CASE Write
    BY <1>8
    DEF Write
  <1>9. CASE Deactivate
    BY <1>9
    DEF Deactivate
  <1>10. CASE LockWrite
    BY <1>10
    DEF LockWrite
  <1>11. CASE WriteStep
    <2>1. PICK f \in Outcome :
            /\ SendGoal(k, cmd[k], f)
            /\ IF f # "failed" /\ k < N
               THEN /\ k' = k + 1
                    /\ UNCHANGED <<lifecycle, op, pc, stage, cmd, running, serial>>
               ELSE WriteReturns(f # "failed")
      BY <1>11 DEF WriteStep
    <2>2. ~swept /\ swept' = swept
      BY <1>11 DEF WriteStep
    <2>3. CASE lifecycle = "active" /\ op = "write"
      BY <1>11, <2>1, <2>2, <2>3 DEF WriteStep, WriteReturns, FailInto
    <2>4. CASE lifecycle # "active" \/ op # "write"
      <3>1. cmd[k] = 0
        BY <1>11, <2>4, <1>0 DEF WriteStep, CommandInv, AllZero
      <3>2. SendGoal(k, 0, f)
        BY <2>1, <3>1
      <3>3. /\ goalFate'[k] = "delivered" => goal'[k] = 0
            /\ \A t \in Servo \ {k} :
                 goal'[t] = goal[t] /\ goalFate'[t] = goalFate[t]
        BY <3>2, <1>0, ZeroFrame
      <3>4. \A s \in Servo : AtRest(s) \/ s = k => AtRest(s)'
        BY <3>3
      <3> HIDE DEF AtRest
      <3>5. CASE op = "deactivate"
        <4>1. CASE f # "failed" /\ k < N
          BY <1>11, <2>1, <2>2, <3>4, <3>5, <4>1, <1>0, ServoRange DEF WriteStep
        <4>2. CASE ~(f # "failed" /\ k < N)
          BY <1>11, <2>1, <2>2, <3>4, <3>5, <4>2, <1>0, ServoRange
          DEF WriteStep, WriteReturns, FailInto
        <4> QED
          BY <4>1, <4>2
      <3>6. CASE op # "deactivate"
        BY <1>11, <2>1, <2>2, <2>4, <3>4, <3>6, <1>0
        DEF WriteStep, WriteReturns, FailInto
      <3> QED
        BY <3>5, <3>6
    <2> QED
      BY <2>3, <2>4
  <1>12. CASE Cleanup
    BY <1>12
    DEF Cleanup
  <1>13. CASE Shutdown
    BY <1>13
    DEF Shutdown
  <1>14. CASE Destroy
    BY <1>14
    DEF Destroy
  <1>15. CASE OnError
    BY <1>15
    DEF OnError
  <1>16. CASE Join
    BY <1>16
    DEF Join
  <1>17. CASE LockStop
    BY <1>17
    DEF LockStop
  <1>18. CASE StopStep
    <2>1. PICK f \in Outcome : StopFrame(f)
      BY <1>18 DEF StopStep
    <2>2. stage \in {1, 2} /\ \A s \in 1..(k - 1) : Safed(s)
      BY <1>18 DEF StopStep
    <2>3. CASE stage = 1
      <3>1. SendGoal(k, 0, f)
        BY <2>1, <2>3 DEF StopFrame
      <3> QED
        BY <1>18, <2>2, <2>3, <3>1, <1>0, ServoRange, ZeroFrame DEF StopStep
    <2>4. CASE stage = 2
      <3>0. stage # 1
        BY <2>4
      <3>1. SendTorque(k, FALSE, f)
        BY <2>1, <3>0 DEF StopFrame
      <3>2. /\ torqueFate'[k] # "none"
            /\ torqueFate'[k] = "delivered" => ~torque'[k]
            /\ \A t \in Servo \ {k} :
                 torque'[t] = torque[t] /\ torqueFate'[t] = torqueFate[t]
            /\ goal' = goal /\ goalFate' = goalFate
        BY <3>1, <1>0, OffFrame
      <3>3. goalFate[k] # "none" /\ AtRest(k)
        BY <1>18, <2>4 DEF StopStep
      <3>4. \A s \in Servo : Safed(s) \/ s = k => Safed(s)'
        BY <3>2, <3>3
      <3>5. \A s \in Servo : AtRest(s) => AtRest(s)'
        BY <3>2
      <3> HIDE DEF Safed, AtRest
      <3>6. \A s \in Servo : s <= k => Safed(s)'
        BY <2>2, <3>4, <1>0, ServoRange
      <3>7. CASE k < N
        BY <1>18, <2>4, <3>5, <3>6, <3>7, <1>0, ServoRange DEF StopStep
      <3>8. CASE ~(k < N)
        <4>1. \A s \in Servo : Safed(s)'
          BY <3>6, <3>8, <1>0, ServoRange
        <4>2. \A s \in Servo : AtRest(s)'
          BY <4>1 DEF Safed
        <4> QED
          BY <1>18, <2>4, <3>8, <4>1, <4>2 DEF StopStep
      <3> QED
        BY <3>7, <3>8
    <2> QED
      BY <2>2, <2>3, <2>4
  <1>19. CASE Close
    BY <1>19
    DEF Close
  <1>20. CASE CommTop
    BY <1>20
    DEF CommTop
  <1>21. CASE CommLoop
    BY <1>21
    DEF CommLoop
  <1>22. CASE CommRequest
    BY <1>22
    DEF CommRequest
  <1>23. CASE CommFinish
    BY <1>23
    DEF CommFinish
  <1>24. CASE CommWake
    BY <1>24
    DEF CommWake
  <1>25. CASE Restart
    BY <1>25
    DEF Restart
  <1>26. CASE UNCHANGED vars
    BY <1>26
    DEF vars
  <1> QED
    BY <1>1, <1>2, <1>3, <1>4, <1>5, <1>6, <1>7, <1>8, <1>9, <1>10, <1>11,
       <1>12, <1>13, <1>14, <1>15, <1>16, <1>17, <1>18, <1>19, <1>20, <1>21,
       <1>22, <1>23, <1>24, <1>25, <1>26
    DEF Next, Environment, CtlStep, CommStep

\* Every step keeps the driver from turning what nobody asked for.
LEMMA WantedStep ==
  ASSUME TypeOK, CallbackInv, BusInv, ProgressInv, WantedInv, [Next]_vars
  PROVE  WantedInv'
  <1>0. k \in Servo
    BY DEF TypeOK
  <1> USE DEF CallbackInv, BusInv, WantedInv, Bringup, Writing, Stopping,
              Released, ctlVars, commVars, servoVars
  <1>1. CASE Configure
    BY <1>1
    DEF Configure, FailInto
  <1>2. CASE ConfigureStep
    BY <1>2 DEF ConfigureStep, FailInto
  <1>3. CASE ProbeStep
    BY <1>3
    DEF ProbeStep
  <1>4. CASE StartThread
    BY <1>4
    DEF StartThread
  <1>5. CASE StartThreadFails
    BY <1>5
    DEF StartThreadFails, FailInto
  <1>6. CASE Activate
    BY <1>6, <1>0 DEF Activate, ProgressInv, AtRest, AllZero
  <1>7. CASE SetCommand
    BY <1>7
    DEF SetCommand
  <1>8. CASE Write
    BY <1>8
    DEF Write
  <1>9. CASE Deactivate
    BY <1>9 DEF Deactivate, AllZero
  <1>10. CASE LockWrite
    BY <1>10
    DEF LockWrite
  <1>11. CASE WriteStep
    <2>1. PICK f \in Outcome : SendGoal(k, cmd[k], f)
      BY <1>11 DEF WriteStep
    <2>2. /\ goalFate'[k] = "delivered" => goal'[k] = cmd[k]
          /\ \A t \in Servo \ {k} :
               goal'[t] = goal[t] /\ goalFate'[t] = goalFate[t]
      BY <2>1, <1>0 DEF TypeOK, SendGoal, FateOf, Outcome
    <2>3. lifecycle' = "active" => lifecycle = "active"
      BY <1>11 DEF WriteStep, WriteReturns, FailInto
    <2>4. cmd' = cmd /\ wanted' = wanted
      BY <1>11 DEF WriteStep, WriteReturns, FailInto
    <2> QED
      BY <2>2, <2>3, <2>4, <1>0
  <1>12. CASE Cleanup
    BY <1>12
    DEF Cleanup
  <1>13. CASE Shutdown
    BY <1>13
    DEF Shutdown
  <1>14. CASE Destroy
    BY <1>14 DEF Destroy, AllZero
  <1>15. CASE OnError
    BY <1>15 DEF OnError, AllZero
  <1>16. CASE Join
    BY <1>16
    DEF Join
  <1>17. CASE LockStop
    BY <1>17
    DEF LockStop
  <1>18. CASE StopStep
    <2>1. PICK f \in Outcome : StopFrame(f)
      BY <1>18 DEF StopStep
    <2>2. CASE stage = 1
      <3>1. SendGoal(k, 0, f)
        BY <2>1, <2>2 DEF StopFrame
      <3> QED
        BY <1>18, <3>1, <1>0, ZeroFrame DEF StopStep
    <2>3. CASE stage # 1
      <3>1. SendTorque(k, FALSE, f)
        BY <2>1, <2>3 DEF StopFrame
      <3> QED
        BY <1>18, <3>1, <1>0, OffFrame DEF StopStep
    <2> QED
      BY <2>2, <2>3
  <1>19. CASE Close
    BY <1>19
    DEF Close
  <1>20. CASE CommTop
    BY <1>20
    DEF CommTop
  <1>21. CASE CommLoop
    BY <1>21
    DEF CommLoop
  <1>22. CASE CommRequest
    BY <1>22
    DEF CommRequest
  <1>23. CASE CommFinish
    BY <1>23
    DEF CommFinish
  <1>24. CASE CommWake
    BY <1>24
    DEF CommWake
  <1>25. CASE Restart
    BY <1>25
    DEF Restart
  <1>26. CASE UNCHANGED vars
    BY <1>26
    DEF vars
  <1> QED
    BY <1>1, <1>2, <1>3, <1>4, <1>5, <1>6, <1>7, <1>8, <1>9, <1>10, <1>11,
       <1>12, <1>13, <1>14, <1>15, <1>16, <1>17, <1>18, <1>19, <1>20, <1>21,
       <1>22, <1>23, <1>24, <1>25, <1>26
    DEF Next, Environment, CtlStep, CommStep

LEMMA InvInit == Init => IInv
  <1> SUFFICES ASSUME Init PROVE IInv
    OBVIOUS
  <1>1. CallbackInv /\ BusInv /\ CommandInv
    BY DEF Init, CallbackInv, BusInv, CommandInv, Bringup, Writing, Stopping,
           Released
  <1>2. ProgressInv /\ WantedInv
    BY DEF Init, ProgressInv, WantedInv, AtRest
  <1> QED
    BY TypeInit, <1>1, <1>2 DEF IInv

LEMMA InvStep == IInv /\ [Next]_vars => IInv'
  BY TypeStep, LoopStep, CallbackStep, BusStep, CommandStep, ProgressStep,
     WantedStep
  DEF IInv

LEMMA InvHolds == Safety => []IInv
  BY InvInit, InvStep, PTL DEF Safety

-----------------------------------------------------------------------------

\* Whatever ended the active state (deactivation, shutdown, an error, the
\* destructor or a crash), a servo that got the last goal-speed frame sent
\* to it is at zero speed, and no later write() changes that.
THEOREM HaltedUnlessActiveHolds == Safety => []HaltedUnlessActive
  <1>1. IInv => HaltedUnlessActive
    BY DEF IInv, ProgressInv, AtRest, HaltedUnlessActive
  <1> QED
    BY InvHolds, <1>1, PTL

\* After stop_all_servos a wheel turns only if both of the frames that
\* would have stopped it were lost.
THEOREM SweptWheelsAreSafeHolds == Safety => []SweptWheelsAreSafe
  <1>1. IInv => SweptWheelsAreSafe
    BY DEF IInv, TypeOK, ProgressInv, Safed, AtRest, Turning, Fate,
           SweptWheelsAreSafe
  <1> QED
    BY InvHolds, <1>1, PTL

\* Nothing else uses the port between a status request and its reply.
THEOREM TransactionOwnsBusHolds == Safety => []TransactionOwnsBus
  <1>1. IInv => TransactionOwnsBus
    <2> SUFFICES ASSUME IInv, comm = "await" PROVE TransactionOwnsBus
      BY DEF TransactionOwnsBus
    <2>1. port = "open"
      BY DEF IInv, TypeOK, BusInv
    <2>2. pc \notin Bringup
      BY DEF IInv, CallbackInv, BusInv, Bringup, Released
    <2> QED
      BY <2>1, <2>2 DEF IInv, BusInv, Bringup, TransactionOwnsBus
  <1> QED
    BY InvHolds, <1>1, PTL

\* on_configure never assigns over a joinable thread, and the port is never
\* released under a thread.
THEOREM ThreadJoinedBeforeReuseHolds == Safety => []ThreadJoinedBeforeReuse
  <1>1. IInv => ThreadJoinedBeforeReuse
    BY DEF IInv, BusInv, CallbackInv, Bringup, Released,
           ThreadJoinedBeforeReuse
  <1> QED
    BY InvHolds, <1>1, PTL

\* Torque is enabled only by the last frame of the configuration loop, and
\* then the goal speed of that servo was zeroed three frames before.
LEMMA TorqueStep ==
  ASSUME IInv, [Next]_vars, NEW s \in Servo, ~torque[s], torque'[s]
  PROVE  goal[s] = 0 \/ goalFate[s] = "missed"
  <1>0. TypeOK /\ ProgressInv /\ CallbackInv
    BY DEF IInv
  <1>1. CASE ConfigureStep
    <2>1. PICK f \in Outcome : ConfigFrame(f)
      BY <1>1 DEF ConfigureStep
    <2>2. stage = 4 /\ SendTorque(k, TRUE, f)
      BY <2>1 DEF ConfigFrame, SendGoal, servoVars
    <2>3. s = k
      BY <2>2, <1>0 DEF SendTorque, TypeOK
    <2>4. goalFate[s] # "none" /\ AtRest(s)
      BY <1>0, <1>1, <2>2, <2>3
      DEF ConfigureStep, ProgressInv, CallbackInv, Bringup
    <2>5. goalFate[s] \in Fate
      BY <1>0 DEF TypeOK
    <2> QED
      BY <2>4, <2>5 DEF AtRest, Fate
  <1>2. CASE StopStep
    <2>1. PICK f \in Outcome : StopFrame(f)
      BY <1>2 DEF StopStep
    <2>2. CASE SendGoal(k, 0, f)
      BY <2>2 DEF SendGoal
    <2>3. CASE SendTorque(k, FALSE, f)
      BY <2>3, <1>0 DEF SendTorque, TypeOK
    <2> QED
      BY <2>1, <2>2, <2>3 DEF StopFrame
  <1>3. CASE torque' = torque
    BY <1>3
  <1>4. ConfigureStep \/ StopStep \/ torque' = torque
    <2>1. CASE Configure \/ StartThread \/ StartThreadFails \/ ProbeStep \/
         Activate \/ SetCommand \/ Write \/ Deactivate
      BY <2>1
      DEF Configure, StartThread, StartThreadFails, ProbeStep, Activate,
          SetCommand, Write, Deactivate, servoVars
    <2>2. CASE LockWrite \/ WriteStep \/ Cleanup \/ Shutdown \/ Destroy \/
         OnError
      BY <2>2
      DEF LockWrite, WriteStep, Cleanup, Shutdown, Destroy, OnError,
          SendGoal, servoVars
    <2>3. CASE Join \/ LockStop \/ Close \/ CommTop \/ CommLoop \/
         CommRequest \/ CommFinish \/ CommWake \/ Restart
      BY <2>3
      DEF Join, LockStop, Close, CommTop, CommLoop, CommRequest, CommFinish,
          CommWake, Restart, servoVars
    <2>4. CASE UNCHANGED vars
      BY <2>4 DEF vars
    <2> QED
      BY <2>1, <2>2, <2>3, <2>4 DEF Next, Environment, CtlStep, CommStep
  <1> QED
    BY <1>1, <1>2, <1>3, <1>4

\* A wheel left turning by a crashed run does not start again when torque
\* is enabled, unless the frame that zeroes its goal speed was lost.
THEOREM TorqueOnAtRestHolds == Safety => TorqueOnAtRest
  <1> DEFINE A == \A s \in Servo : ~torque[s] /\ torque'[s] =>
                    goal[s] = 0 \/ goalFate[s] = "missed"
  <1>1. IInv /\ [Next]_vars => [A]_vars
    BY TorqueStep
  <1>2. []IInv /\ [][Next]_vars => [][A]_vars
    BY <1>1, PTL
  <1> QED
    BY InvHolds, <1>2, PTL DEF Safety, TorqueOnAtRest

-----------------------------------------------------------------------------
\* The servos whose last delivered order is "turn", as in DriveInterlock.
Ordered == {s \in Servo : goalFate[s] = "delivered" /\ goal[s] # 0}

\* The active state is entered by on_activate alone.
LEMMA ActiveEntered ==
  ASSUME CallbackInv, [Next]_vars, lifecycle # "active", lifecycle' = "active"
  PROVE  wanted' = {} /\ goal' = goal /\ goalFate' = goalFate
  <1> USE DEF CallbackInv, Bringup, Writing, Stopping
  <1>1. CASE Activate \/ SetCommand
    BY <1>1 DEF Activate, SetCommand, servoVars
  <1>2. CASE Configure \/ ConfigureStep \/ StartThread \/ StartThreadFails
       \/ ProbeStep \/ Write \/ Deactivate
    BY <1>2
    DEF Configure, ConfigureStep, StartThread, StartThreadFails, ProbeStep,
        Write, Deactivate, FailInto
  <1>3. CASE LockWrite \/ WriteStep \/ Cleanup \/ Shutdown \/ Destroy \/
       OnError \/ StopStep
    BY <1>3
    DEF LockWrite, WriteStep, Cleanup, Shutdown, Destroy, OnError, StopStep,
        WriteReturns, FailInto
  <1>4. CASE Join \/ LockStop \/ Close \/ CommTop \/ CommLoop \/ CommRequest
       \/ CommFinish \/ CommWake \/ Restart
    BY <1>4
    DEF Join, LockStop, Close, CommTop, CommLoop, CommRequest, CommFinish,
        CommWake, Restart, ctlVars
  <1>5. CASE UNCHANGED vars
    BY <1>5 DEF vars
  <1> QED
    BY <1>1, <1>2, <1>3, <1>4, <1>5
    DEF Next, Environment, CtlStep, CommStep

\* Inside the active state only the controllers widen what may turn, and
\* they do it between two callbacks.
LEMMA ActiveKept ==
  ASSUME [Next]_vars, lifecycle = "active", lifecycle' = "active"
  PROVE  \/ wanted' = wanted
         \/ /\ \E more \in SUBSET Servo : wanted' = wanted \union more
            /\ goal' = goal /\ goalFate' = goalFate
  <1>1. CASE SetCommand
    BY <1>1 DEF SetCommand, servoVars
  <1>2. CASE Configure \/ ConfigureStep \/ StartThread \/ StartThreadFails
       \/ ProbeStep \/ Write \/ Deactivate
    BY <1>2
    DEF Configure, ConfigureStep, StartThread, StartThreadFails, ProbeStep,
        Write, Deactivate, FailInto
  <1>3. CASE LockWrite \/ WriteStep \/ Cleanup \/ Shutdown \/ Destroy \/
       OnError \/ StopStep
    BY <1>3
    DEF LockWrite, WriteStep, Cleanup, Shutdown, Destroy, OnError, StopStep,
        WriteReturns, FailInto
  <1>4. CASE Join \/ LockStop \/ Close \/ CommTop \/ CommLoop \/ CommRequest
       \/ CommFinish \/ CommWake \/ Restart
    BY <1>4
    DEF Join, LockStop, Close, CommTop, CommLoop, CommRequest, CommFinish,
        CommWake, Restart, ctlVars
  <1>5. CASE UNCHANGED vars
    BY <1>5 DEF vars
  <1>6. CASE Activate
    BY <1>6 DEF Activate
  <1> QED
    BY <1>1, <1>2, <1>3, <1>4, <1>5, <1>6
    DEF Next, Environment, CtlStep, CommStep

LEMMA InterlockInit == Init => Interlock!Init
  BY DEF Init, Interlock!Init

LEMMA InterlockStep ==
  IInv /\ IInv' /\ [Next]_vars => [Interlock!Next]_(Interlock!vars)
  <1> SUFFICES ASSUME IInv, IInv', [Next]_vars
               PROVE  [Interlock!Next]_(Interlock!vars)
    OBVIOUS
  <1> DEFINE armed == lifecycle = "active"
             asked == IF lifecycle = "active" THEN wanted ELSE {}
  <1>1. Ordered \subseteq asked
    BY DEF IInv, ProgressInv, WantedInv, AtRest, Ordered
  <1>2. Ordered' \subseteq asked'
    BY DEF IInv, ProgressInv, WantedInv, AtRest, Ordered
  <1>3. CASE ~armed /\ ~armed'
    <2>1. Ordered = {} /\ Ordered' = {} /\ asked = {} /\ asked' = {}
      BY <1>1, <1>2, <1>3
    <2> QED
      BY <1>3, <2>1 DEF Interlock!vars, Ordered
  <1>4. CASE ~armed /\ armed'
    <2>1. wanted' = {} /\ goal' = goal /\ goalFate' = goalFate
      BY <1>4, ActiveEntered DEF IInv
    <2>2. Ordered = {} /\ Ordered' = {} /\ asked = {} /\ asked' = {}
      BY <1>1, <1>2, <1>4, <2>1
    <2> QED
      BY <1>4, <2>2 DEF Interlock!Next, Interlock!Arm, Ordered
  <1>5. CASE armed /\ armed'
    <2>1. CASE wanted' = wanted
      <3>1. Ordered' \in SUBSET asked
        BY <1>2, <1>5, <2>1
      <3> QED
        BY <1>5, <2>1, <3>1 DEF Interlock!Next, Interlock!Drive, Ordered
    <2>2. CASE /\ \E more \in SUBSET Servo : wanted' = wanted \union more
               /\ goal' = goal /\ goalFate' = goalFate
      <3>1. Ordered' = Ordered
        BY <2>2 DEF Ordered
      <3> QED
        BY <1>5, <2>2, <3>1 DEF Interlock!Next, Interlock!Ask, Ordered
    <2> QED
      BY <1>5, <2>1, <2>2, ActiveKept
  <1>6. CASE armed /\ ~armed'
    <2>1. Ordered' = {} /\ asked' = {}
      BY <1>2, <1>6
    <2> QED
      BY <1>6, <2>1 DEF Interlock!Next, Interlock!Disarm, Ordered
  <1> QED
    BY <1>3, <1>4, <1>5, <1>6

\* The driver, with its threads, its lossy bus and its crashes, implements
\* the drive interlock.
THEOREM DriverImplementsInterlock == Safety => ImplementsInterlock
  <1>1. []IInv /\ [][Next]_vars => [][Interlock!Next]_(Interlock!vars)
    BY InterlockStep, PTL
  <1> QED
    BY InterlockInit, InvHolds, <1>1, PTL
    DEF Safety, ImplementsInterlock, Interlock!Spec

-----------------------------------------------------------------------------
(* Termination, apart from fairness: nobody waits in a circle, and the     *)
(* steps of a callback are numbered.                                       *)

\* How many steps of its own the callback under way has left, at most: those
\* of its loops, and of on_error after them if one of them fails.
CallbackLeft ==
  CASE pc = "config"    -> 5 * N + 4 * (N - k) + 10 - stage
    [] pc = "probe"     -> 2 * N + 3 * (N - k) + 9 - stage
    [] pc = "start"     -> 2 * N + 5
    [] pc = "lockWrite" -> 3 * N + 5
    [] pc = "write"     -> 2 * N + 5 + (N - k)
    [] pc = "error"     -> 2 * N + 4
    [] pc = "join"      -> 2 * N + 3
    [] pc = "lockStop"  -> 2 * N + 2
    [] pc = "stop"      -> 2 * (N - k) + 4 - stage
    [] pc = "close"     -> 1
    [] OTHER            -> 0

\* How far the thread is from its end, once its flag is cleared.
CommLeft ==
  CASE comm = "lock"  -> 5
    [] comm = "await" -> 4
    [] comm = "loop"  -> 3
    [] comm = "sleep" -> 2
    [] comm = "top"   -> 1
    [] OTHER          -> 0

\* A callback comes nearer its end with every step taken while it runs; or
\* the step is one of the thread, which then comes nearer its own end if its
\* flag is cleared, as it is whenever somebody waits in join().
CallbacksAdvance ==
  [][pc # "idle" =>
       \/ CallbackLeft' < CallbackLeft
       \/ UNCHANGED ctlVars /\ (~running => CommLeft' < CommLeft)]_vars

\* No callback takes more steps of its own than this.
CallbacksBounded == CallbackLeft \in 0..(9 * N + 5)

\* The sides that are not waiting for the other one.
CtlReady ==
  CASE pc \in {"probe", "lockWrite", "lockStop"} -> serial = "free"
    [] pc = "join" -> comm \in {"none", "exited"}
    [] OTHER       -> pc # "idle"
CommReady ==
  CASE comm = "lock" -> serial = "free"
    [] OTHER         -> comm \notin {"none", "exited"}

\* The controller side waits for the mutex and in join(), the thread for the
\* mutex: they never wait for each other.
NoDeadlock ==
  /\ pc # "idle" => CtlReady \/ CommReady
  /\ comm \notin {"none", "exited"} => CommReady \/ CtlReady

LEMMA LoopRanges ==
  ASSUME IInv
  PROVE  /\ N \in Nat /\ k \in Int /\ 1 <= k /\ k <= N
         /\ stage \in Int /\ 1 <= stage /\ stage <= 4
         /\ pc = "probe" => stage <= 3
         /\ pc = "stop" => stage <= 2
         /\ pc \in CtlPc /\ comm \in CommPc
  BY ServoRange DEF IInv, TypeOK, LoopInv, ProgressInv, ProbeAttempts

\* No callback has more than 9 N + 5 steps left, whatever fails in it.
THEOREM CallbacksBoundedHolds == Safety => []CallbacksBounded
  <1>1. IInv => CallbacksBounded
    <2> SUFFICES ASSUME IInv PROVE CallbacksBounded
      OBVIOUS
    <2>0. /\ N \in Nat /\ k \in Int /\ 1 <= k /\ k <= N
          /\ stage \in Int /\ 1 <= stage /\ stage <= 4
          /\ pc = "probe" => stage <= 3
          /\ pc = "stop" => stage <= 2
      BY LoopRanges
    <2>1. CallbackLeft \in Int
      BY <2>0 DEF CallbackLeft
    <2>2. 0 <= CallbackLeft
      BY <2>0 DEF CallbackLeft
    <2>3. CallbackLeft <= 9 * N + 5
      BY <2>0 DEF CallbackLeft
    <2> QED
      BY <2>0, <2>1, <2>2, <2>3 DEF CallbacksBounded
  <1> QED
    BY InvHolds, <1>1, PTL

LEMMA CtlStepAdvances ==
  ASSUME IInv, CtlStep \/ LockWrite
  PROVE  CallbackLeft' < CallbackLeft
  <1>0. /\ N \in Nat /\ k \in Int /\ 1 <= k /\ k <= N
        /\ stage \in Int /\ 1 <= stage /\ stage <= 4
        /\ pc = "probe" => stage <= 3
        /\ pc = "stop" => stage <= 2
    BY LoopRanges
  <1> USE DEF CallbackLeft, FailInto
  <1>1. CASE ConfigureStep
    BY <1>0, <1>1 DEF ConfigureStep
  <1>2. CASE ProbeStep
    BY <1>0, <1>2 DEF ProbeStep, ProbeAttempts
  <1>3. CASE StartThread
    BY <1>0, <1>3 DEF StartThread
  <1>4. CASE StartThreadFails
    BY <1>0, <1>4 DEF StartThreadFails
  <1>5. CASE WriteStep
    BY <1>0, <1>5 DEF WriteStep, WriteReturns
  <1>6. CASE OnError
    BY <1>0, <1>6 DEF OnError
  <1>7. CASE Join
    BY <1>0, <1>7 DEF Join
  <1>8. CASE LockStop
    BY <1>0, <1>8 DEF LockStop
  <1>9. CASE StopStep
    BY <1>0, <1>9 DEF StopStep
  <1>10. CASE Close
    BY <1>0, <1>10 DEF Close
  <1>11. CASE LockWrite
    BY <1>0, <1>11 DEF LockWrite
  <1> QED
    BY <1>1, <1>2, <1>3, <1>4, <1>5, <1>6, <1>7, <1>8, <1>9, <1>10, <1>11
    DEF CtlStep

LEMMA CommStepAdvances ==
  ASSUME CommStep
  PROVE  UNCHANGED ctlVars /\ (~running => CommLeft' < CommLeft)
  BY DEF CommStep, CommTop, CommLoop, CommRequest, CommFinish, CommWake,
         CommLeft

\* With a scheduled thread and no fairness of the mutex but for write(), no
\* callback runs for ever: it has a bounded number of steps, and what it
\* waits for is a bounded number of steps of a thread told to end.
THEOREM CallbacksAdvanceHolds == Safety => CallbacksAdvance
  <1> DEFINE A == pc # "idle" =>
                    \/ CallbackLeft' < CallbackLeft
                    \/ UNCHANGED ctlVars /\ (~running => CommLeft' < CommLeft)
  <1>1. IInv /\ [Next]_vars => [A]_vars
    <2> SUFFICES ASSUME IInv, Next, pc # "idle" PROVE A
      OBVIOUS
    <2>1. CASE CtlStep \/ LockWrite
      BY <2>1, CtlStepAdvances
    <2>2. CASE CommStep
      BY <2>2, CommStepAdvances
    <2>3. CASE Restart
      BY <2>3, LoopRanges DEF Restart, CallbackLeft, CtlPc
    <2> QED
      BY <2>1, <2>2, <2>3
      DEF Next, Environment, Configure, Activate, SetCommand, Write,
          Deactivate, Cleanup, Shutdown, Destroy
  <1>2. []IInv /\ [][Next]_vars => [][A]_vars
    BY <1>1, PTL
  <1> QED
    BY InvHolds, <1>2, PTL DEF Safety, CallbacksAdvance

\* The two threads of the driver never wait for each other.
THEOREM NoDeadlockHolds == Safety => []NoDeadlock
  <1>1. IInv => NoDeadlock
    <2> SUFFICES ASSUME IInv PROVE NoDeadlock
      OBVIOUS
    <2>1. /\ serial \in {"free", "ctl", "comm"}
          /\ serial = "comm" => comm = "await"
          /\ serial = "ctl" => pc \in {"write", "stop"}
          /\ pc \in Bringup => lifecycle = "unconfigured"
          /\ lifecycle \in Released => comm = "none"
      BY DEF IInv, TypeOK, BusInv, CallbackInv
    <2>2. pc = "probe" => comm = "none"
      BY <2>1 DEF Bringup, Released
    <2> QED
      BY <2>1, <2>2 DEF NoDeadlock, CtlReady, CommReady
  <1> QED
    BY InvHolds, <1>1, PTL

-----------------------------------------------------------------------------
(* The boundary of the failure path of on_configure.                       *)

\* A stop that finds the port open comes to close it with every servo swept:
\* only after an error that closed the port can a wheel turn whose frames
\* were not lost.
OpenPortIsSwept ==
  pc = "close" /\ port = "open" =>
    \A s \in Servo :
      Turning(s) => goalFate[s] = "missed" /\ torqueFate[s] = "missed"

ClosingInv == pc = "close" /\ port = "open" => swept

LEMMA ClosingStep == ClosingInv /\ [Next]_vars => ClosingInv'
  <1> SUFFICES ASSUME ClosingInv, [Next]_vars PROVE ClosingInv'
    OBVIOUS
  <1> USE DEF ClosingInv, ctlVars, commVars, FailInto
  <1>1. CASE CommStep
    BY <1>1 DEF CommStep, CommTop, CommLoop, CommRequest, CommFinish, CommWake
  <1>2. CASE Environment
    BY <1>2
    DEF Environment, Configure, Activate, SetCommand, Write, Deactivate,
        Cleanup, Shutdown, Destroy, Restart
  <1>3. CASE CtlStep \/ LockWrite
    BY <1>3
    DEF CtlStep, ConfigureStep, ProbeStep, StartThread, StartThreadFails,
        WriteStep, WriteReturns, OnError, Join, LockStop, StopStep, Close,
        LockWrite
  <1>4. CASE UNCHANGED vars
    BY <1>4 DEF vars
  <1> QED
    BY <1>1, <1>2, <1>3, <1>4 DEF Next

\* Cleanup, shutdown, the destructor and the errors of a configured driver
\* stop what can be reached; the errors of on_configure are the exception.
THEOREM OpenPortIsSweptHolds == Safety => []OpenPortIsSwept
  <1>1. Init => ClosingInv
    BY DEF Init, ClosingInv
  <1>2. SweptWheelsAreSafe /\ ClosingInv => OpenPortIsSwept
    BY DEF SweptWheelsAreSafe, ClosingInv, OpenPortIsSwept
  <1> QED
    BY <1>1, ClosingStep, SweptWheelsAreSafeHolds, <1>2, PTL DEF Safety

-----------------------------------------------------------------------------
(* What the users of the interlock may rely on.                            *)

LEMMA InterlockPromise == Interlock!Spec => []Interlock!TurnsOnlyIfAsked
  <1>1. Interlock!Init => Interlock!TurnsOnlyIfAsked
    BY DEF Interlock!Init, Interlock!TurnsOnlyIfAsked
  <1>2. Interlock!TurnsOnlyIfAsked /\ [Interlock!Next]_(Interlock!vars)
          => Interlock!TurnsOnlyIfAsked'
    BY DEF Interlock!TurnsOnlyIfAsked, Interlock!Next, Interlock!vars,
           Interlock!Arm, Interlock!Ask, Interlock!Drive, Interlock!Disarm
  <1> QED
    BY <1>1, <1>2, PTL DEF Interlock!Spec

\* A servo that got its last speed frame turns only while the component is
\* active and only if a controller asked for it since the activation.
THEOREM TurnsOnlyIfAskedHolds ==
  Safety => [](\A s \in Servo :
                 goalFate[s] = "delivered" /\ goal[s] # 0 =>
                   lifecycle = "active" /\ s \in wanted)
  <1>1. Interlock!TurnsOnlyIfAsked =>
          \A s \in Servo : goalFate[s] = "delivered" /\ goal[s] # 0 =>
                             lifecycle = "active" /\ s \in wanted
    BY DEF Interlock!TurnsOnlyIfAsked
  <1> QED
    BY DriverImplementsInterlock, InterlockPromise, <1>1, PTL
    DEF ImplementsInterlock

-----------------------------------------------------------------------------
(* The two waits of the controller side end.  Fairness is the one of Spec, *)
(* with the condition of each step in place of ENABLED.                    *)

CtlServed ==
  []<>~(CtlReady /\ pc # "lockWrite") \/ []<><<CtlStep>>_vars
CommServed == []<>~CommReady \/ []<><<CommStep>>_vars
LockServed ==
  <>[]~(pc = "lockWrite" /\ serial = "free") \/ []<><<LockWrite>>_vars

\* join() returns: whatever the thread was doing when its flag was cleared,
\* it gets or gives back the mutex, sees the flag and ends.
JoinReturns == (pc = "join") ~> (pc # "join")

\* A write() that waits for the mutex gets it (or the process ends).
MutexObtained == (pc = "lockWrite") ~> (pc # "lockWrite")

\* What the thread may be doing while somebody waits in join().
JoinAt(x) == pc = "join" /\ comm = x

\* With its flag cleared, the thread only ever goes on.
LEMMA JoinKeeps ==
  ASSUME IInv, [Next]_vars, pc = "join", pc' = "join"
  PROVE  /\ ~running /\ comm' \in CommPc
         /\ comm = "lock" => comm' \in {"lock", "await", "loop"}
         /\ comm = "await" => comm' \in {"await", "loop"}
         /\ comm = "loop" => comm' \in {"loop", "sleep"}
         /\ comm = "sleep" => comm' \in {"sleep", "top"}
         /\ comm = "top" => comm' \in {"top", "exited"}
         /\ comm \in {"exited", "none"} => comm' \in {"exited", "none"}
  <1>0. ~running /\ comm \in CommPc
    BY DEF IInv, TypeOK, BusInv, Stopping
  <1>1. CASE CommStep
    BY <1>0, <1>1
    DEF CommStep, CommTop, CommLoop, CommRequest, CommFinish, CommWake, CommPc
  <1>2. CASE ~CommStep
    <2>1. UNCHANGED comm
      BY <1>2
      DEF Next, Environment, Configure, Activate, SetCommand, Write,
          Deactivate, Cleanup, Shutdown, Destroy, Restart, CtlStep,
          ConfigureStep, ProbeStep, StartThread, StartThreadFails, WriteStep,
          OnError, Join, LockStop, StopStep, Close, LockWrite, vars
    <2> QED
      BY <1>0, <2>1 DEF CommPc
  <1> QED
    BY <1>1, <1>2

\* Each step of the thread leaves its program counter elsewhere, and Join
\* ends the wait.
LEMMA StepLeaves ==
  /\ \A x \in CommPc : JoinAt(x) /\ <<CommStep>>_vars => ~JoinAt(x)'
  /\ pc = "join" /\ <<CtlStep>>_vars => pc' # "join"
  /\ CommStep => UNCHANGED pc
  <1>1. CommStep => comm' # comm /\ UNCHANGED pc
    BY DEF CommStep, CommTop, CommLoop, CommRequest, CommFinish, CommWake,
           ctlVars
  <1>2. pc = "join" /\ CtlStep => pc' # "join"
    BY DEF CtlStep, ConfigureStep, ProbeStep, StartThread, StartThreadFails,
           WriteStep, OnError, Join, LockStop, StopStep, Close
  <1> QED
    BY <1>1, <1>2 DEF JoinAt

\* While somebody waits in join(), the thread is never kept waiting.
LEMMA JoinReady ==
  ASSUME IInv, pc = "join"
  PROVE  /\ comm \in CommPc
         /\ comm \in {"none", "exited"} => CtlReady /\ pc # "lockWrite"
         /\ comm \notin {"none", "exited"} => CommReady
  <1>1. /\ comm \in CommPc /\ serial \in {"free", "ctl", "comm"}
        /\ serial = "comm" => comm = "await"
        /\ serial = "ctl" => pc \in {"write", "stop"}
    BY DEF IInv, TypeOK, BusInv
  <1> QED
    BY <1>1 DEF CtlReady, CommReady

\* join() returns, if both threads are scheduled.
THEOREM JoinReturnsIfServed ==
  Safety /\ CtlServed /\ CommServed => JoinReturns
  <1> DEFINE Out  == pc # "join"
             Done == JoinAt("exited") \/ JoinAt("none")
  <1>1. IInv /\ [Next]_vars =>
          /\ JoinAt("lock") =>
               JoinAt("lock")' \/ JoinAt("await")' \/ JoinAt("loop")' \/ Out'
          /\ JoinAt("await") => JoinAt("await")' \/ JoinAt("loop")' \/ Out'
          /\ JoinAt("loop") => JoinAt("loop")' \/ JoinAt("sleep")' \/ Out'
          /\ JoinAt("sleep") => JoinAt("sleep")' \/ JoinAt("top")' \/ Out'
          /\ JoinAt("top") => JoinAt("top")' \/ Done' \/ Out'
          /\ Done => Done' \/ Out'
    BY JoinKeeps DEF JoinAt
  <1>2. /\ JoinAt("lock") /\ <<CommStep>>_vars => ~JoinAt("lock")'
        /\ JoinAt("await") /\ <<CommStep>>_vars => ~JoinAt("await")'
        /\ JoinAt("loop") /\ <<CommStep>>_vars => ~JoinAt("loop")'
        /\ JoinAt("sleep") /\ <<CommStep>>_vars => ~JoinAt("sleep")'
        /\ JoinAt("top") /\ <<CommStep>>_vars => ~JoinAt("top")'
        /\ Done /\ <<CtlStep>>_vars => Out'
    <2>1. {"lock", "await", "loop", "sleep", "top"} \subseteq CommPc
      BY DEF CommPc
    <2>2. Done => pc = "join"
      BY DEF JoinAt
    <2> QED
      BY <2>1, <2>2, StepLeaves
  <1>3. IInv =>
          /\ JoinAt("lock") \/ JoinAt("await") \/ JoinAt("loop")
               \/ JoinAt("sleep") \/ JoinAt("top") => CommReady
          /\ Done => CtlReady /\ pc # "lockWrite"
          /\ \/ Out \/ JoinAt("lock") \/ JoinAt("await") \/ JoinAt("loop")
             \/ JoinAt("sleep") \/ JoinAt("top") \/ Done
    BY JoinReady DEF JoinAt, CommPc
  <1> HIDE DEF Out, Done
  <1>4. Safety /\ CtlServed => (Done ~> Out)
    BY <1>1, <1>2, <1>3, InvHolds, PTL DEF Safety, CtlServed
  <1>5. Safety /\ CommServed => (JoinAt("top") ~> Done \/ Out)
    BY <1>1, <1>2, <1>3, InvHolds, PTL DEF Safety, CommServed
  <1>6. Safety /\ CommServed => (JoinAt("sleep") ~> JoinAt("top") \/ Out)
    BY <1>1, <1>2, <1>3, InvHolds, PTL DEF Safety, CommServed
  <1>7. Safety /\ CommServed => (JoinAt("loop") ~> JoinAt("sleep") \/ Out)
    BY <1>1, <1>2, <1>3, InvHolds, PTL DEF Safety, CommServed
  <1>8. Safety /\ CommServed => (JoinAt("await") ~> JoinAt("loop") \/ Out)
    BY <1>1, <1>2, <1>3, InvHolds, PTL DEF Safety, CommServed
  <1>9. Safety /\ CommServed =>
          (JoinAt("lock") ~> JoinAt("await") \/ JoinAt("loop") \/ Out)
    BY <1>1, <1>2, <1>3, InvHolds, PTL DEF Safety, CommServed
  <1>10. Safety => [](\/ Out \/ JoinAt("lock") \/ JoinAt("await")
                      \/ JoinAt("loop") \/ JoinAt("sleep") \/ JoinAt("top")
                      \/ Done)
    BY <1>3, InvHolds, PTL
  <1>11. Safety /\ CtlServed /\ CommServed => (~Out ~> Out)
    BY <1>4, <1>5, <1>6, <1>7, <1>8, <1>9, <1>10, PTL
  <1>12. (pc = "join" => ~Out) /\ (Out => pc # "join")
    BY DEF Out
  <1> QED
    BY <1>11, <1>12, PTL DEF JoinReturns

\* A write() that waits for the mutex gets it: the thread gives it back at
\* the latest at the deadline of its transaction, and strong fairness does
\* the rest.
THEOREM MutexObtainedIfServed ==
  Safety /\ CommServed /\ LockServed => MutexObtained
  <1> DEFINE W    == pc = "lockWrite"
             Held == W /\ comm = "await"
             Free == W /\ serial = "free"
  <1>1. IInv => (W => Held \/ Free) /\ (Held => CommReady)
    BY DEF IInv, TypeOK, BusInv, CommReady
  <1>2. IInv /\ [Next]_vars => (Held => Held' \/ Free' \/ ~W')
    <2> SUFFICES ASSUME IInv, [Next]_vars, Held PROVE Held' \/ Free' \/ ~W'
      OBVIOUS
    <2>1. CASE CommStep
      BY <2>1
      DEF CommStep, CommTop, CommLoop, CommRequest, CommFinish, CommWake,
          ctlVars
    <2>2. CASE Environment \/ CtlStep \/ LockWrite
      BY <2>2
      DEF Environment, Configure, Activate, SetCommand, Write, Deactivate,
          Cleanup, Shutdown, Destroy, Restart, CtlStep, ConfigureStep,
          ProbeStep, StartThread, StartThreadFails, WriteStep, OnError, Join,
          LockStop, StopStep, Close, LockWrite
    <2>3. CASE UNCHANGED vars
      BY <2>3 DEF vars
    <2> QED
      BY <2>1, <2>2, <2>3 DEF Next
  <1>3. /\ Held /\ <<CommStep>>_vars => ~Held'
        /\ W /\ <<LockWrite>>_vars => ~W'
    BY DEF CommStep, CommTop, CommLoop, CommRequest, CommFinish, CommWake,
           LockWrite
  <1>4. Free <=> pc = "lockWrite" /\ serial = "free"
    OBVIOUS
  <1> HIDE DEF W, Held, Free
  <1>5. Safety /\ CommServed => (Held ~> Free \/ ~W)
    BY <1>1, <1>2, <1>3, InvHolds, PTL DEF Safety, CommServed
  <1>6. Safety /\ CommServed /\ LockServed => (W ~> ~W)
    BY <1>1, <1>3, <1>4, <1>5, InvHolds, PTL DEF Safety, LockServed
  <1>7. (pc = "lockWrite" => W) /\ (~W => pc # "lockWrite")
    BY DEF W
  <1> QED
    BY <1>6, <1>7, PTL DEF MutexObtained
=============================================================================
