------------------------ MODULE ServoFeedback_proofs ------------------------
(***************************************************************************)
(* Proofs about ServoFeedback for any number of servos, any mirroring and  *)
(* any timeouts.  The inductive invariant follows a velocity from the      *)
(* wheel through the packets to the report, and ties the age of the        *)
(* feedback to the silence of the servo: what is in the buffers of a       *)
(* transaction is no older than the transaction.                           *)
(***************************************************************************)
EXTENDS ServoFeedback, TLAPS

\* The velocities of wheel s, in its own direction, that come of commands.
Wheel(s) == {Direction(s, v) : v \in Command}

GoodPacket == {p \in Packet : p.velocity \in Wheel(p.id)}

SignInv ==
  /\ \A s \in Servo : spin[s] \in Wheel(s) /\ velocity[s] \in Wheel(s)
  /\ input \in Seq(GoodPacket) /\ buffer \in Seq(GoodPacket)
  /\ reported \in [Servo -> Command]

\* A status in packets was sent after the request of this transaction.
Fresh(packets) ==
  \A i \in 1..Len(packets) :
    packets[i].status => silence[packets[i].id] <= waited

FreshInv ==
  /\ comm \in {"await", "apply"} => Fresh(input) /\ Fresh(buffer)
  /\ comm \in {"sleep", "request"} => buffer = <<>>
  /\ \A s \in Servo : age[s] <= ServoTimeout => silence[s] <= age[s] + ResponseTimeout

IInv == TypeOK /\ SignInv /\ FreshInv

-----------------------------------------------------------------------------

LEMMA DirectionTwice ==
  ASSUME NEW s \in Servo
  PROVE  /\ 0 \in Wheel(s) /\ Wheel(s) \subseteq Spin
         /\ \A v \in Wheel(s) : Direction(s, v) \in Command
  <1>1. CASE s \in Inverted
    BY <1>1, CommandAssumption DEF Wheel, Direction, Spin
  <1>2. CASE s \notin Inverted
    BY <1>2, CommandAssumption DEF Wheel, Direction, Spin
  <1> QED
    BY <1>1, <1>2

LEMMA ServoRange ==
  /\ N \in Nat /\ 1 \in Servo
  /\ \A i \in Servo : i \in Nat /\ 1 <= i /\ (i < N => i + 1 \in Servo)
  BY NAssumption DEF Servo

LEMMA TypeInit == Init => TypeOK
  <1> SUFFICES ASSUME Init PROVE TypeOK
    OBVIOUS
  <1>1. /\ spin \in [Servo -> Spin] /\ velocity \in [Servo -> Spin]
        /\ reported \in [Servo -> Spin]
    BY CommandAssumption DEF Init, Spin
  <1>2. /\ owed \in [Servo -> Seq({"ack", "status"})]
        /\ input \in Seq(Packet) /\ buffer \in Seq(Packet)
    BY DEF Init
  <1>3. /\ age \in [Servo -> 0..Never] /\ silence \in [Servo -> 0..Silent]
        /\ waited \in 0..ResponseTimeout /\ next \in Nat \ {0}
    BY TimeAssumption DEF Init, Never, Silent
  <1>4. comm \in {"sleep", "request", "await", "apply"} /\ ci \in Servo
    BY ServoRange DEF Init
  <1>5. got \in BOOLEAN
    BY DEF Init
  <1> QED
    BY <1>1, <1>2, <1>3, <1>4, <1>5 DEF TypeOK

LEMMA EndType ==
  ASSUME TypeOK, EndTransaction
  PROVE  /\ comm' \in {"sleep", "request", "await", "apply"} /\ ci' \in Servo
         /\ buffer' \in Seq(Packet) /\ next' \in Nat \ {0}
         /\ got' \in BOOLEAN /\ waited' \in 0..ResponseTimeout
  <1>1. comm' \in {"sleep", "request", "await", "apply"} /\ ci' \in Servo
    BY ServoRange DEF TypeOK, EndTransaction
  <1>2. buffer' \in Seq(Packet) /\ next' \in Nat \ {0}
    BY DEF EndTransaction
  <1>3. waited' \in 0..ResponseTimeout
    BY TimeAssumption DEF EndTransaction
  <1>4. got' \in BOOLEAN
    BY DEF EndTransaction
  <1> QED
    BY <1>1, <1>2, <1>3, <1>4

LEMMA TypeStep == TypeOK /\ [Next]_vars => TypeOK'
  <1> SUFFICES ASSUME TypeOK, [Next]_vars PROVE TypeOK'
    OBVIOUS
  <1> USE DEF TypeOK, busVars, commVars, stateVars
  <1>1. ASSUME NEW s \in Servo, NEW v \in Command, WriteCommand(s, v)
       PROVE  TypeOK'
    <2>1. Direction(s, v) \in Spin
      BY <1>1 DEF Direction, Spin
    <2>2. Append(owed[s], "ack") \in Seq({"ack", "status"})
      BY <1>1
    <2> QED
      BY <1>1, <2>1, <2>2 DEF WriteCommand
  <1>2. ASSUME NEW s \in Servo, Answer(s)
       PROVE  TypeOK'
    <2>1. owed[s] \in Seq({"ack", "status"}) /\ owed[s] # <<>>
      BY <1>2 DEF Answer
    <2>2. Tail(owed[s]) \in Seq({"ack", "status"})
      BY <2>1
    <2>3. /\ [id |-> s, status |-> TRUE, velocity |-> spin[s]] \in Packet
          /\ [id |-> s, status |-> FALSE, velocity |-> 0] \in Packet
      BY <1>2, CommandAssumption DEF Packet, Spin
    <2>4. input \in Seq(Packet) /\ 0 \in 0..Silent
      BY TimeAssumption DEF Silent
    <2>5. CASE Head(owed[s]) = "status"
      <3>1. /\ input' = Append(input, [id |-> s, status |-> TRUE, velocity |-> spin[s]])
            /\ silence' = [silence EXCEPT ![s] = 0]
        BY <1>2, <2>5 DEF Answer
      <3>2. input' \in Seq(Packet)
        BY <2>3, <2>4, <3>1
      <3>3. silence' \in [Servo -> 0..Silent]
        BY <2>4, <3>1
      <3> QED
        BY <1>2, <2>2, <3>2, <3>3 DEF Answer
    <2>6. CASE Head(owed[s]) # "status"
      <3>1. /\ input' = Append(input, [id |-> s, status |-> FALSE, velocity |-> 0])
            /\ silence' = silence
        BY <1>2, <2>6 DEF Answer
      <3>2. input' \in Seq(Packet)
        BY <2>3, <2>4, <3>1
      <3> QED
        BY <1>2, <2>2, <3>1, <3>2 DEF Answer
    <2> QED
      BY <2>5, <2>6
  <1>3. ASSUME NEW s \in Servo, Lose(s)
       PROVE  TypeOK'
    <2>1. owed[s] \in Seq({"ack", "status"}) /\ owed[s] # <<>>
      BY <1>3 DEF Lose
    <2>2. Tail(owed[s]) \in Seq({"ack", "status"})
      BY <2>1
    <2> QED
      BY <1>3, <2>2 DEF Lose
  <1>4. CASE Wake
    BY <1>4, ServoRange
    DEF Wake
  <1>5. CASE Request
    <2>1. owed' \in [Servo -> Seq({"ack", "status"})]
      <3>1. Append(owed[ci], "status") \in Seq({"ack", "status"})
        OBVIOUS
      <3> QED
        BY <1>5, <3>1 DEF Request
    <2> QED
      BY <1>5, <2>1 DEF Request
  <1>6. CASE RequestFails
    <2>1. input' \in Seq(Packet)
      BY <1>6 DEF RequestFails
    <2> QED
      BY <1>6, <2>1, EndType DEF RequestFails
  <1>7. CASE Receive
    <2>1. PICK n \in 1..Len(input) :
            /\ buffer' = buffer \o SubSeq(input, 1, n)
            /\ input' = SubSeq(input, n + 1, Len(input))
      BY <1>7 DEF Receive
    <2>2. input' \in Seq(Packet) /\ buffer' \in Seq(Packet)
      BY <2>1
    <2>3. got' \in BOOLEAN
      BY <1>7 DEF Receive
    <2>4. next' \in Nat \ {0} /\ comm' \in {"sleep", "request", "await", "apply"}
      BY <1>7 DEF Receive
    <2> QED
      BY <1>7, <2>2, <2>3, <2>4 DEF Receive
  <1>8. CASE Apply
    <2>1. buffer[next] \in Packet /\ next' \in Nat \ {0}
      BY <1>8 DEF Apply
    <2>2. CASE buffer[next].status
      <3>1. /\ velocity' = [velocity EXCEPT ![buffer[next].id] = buffer[next].velocity]
            /\ age' = [age EXCEPT ![buffer[next].id] = 0]
        BY <1>8, <2>2 DEF Apply
      <3>2. velocity' \in [Servo -> Spin] /\ age' \in [Servo -> 0..Never]
        BY <2>1, <3>1, TimeAssumption DEF Packet, Never
      <3>3. got' \in BOOLEAN
        BY <1>8, <2>2 DEF Apply
      <3> QED
        BY <1>8, <2>1, <3>2, <3>3 DEF Apply
    <2>3. CASE ~buffer[next].status
      BY <1>8, <2>1, <2>3 DEF Apply
    <2> QED
      BY <2>2, <2>3
  <1>9. CASE Processed
    BY <1>9, EndType DEF Processed
  <1>10. CASE GiveUp
    BY <1>10, EndType DEF GiveUp
  <1>11. CASE Read
    <2>1. \A s \in Servo : Direction(s, velocity[s]) \in Spin /\ 0 \in Spin
      BY CommandAssumption DEF Direction, Spin
    <2> QED
      BY <1>11, <2>1 DEF Read
  <1>12. CASE Configure
    <2>1. /\ spin' \in [Servo -> Spin] /\ velocity' \in [Servo -> Spin]
      BY <1>12, CommandAssumption DEF Configure, Spin
    <2>2. age' \in [Servo -> 0..Never]
      BY <1>12, TimeAssumption DEF Configure, Never
    <2>3. input' \in Seq(Packet) /\ ci' \in Servo
      BY <1>12, ServoRange DEF Configure
    <2> QED
      BY <1>12, <2>1, <2>2, <2>3 DEF Configure
  <1>13. CASE Tick
    BY <1>13, TimeAssumption
    DEF Tick, Later, Never, Silent
  <1>14. CASE UNCHANGED vars
    BY <1>14 DEF vars
  <1> QED
    BY <1>1, <1>2, <1>3, <1>4, <1>5, <1>6, <1>7, <1>8, <1>9, <1>10, <1>11,
       <1>12, <1>13, <1>14
    DEF Next, ServoStep, CommStep

\* A velocity keeps the sign of its wheel on its way to the report.
LEMMA SignStep == TypeOK /\ SignInv /\ [Next]_vars => SignInv'
  <1> SUFFICES ASSUME TypeOK, SignInv, [Next]_vars PROVE SignInv'
    OBVIOUS
  <1>0. /\ spin \in [Servo -> Spin] /\ velocity \in [Servo -> Spin]
        /\ input \in Seq(GoodPacket) /\ buffer \in Seq(GoodPacket)
        /\ \A s \in Servo : spin[s] \in Wheel(s) /\ velocity[s] \in Wheel(s)
    BY DEF TypeOK, SignInv
  <1> USE DEF SignInv, busVars, commVars, stateVars
  <1>1. ASSUME NEW s \in Servo, NEW v \in Command, WriteCommand(s, v)
       PROVE  SignInv'
    <2>1. Direction(s, v) \in Wheel(s)
      BY <1>1 DEF Wheel
    <2> QED
      BY <1>1, <1>0, <2>1 DEF WriteCommand
  <1>2. ASSUME NEW s \in Servo, Answer(s)
       PROVE  SignInv'
    <2>1. /\ [id |-> s, status |-> TRUE, velocity |-> spin[s]] \in GoodPacket
          /\ [id |-> s, status |-> FALSE, velocity |-> 0] \in GoodPacket
      BY <1>2, <1>0, DirectionTwice DEF GoodPacket, Packet
    <2>2. input' \in Seq(GoodPacket)
      <3>1. CASE Head(owed[s]) = "status"
        <4>1. input' = Append(input, [id |-> s, status |-> TRUE, velocity |-> spin[s]])
          BY <1>2, <3>1 DEF Answer
        <4> QED
          BY <1>0, <2>1, <4>1
      <3>2. CASE Head(owed[s]) # "status"
        <4>1. input' = Append(input, [id |-> s, status |-> FALSE, velocity |-> 0])
          BY <1>2, <3>2 DEF Answer
        <4> QED
          BY <1>0, <2>1, <4>1
      <3> QED
        BY <3>1, <3>2
    <2> QED
      BY <1>2, <2>2 DEF Answer
  <1>3. ASSUME NEW s \in Servo, Lose(s)
       PROVE  SignInv'
    BY <1>3
    DEF Lose
  <1>4. CASE Wake
    BY <1>4
    DEF Wake
  <1>5. CASE Request
    BY <1>5 DEF Request
  <1>6. CASE RequestFails
    <2>1. input' \in Seq(GoodPacket) /\ buffer' \in Seq(GoodPacket)
      BY <1>6 DEF RequestFails, EndTransaction
    <2> QED
      BY <1>6, <2>1 DEF RequestFails
  <1>7. CASE Receive
    <2>1. PICK n \in 1..Len(input) :
            /\ buffer' = buffer \o SubSeq(input, 1, n)
            /\ input' = SubSeq(input, n + 1, Len(input))
      BY <1>7 DEF Receive
    <2>2. input' \in Seq(GoodPacket) /\ buffer' \in Seq(GoodPacket)
      BY <1>0, <2>1
    <2> QED
      BY <1>7, <2>2 DEF Receive
  <1>8. CASE Apply
    <2>1. buffer[next] \in GoodPacket
      BY <1>8, <1>0 DEF Apply, TypeOK
    <2>2. CASE buffer[next].status
      <3>1. velocity' = [velocity EXCEPT ![buffer[next].id] = buffer[next].velocity]
        BY <1>8, <2>2 DEF Apply
      <3>2. \A s \in Servo : velocity'[s] \in Wheel(s)
        BY <1>0, <2>1, <3>1 DEF GoodPacket, Packet
      <3> QED
        BY <1>8, <1>0, <3>2 DEF Apply
    <2>3. CASE ~buffer[next].status
      BY <1>8, <2>3 DEF Apply
    <2> QED
      BY <2>2, <2>3
  <1>9. CASE Processed
    <2>1. buffer' = buffer \/ buffer' = <<>>
      BY <1>9 DEF Processed, EndTransaction
    <2>2. buffer' \in Seq(GoodPacket)
      <3>1. CASE buffer' = buffer
        BY <1>0, <3>1
      <3>2. CASE buffer' = <<>>
        BY <3>2
      <3> QED
        BY <2>1, <3>1, <3>2
    <2> QED
      BY <1>9, <2>2 DEF Processed
  <1>10. CASE GiveUp
    BY <1>10 DEF GiveUp, EndTransaction
  <1>11. CASE Read
    <2>1. \A s \in Servo : Direction(s, velocity[s]) \in Command /\ 0 \in Command
      BY <1>0, DirectionTwice, CommandAssumption
    <2>2. reported' \in [Servo -> Command]
      BY <1>11, <2>1 DEF Read
    <2> QED
      BY <1>11, <2>2 DEF Read
  <1>12. CASE Configure
    <2>1. \A s \in Servo : 0 \in Wheel(s)
      BY DirectionTwice
    <2>2. input' \in Seq(GoodPacket)
      BY <1>12 DEF Configure
    <2> QED
      BY <1>12, <2>1, <2>2 DEF Configure
  <1>13. CASE Tick
    BY <1>13
    DEF Tick, Later
  <1>14. CASE UNCHANGED vars
    BY <1>14 DEF vars
  <1> QED
    BY <1>1, <1>2, <1>3, <1>4, <1>5, <1>6, <1>7, <1>8, <1>9, <1>10, <1>11,
       <1>12, <1>13, <1>14
    DEF Next, ServoStep, CommStep

\* Feedback is as old as the silence of its servo, give or take the time a
\* reply may spend in the buffers of a transaction.
LEMMA FreshStep == TypeOK /\ FreshInv /\ [Next]_vars => FreshInv'
  <1> SUFFICES ASSUME TypeOK, FreshInv, [Next]_vars PROVE FreshInv'
    OBVIOUS
  <1>0. /\ input \in Seq(Packet) /\ buffer \in Seq(Packet)
        /\ waited \in Nat /\ waited <= ResponseTimeout
        /\ \A s \in Servo : silence[s] \in Nat /\ age[s] \in Nat
        /\ silence \in [Servo -> 0..Silent] /\ age \in [Servo -> 0..Never]
    BY TimeAssumption DEF TypeOK, Silent, Never
  <1> USE DEF FreshInv, busVars, commVars, stateVars
  <1>1. ASSUME NEW s \in Servo, NEW v \in Command, WriteCommand(s, v)
       PROVE  FreshInv'
    BY <1>1 DEF WriteCommand, Fresh
  <1>2. ASSUME NEW s \in Servo, Answer(s)
       PROVE  FreshInv'
    <2>1. CASE Head(owed[s]) = "status"
      <3>1. /\ input' = Append(input, [id |-> s, status |-> TRUE, velocity |-> spin[s]])
            /\ silence' = [silence EXCEPT ![s] = 0]
            /\ UNCHANGED <<comm, buffer, waited, age>>
        BY <1>2, <2>1 DEF Answer
      <3>2. \A t \in Servo : silence'[t] <= silence[t] /\ silence'[t] \in Nat
        BY <1>0, <3>1
      <3>3. silence'[s] = 0
        BY <1>2, <1>0, <3>1
      <3>4. ASSUME Fresh(input) PROVE Fresh(input)'
        <4> SUFFICES ASSUME NEW i \in 1..Len(input'), input'[i].status
                     PROVE  silence'[input'[i].id] <= waited
          BY <3>1 DEF Fresh
        <4>1. CASE i = Len(input) + 1
          BY <1>0, <3>1, <3>3, <4>1
        <4>2. CASE i \in 1..Len(input)
          <5>1. input'[i] = input[i] /\ input[i] \in Packet
            BY <1>0, <3>1, <4>2
          <5>2. silence[input[i].id] <= waited
            BY <3>4, <4>2, <5>1 DEF Fresh
          <5>3. input[i].id \in Servo
            BY <5>1 DEF Packet
          <5>4. /\ silence'[input[i].id] <= silence[input[i].id]
                /\ silence'[input[i].id] \in Nat /\ silence[input[i].id] \in Nat
            BY <1>0, <3>2, <5>3
          <5> QED
            BY <1>0, <5>1, <5>2, <5>4
        <4> QED
          BY <1>0, <3>1, <4>1, <4>2
      <3>5. ASSUME Fresh(buffer) PROVE Fresh(buffer)'
        <4> SUFFICES ASSUME NEW i \in 1..Len(buffer), buffer[i].status
                     PROVE  silence'[buffer[i].id] <= waited
          BY <3>1 DEF Fresh
        <4>1. buffer[i] \in Packet /\ silence[buffer[i].id] <= waited
          BY <1>0, <3>5 DEF Fresh
        <4> QED
          BY <1>0, <3>2, <4>1 DEF Packet
      <3>6. \A t \in Servo : age[t] <= ServoTimeout =>
              silence'[t] <= age[t] + ResponseTimeout
        BY <1>0, <3>2, TimeAssumption
      <3> QED
        BY <3>1, <3>4, <3>5, <3>6
    <2>2. CASE Head(owed[s]) # "status"
      <3>1. /\ input' = Append(input, [id |-> s, status |-> FALSE, velocity |-> 0])
            /\ UNCHANGED <<comm, buffer, waited, age, silence>>
        BY <1>2, <2>2 DEF Answer
      <3>2. ASSUME Fresh(input) PROVE Fresh(input)'
        <4> SUFFICES ASSUME NEW i \in 1..Len(input'), input'[i].status
                     PROVE  silence[input'[i].id] <= waited
          BY <3>1 DEF Fresh
        <4>1. i \in 1..Len(input) /\ input'[i] = input[i]
          BY <1>0, <3>1
        <4> QED
          BY <3>2, <4>1 DEF Fresh
      <3>3. Fresh(buffer) => Fresh(buffer)'
        BY <3>1 DEF Fresh
      <3> QED
        BY <3>1, <3>2, <3>3
    <2> QED
      BY <2>1, <2>2
  <1>3. ASSUME NEW s \in Servo, Lose(s)
       PROVE  FreshInv'
    BY <1>3 DEF Lose, Fresh
  <1>4. CASE Wake
    BY <1>4 DEF Wake
  <1>5. CASE Request
    <2>1. Fresh(input)' /\ Fresh(buffer)'
      BY <1>5 DEF Request, Fresh
    <2> QED
      BY <1>5, <2>1 DEF Request
  <1>6. CASE RequestFails
    BY <1>6 DEF RequestFails, EndTransaction
  <1>7. CASE Receive
    <2>1. PICK n \in 1..Len(input) :
            /\ buffer' = buffer \o SubSeq(input, 1, n)
            /\ input' = SubSeq(input, n + 1, Len(input))
      BY <1>7 DEF Receive
    <2>2. Fresh(input) /\ Fresh(buffer) /\ UNCHANGED <<silence, waited, age>>
      BY <1>7 DEF Receive
    <2>3. Fresh(input)'
      BY <1>0, <2>1, <2>2 DEF Fresh
    <2>4. Fresh(buffer)'
      <3> SUFFICES ASSUME NEW i \in 1..Len(buffer'), buffer'[i].status
                   PROVE  silence[buffer'[i].id] <= waited
        BY <2>2 DEF Fresh
      <3>1. CASE i \in 1..Len(buffer)
        BY <1>0, <2>1, <2>2, <3>1 DEF Fresh
      <3>2. CASE i > Len(buffer)
        <4>1. /\ i - Len(buffer) \in 1..Len(input)
              /\ buffer'[i] = input[i - Len(buffer)]
          BY <1>0, <2>1, <3>2
        <4> QED
          BY <2>2, <4>1 DEF Fresh
      <3> QED
        BY <1>0, <2>1, <3>1, <3>2
    <2> QED
      BY <1>7, <2>2, <2>3, <2>4 DEF Receive
  <1>8. CASE Apply
    <2>1. /\ Fresh(input) /\ Fresh(buffer) /\ buffer[next] \in Packet
          /\ UNCHANGED <<comm, input, buffer, waited, silence>>
          /\ next \in 1..Len(buffer)
      BY <1>8, <1>0 DEF Apply, TypeOK
    <2>2. Fresh(input)' /\ Fresh(buffer)'
      BY <2>1 DEF Fresh
    <2>3. CASE buffer[next].status
      <3>1. age' = [age EXCEPT ![buffer[next].id] = 0]
        BY <1>8, <2>3 DEF Apply
      <3>2. silence[buffer[next].id] <= waited
        BY <2>1, <2>3 DEF Fresh
      <3>3. \A s \in Servo : age'[s] <= ServoTimeout =>
              silence[s] <= age'[s] + ResponseTimeout
        BY <1>0, <2>1, <3>1, <3>2, TimeAssumption DEF Packet
      <3> QED
        BY <1>8, <2>1, <2>2, <3>3 DEF Apply
    <2>4. CASE ~buffer[next].status
      BY <1>8, <2>1, <2>2, <2>4 DEF Apply
    <2> QED
      BY <2>3, <2>4
  <1>9. CASE Processed
    <2>1. /\ \/ comm' # "await"
             \/ comm' = "await" /\ UNCHANGED <<buffer, waited>>
          /\ UNCHANGED <<input, stateVars, silence>>
      BY <1>9 DEF Processed, EndTransaction
    <2>2. comm = "apply"
      BY <1>9 DEF Processed
    <2>3. CASE comm' # "await"
      BY <1>9, <2>1, <2>3 DEF Processed, EndTransaction
    <2>4. CASE comm' = "await" /\ UNCHANGED <<buffer, waited>>
      <3>1. Fresh(input)' /\ Fresh(buffer)'
        BY <2>1, <2>2, <2>4 DEF Fresh
      <3> QED
        BY <2>1, <2>2, <2>4, <3>1
    <2> QED
      BY <2>1, <2>3, <2>4
  <1>10. CASE GiveUp
    BY <1>10 DEF GiveUp, EndTransaction
  <1>11. CASE Read
    BY <1>11 DEF Read, Fresh
  <1>12. CASE Configure
    <2>1. \A s \in Servo : ~(age'[s] <= ServoTimeout)
      BY <1>12, TimeAssumption DEF Configure, Never
    <2> QED
      BY <1>12, <2>1 DEF Configure
  <1>13. CASE Tick
    <2>0. \A s \in Servo : silence[s] \in Nat /\ age[s] \in Nat
      BY <1>0
    <2>1. \A s \in Servo : /\ silence'[s] \in Nat
                           /\ silence'[s] <= silence[s] + 1
                           /\ age'[s] <= ServoTimeout => age'[s] = age[s] + 1
      BY <1>13, <1>0, TimeAssumption DEF Tick, Later, Never, Silent
    <2>2. \A s \in Servo : age'[s] <= ServoTimeout =>
            silence'[s] <= age'[s] + ResponseTimeout
      <3> SUFFICES ASSUME NEW s \in Servo, age'[s] <= ServoTimeout
                   PROVE  silence'[s] <= age'[s] + ResponseTimeout
        OBVIOUS
      <3>1. /\ silence'[s] \in Nat /\ silence'[s] <= silence[s] + 1
            /\ age'[s] = age[s] + 1 /\ age[s] \in Nat /\ silence[s] \in Nat
        BY <2>0, <2>1
      <3>2. age[s] <= ServoTimeout
        BY <3>1, TimeAssumption
      <3>3. silence[s] <= age[s] + ResponseTimeout
        BY <3>2
      <3> QED
        BY <3>1, <3>3, TimeAssumption
    <2>3. UNCHANGED <<comm, input, buffer>>
      BY <1>13 DEF Tick
    <2>4. CASE comm = "await"
      <3>1. waited' = waited + 1 /\ Fresh(input) /\ Fresh(buffer)
        BY <1>13, <2>4 DEF Tick
      <3>2. ASSUME NEW q \in Seq(Packet), Fresh(q), NEW i \in 1..Len(q), q[i].status
            PROVE  silence'[q[i].id] <= waited'
        <4>1. q[i] \in Packet
          BY <3>2
        <4>2. q[i].id \in Servo
          BY <4>1 DEF Packet
        <4>3. silence[q[i].id] <= waited
          BY <3>2 DEF Fresh
        <4>4. /\ silence'[q[i].id] \in Nat /\ silence[q[i].id] \in Nat
              /\ silence'[q[i].id] <= silence[q[i].id] + 1
          BY <2>0, <2>1, <4>2
        <4> QED
          BY <1>0, <3>1, <4>3, <4>4
      <3>3. Fresh(input)' /\ Fresh(buffer)'
        BY <1>0, <2>3, <3>1, <3>2 DEF Fresh
      <3> QED
        BY <2>2, <2>3, <2>4, <3>3
    <2>5. CASE comm # "await"
      BY <1>13, <2>2, <2>3, <2>5 DEF Tick
    <2> QED
      BY <2>4, <2>5
  <1>14. CASE UNCHANGED vars
    BY <1>14 DEF vars, Fresh
  <1> QED
    BY <1>1, <1>2, <1>3, <1>4, <1>5, <1>6, <1>7, <1>8, <1>9, <1>10, <1>11,
       <1>12, <1>13, <1>14
    DEF Next, ServoStep, CommStep

LEMMA InvInit == Init => IInv
  <1> SUFFICES ASSUME Init PROVE IInv
    OBVIOUS
  <1>1. SignInv
    <2>1. \A s \in Servo : spin[s] \in Wheel(s) /\ velocity[s] \in Wheel(s)
      BY DirectionTwice DEF Init
    <2>2. input \in Seq(GoodPacket) /\ buffer \in Seq(GoodPacket)
      BY DEF Init
    <2>3. reported \in [Servo -> Command]
      BY CommandAssumption DEF Init
    <2> QED
      BY <2>1, <2>2, <2>3 DEF SignInv
  <1>2. FreshInv
    BY TimeAssumption DEF Init, FreshInv, Never
  <1> QED
    BY TypeInit, <1>1, <1>2 DEF IInv

LEMMA InvStep == IInv /\ [Next]_vars => IInv'
  BY TypeStep, SignStep, FreshStep DEF IInv

LEMMA InvHolds == Spec => []IInv
  BY InvInit, InvStep, PTL DEF Spec

\* Joints report what they could have been commanded, mirrored or not.
THEOREM ReportsAsCommandedHolds == Spec => []ReportsAsCommanded
  <1>1. IInv => ReportsAsCommanded
    BY DEF IInv, SignInv, ReportsAsCommanded
  <1> QED
    BY InvHolds, <1>1, PTL

\* A wheel is reported moving only on the word of its own servo, given no
\* longer than the two timeouts ago.
THEOREM NoPhantomMotionHolds == Spec => NoPhantomMotion
  <1> DEFINE A == Read => \A s \in Servo :
                    reported'[s] # 0 => silence[s] <= ServoTimeout + ResponseTimeout
  <1>1. IInv => A
    <2> SUFFICES ASSUME IInv, Read, NEW s \in Servo, reported'[s] # 0
                 PROVE  silence[s] <= ServoTimeout + ResponseTimeout
      OBVIOUS
    <2>1. ~(age[s] > ServoTimeout)
      BY DEF Read
    <2>2. age[s] \in Nat /\ silence[s] \in Nat
      BY TimeAssumption DEF IInv, TypeOK, Never, Silent
    <2>3. silence[s] <= age[s] + ResponseTimeout
      BY <2>1, <2>2, TimeAssumption DEF IInv, FreshInv
    <2> QED
      BY <2>1, <2>2, <2>3, TimeAssumption
  <1>2. []IInv => [][A]_vars
    BY <1>1, PTL
  <1> QED
    BY InvHolds, <1>2, PTL DEF NoPhantomMotion

\* The variables have their types, for any number of servos: the buffers hold
\* packets of known servos only, and velocities they can turn at.
THEOREM TypeCorrect == Spec => []TypeOK
  BY InvHolds, PTL DEF IInv

=============================================================================
