---------------------------- MODULE ServoFeedback ----------------------------
(***************************************************************************)
(* The feedback path of the ST3215 wheel driver: the polling thread asks    *)
(* one servo after the other for its status, servos answer late, out of    *)
(* turn or not at all, acknowledge every WRITE, and read() hands the last  *)
(* status to the controllers, or zero velocity when it is too old.         *)
(*                                                                         *)
(* A packet is a record: bytes, checksums and framing are left to the      *)
(* wire, where a corrupted packet is a lost one.  Time advances in ticks.  *)
(* Lifecycle and mutexes are the subject of ST3215System.                  *)
(***************************************************************************)
EXTENDS Integers, Sequences

CONSTANTS
  N,                 \* number of servos
  Inverted,          \* the servos that are mounted mirrored
  Command,           \* joint velocities a controller commands
  ServoTimeout,      \* _SERVO_TIMEOUT, in ticks
  ResponseTimeout,   \* _RESPONSE_TIMEOUT, in ticks
  BufferSize,        \* _BUFFER_SIZE, in packets
  MaxOwed,           \* bound: packets a servo has yet to send
  MaxInput           \* bound: packets waiting in the input buffer

ASSUME NAssumption == N \in Nat \ {0}
ASSUME InvertedAssumption == Inverted \subseteq 1..N
ASSUME CommandAssumption == 0 \in Command /\ Command \subseteq Int
ASSUME TimeAssumption == ServoTimeout \in Nat /\ ResponseTimeout \in Nat
ASSUME BufferAssumption == BufferSize \in Nat \ {0}

Servo == 1..N

VARIABLES
  spin,              \* velocity of each wheel, in the servo's own direction
  owed,              \* replies each servo has yet to send, in order
  input,             \* packets in the input buffer of the serial port
  comm,              \* the polling thread: "sleep", "request", "await", "apply"
  ci,                \* the servo it polls
  buffer,            \* packets received in this transaction
  next,              \* the next packet process_response looks at
  got,               \* got_expected
  waited,            \* ticks since the request
  velocity,          \* ServoState.velocity
  age,               \* ticks since ServoState.last_update
  reported,          \* _current_velocities
  silence            \* history: ticks since the servo last sent a status

busVars   == <<spin, owed>>
commVars  == <<comm, ci, buffer, next, got, waited>>
stateVars == <<velocity, age>>
vars == <<spin, owed, input, comm, ci, buffer, next, got, waited, velocity,
          age, reported, silence>>

\* Velocities of a wheel, in either direction.
Spin   == Command \union {-v : v \in Command}
Packet == [id : Servo, status : BOOLEAN, velocity : Spin]

\* last_update is nullopt, or older than any timeout compares to.
Never   == ServoTimeout + 1
Silent  == ServoTimeout + ResponseTimeout + 1
Later(t, cap) == IF t < cap THEN t + 1 ELSE cap

TypeOK ==
  /\ spin \in [Servo -> Spin]
  /\ owed \in [Servo -> Seq({"ack", "status"})]
  /\ input \in Seq(Packet)
  /\ comm \in {"sleep", "request", "await", "apply"}
  /\ ci \in Servo
  /\ buffer \in Seq(Packet)
  /\ next \in Nat \ {0}
  /\ got \in BOOLEAN
  /\ waited \in 0..ResponseTimeout
  /\ velocity \in [Servo -> Spin]
  /\ age \in [Servo -> 0..Never]
  /\ reported \in [Servo -> Spin]
  /\ silence \in [Servo -> 0..Silent]

\* apply_motor_direction: mirrored servos turn the other way.
Direction(s, v) == IF s \in Inverted THEN -v ELSE v

-----------------------------------------------------------------------------
(* The servos.                                                             *)

\* write(): a goal-speed frame for servo s, which obeys and owes an ACK.  It
\* is sent under the serial mutex, never inside a status transaction.
WriteCommand(s, v) ==
  /\ comm \in {"sleep", "request"}
  /\ Len(owed[s]) < MaxOwed
  /\ spin' = [spin EXCEPT ![s] = Direction(s, v)]
  /\ owed' = [owed EXCEPT ![s] = Append(@, "ack")]
  /\ UNCHANGED <<input, commVars, stateVars, reported, silence>>

\* A servo sends what it owes; a status carries what the wheel does now.
Answer(s) ==
  /\ owed[s] # <<>>
  /\ Len(input) < MaxInput
  /\ owed' = [owed EXCEPT ![s] = Tail(@)]
  /\ IF Head(owed[s]) = "status"
     THEN /\ input' = Append(input, [id |-> s, status |-> TRUE,
                                     velocity |-> spin[s]])
          /\ silence' = [silence EXCEPT ![s] = 0]
     ELSE /\ input' = Append(input, [id |-> s, status |-> FALSE,
                                     velocity |-> 0])
          /\ UNCHANGED silence
  /\ UNCHANGED <<spin, commVars, stateVars, reported>>

\* The reply never comes: lost, corrupted, or the servo is gone.
Lose(s) ==
  /\ owed[s] # <<>>
  /\ owed' = [owed EXCEPT ![s] = Tail(@)]
  /\ UNCHANGED <<spin, input, commVars, stateVars, reported, silence>>

-----------------------------------------------------------------------------
(* The polling thread.                                                     *)

\* The 20 ms pause is over: start with the first servo.
Wake ==
  /\ comm = "sleep"
  /\ comm' = "request"
  /\ ci' = 1
  /\ UNCHANGED <<busVars, input, buffer, next, got, waited, stateVars,
                 reported, silence>>

\* As EndTransaction, with the loop over the servos never ending.
EndTransactionNoWrap ==
  /\ comm' = "request"
  /\ ci' = ci + 1
  /\ buffer' = <<>>
  /\ next' = 1
  /\ got' = FALSE
  /\ waited' = 0

\* The transaction with servo ci is over.
EndTransaction ==
  /\ comm' = IF ci < N THEN "request" ELSE "sleep"
  /\ ci' = IF ci < N THEN ci + 1 ELSE ci
  /\ buffer' = <<>>
  /\ next' = 1
  /\ got' = FALSE
  /\ waited' = 0

\* Discard pending input and send the READ request, which may be lost.
Request ==
  /\ comm = "request"
  /\ input' = <<>>
  /\ comm' = "await"
  /\ \/ /\ Len(owed[ci]) < MaxOwed
        /\ owed' = [owed EXCEPT ![ci] = Append(@, "status")]
     \/ UNCHANGED owed
  /\ UNCHANGED <<spin, ci, buffer, next, got, waited, stateVars, reported,
                 silence>>

\* send_servo_command fails: on to the next servo.
RequestFails ==
  /\ comm = "request"
  /\ input' = <<>>
  /\ EndTransaction
  /\ UNCHANGED <<busVars, stateVars, reported, silence>>

\* Some bytes arrive: process_response starts over on the whole buffer.
Receive ==
  /\ comm = "await"
  /\ \E n \in 1..Len(input) :
       /\ Len(buffer) + n <= BufferSize
       /\ buffer' = buffer \o SubSeq(input, 1, n)
       /\ input' = SubSeq(input, n + 1, Len(input))
  /\ comm' = "apply"
  /\ next' = 1
  /\ got' = FALSE
  /\ UNCHANGED <<busVars, ci, waited, stateVars, reported, silence>>

\* As Apply, with any valid packet counted as feedback.
ApplyAck ==
  /\ comm = "apply"
  /\ next <= Len(buffer)
  /\ LET p == buffer[next]
     IN  /\ velocity' = IF p.status
                        THEN [velocity EXCEPT ![p.id] = p.velocity]
                        ELSE velocity
         /\ age' = [age EXCEPT ![p.id] = 0]
         /\ got' = (got \/ p.id = ci)
  /\ next' = next + 1
  /\ UNCHANGED <<busVars, input, comm, ci, buffer, waited, reported, silence>>

\* One packet of process_response, under _state_mutex: an acknowledgement is
\* passed over, a status is applied to the servo it names, whoever was asked.
Apply ==
  /\ comm = "apply"
  /\ next <= Len(buffer)
  /\ LET p == buffer[next]
     IN  IF p.status
         THEN /\ velocity' = [velocity EXCEPT ![p.id] = p.velocity]
              /\ age' = [age EXCEPT ![p.id] = 0]
              /\ got' = (got \/ p.id = ci)
         ELSE UNCHANGED <<stateVars, got>>
  /\ next' = next + 1
  /\ UNCHANGED <<busVars, input, comm, ci, buffer, waited, reported, silence>>

\* process_response returns: done, out of buffer, or wait for more bytes.
Processed ==
  /\ comm = "apply"
  /\ next > Len(buffer)
  /\ IF got \/ Len(buffer) = BufferSize
     THEN EndTransaction
     ELSE comm' = "await" /\ UNCHANGED <<ci, buffer, next, got, waited>>
  /\ UNCHANGED <<busVars, input, stateVars, reported, silence>>

\* The deadline passes or the read fails.
GiveUp ==
  /\ comm = "await"
  /\ EndTransaction
  /\ UNCHANGED <<busVars, input, stateVars, reported, silence>>

-----------------------------------------------------------------------------
(* The controller side and time.                                           *)

\* As Read, with the feedback of mirrored servos passed through unchanged.
ReadUnmirrored ==
  /\ reported' = [s \in Servo |-> IF age[s] > ServoTimeout THEN 0
                                                            ELSE velocity[s]]
  /\ UNCHANGED <<busVars, input, commVars, stateVars, silence>>

\* read(): zero velocity for a servo whose feedback is stale.
Read ==
  /\ reported' = [s \in Servo |-> IF age[s] > ServoTimeout
                                  THEN 0 ELSE Direction(s, velocity[s])]
  /\ UNCHANGED <<busVars, input, commVars, stateVars, silence>>

\* on_configure after a cleanup: the wheels are stopped, the port is opened
\* anew and the servo states are reset; the polling thread starts over.
Configure ==
  /\ comm \in {"sleep", "request"}
  /\ spin' = [s \in Servo |-> 0]
  /\ input' = <<>>
  /\ velocity' = [s \in Servo |-> 0]
  /\ age' = [s \in Servo |-> Never]
  /\ comm' = "request"
  /\ ci' = 1
  /\ UNCHANGED <<owed, buffer, next, got, waited, reported, silence>>

\* A tick of the clock.  A transaction ends when its deadline passes, and
\* processing what was received takes no time.
Tick ==
  /\ comm # "apply"
  /\ comm = "await" => waited < ResponseTimeout
  /\ waited' = IF comm = "await" THEN waited + 1 ELSE waited
  /\ age' = [s \in Servo |-> Later(age[s], Never)]
  /\ silence' = [s \in Servo |-> Later(silence[s], Silent)]
  /\ UNCHANGED <<busVars, input, comm, ci, buffer, next, got, velocity,
                 reported>>

Init ==
  /\ spin = [s \in Servo |-> 0]
  /\ owed = [s \in Servo |-> <<>>]
  /\ input = <<>>
  /\ comm = "request"
  /\ ci = 1
  /\ buffer = <<>>
  /\ next = 1
  /\ got = FALSE
  /\ waited = 0
  /\ velocity = [s \in Servo |-> 0]
  /\ age = [s \in Servo |-> Never]
  /\ reported = [s \in Servo |-> 0]
  /\ silence = [s \in Servo |-> Silent]

ServoStep == \E s \in Servo :
  \/ \E v \in Command : WriteCommand(s, v)
  \/ Answer(s)
  \/ Lose(s)

CommStep == Wake \/ Request \/ RequestFails \/ Receive \/ Apply \/ Processed
            \/ GiveUp

Next == ServoStep \/ CommStep \/ Read \/ Configure \/ Tick

Spec == Init /\ [][Next]_vars

-----------------------------------------------------------------------------
(* Properties.                                                             *)

\* read() never reports a moving wheel unless that very servo has sent a
\* status within the two timeouts: acknowledgements, leftovers in the input
\* buffer and the replies of other servos do not keep it alive.
NoPhantomMotion ==
  [][Read => \A s \in Servo :
       reported'[s] # 0 => silence[s] <= ServoTimeout + ResponseTimeout]_vars

\* The controllers see velocities they could have commanded: with forward
\* commands, no joint reports backward, mirrored or not, at any interleaving
\* of replies.
ReportsAsCommanded == \A s \in Servo : reported[s] \in Command
=============================================================================
