---------------------------- MODULE WheelOdometry ----------------------------
(***************************************************************************)
(* Position feedback of one wheel: the servo reports where in its          *)
(* revolution the wheel is, 0 to 4095, and process_response integrates the *)
(* shortest signed difference between readings into a continuous angle.    *)
(* Within a transaction every read starts over on the whole receive        *)
(* buffer, so that a reading is often integrated more than once.           *)
(*                                                                         *)
(* Angles are in encoder ticks, in the servo's own direction.              *)
(***************************************************************************)
EXTENDS Integers, Sequences

CONSTANTS
  Angle,             \* the true angles the wheel can be found at
  MaxReadings,       \* bound on the readings in one transaction
  MaxPosition        \* bound on the integrated position, either way

ASSUME AngleAssumption == Angle \subseteq Int
ASSUME BoundAssumption == MaxReadings \in Nat /\ MaxPosition \in Nat

TicksPerRevolution  == 4096       \* ENCODER_TICKS_PER_REVOLUTION
HalfRevolution      == 2048       \* HALF_REVOLUTION_TICKS

VARIABLES
  input,             \* readings under way, as the true angles they were taken at
  buffer,            \* readings received in this transaction
  next,              \* the next one process_response looks at, 0 outside it
  position,          \* ServoState.position
  known,             \* ServoState.last_raw_position has a value
  raw,               \* that value
  last,              \* history: true angle of the reading applied last
  base,              \* history: position minus true angle, at the first reading
  slipped            \* history: readings half a revolution apart in succession

stateVars   == <<position, known, raw>>
historyVars == <<last, base, slipped>>
vars == <<input, buffer, next, position, known, raw, last, base, slipped>>

TypeOK ==
  /\ input \in Seq(Angle)
  /\ buffer \in Seq(Angle)
  /\ next \in Nat
  /\ position \in Int
  /\ known \in BOOLEAN
  /\ raw \in 0..(TicksPerRevolution - 1)
  /\ last \in Int
  /\ base \in Int
  /\ slipped \in BOOLEAN

-----------------------------------------------------------------------------

\* As Raw, without the mask.
RawUnmasked(a) == a

\* What the servo reports of an angle, masked as parse_status_payload does.
Raw(a) == a % TicksPerRevolution

\* As position_delta_ticks, with the backward wrap left out.
DeltaOneWay(previous, current) ==
  LET d == current - previous
  IN  IF d >= HalfRevolution THEN d - TicksPerRevolution ELSE d

\* As position_delta_ticks, wrapping by half a revolution.
DeltaHalfWrap(previous, current) ==
  LET d == current - previous
  IN  IF d >= HalfRevolution THEN d - HalfRevolution
      ELSE IF d < -HalfRevolution THEN d + HalfRevolution
      ELSE d

\* position_delta_ticks: the shortest signed way between two readings.
Delta(previous, current) ==
  LET d == current - previous
  IN  IF d >= HalfRevolution THEN d - TicksPerRevolution
      ELSE IF d < -HalfRevolution THEN d + TicksPerRevolution
      ELSE d

\* The servo answers a status request with where the wheel is by then.
Answer ==
  /\ Len(input) + Len(buffer) < MaxReadings
  /\ \E at \in Angle : input' = Append(input, at)
  /\ UNCHANGED <<buffer, next, stateVars, historyVars>>

\* A new transaction, with this servo or another: pending input is discarded.
Request ==
  /\ next = 0
  /\ input' = <<>>
  /\ buffer' = <<>>
  /\ UNCHANGED <<next, stateVars, historyVars>>

\* Bytes arrive: process_response starts over at the head of the buffer.
Receive ==
  /\ next = 0
  /\ position \in -MaxPosition..MaxPosition
  /\ \E n \in 1..Len(input) :
       /\ buffer' = buffer \o SubSeq(input, 1, n)
       /\ input' = SubSeq(input, n + 1, Len(input))
  /\ next' = 1
  /\ UNCHANGED <<stateVars, historyVars>>

\* One status packet is applied to the servo state.
Apply ==
  /\ next \in 1..Len(buffer)
  /\ LET at == buffer[next]
     IN  /\ IF known
            THEN /\ position' = position + Delta(raw, Raw(at))
                 /\ slipped' = (slipped \/ at - last >= HalfRevolution
                                        \/ last - at >= HalfRevolution)
                 /\ UNCHANGED base
            ELSE /\ position' = Raw(at)
                 /\ base' = Raw(at) - at
                 /\ UNCHANGED slipped
         /\ raw' = Raw(at)
         /\ last' = at
  /\ known' = TRUE
  /\ next' = IF next < Len(buffer) THEN next + 1 ELSE 0
  /\ UNCHANGED <<input, buffer>>

\* on_configure: the servo state starts afresh.
Configure ==
  /\ next = 0
  /\ input' = <<>>
  /\ buffer' = <<>>
  /\ position' = 0
  /\ known' = FALSE
  /\ raw' = 0
  /\ last' = 0
  /\ base' = 0
  /\ slipped' = FALSE
  /\ UNCHANGED next

Init ==
  /\ input = <<>>
  /\ buffer = <<>>
  /\ next = 0
  /\ position = 0
  /\ known = FALSE
  /\ raw = 0
  /\ last = 0
  /\ base = 0
  /\ slipped = FALSE

Next == Answer \/ Request \/ Receive \/ Apply \/ Configure

Spec == Init /\ [][Next]_vars

-----------------------------------------------------------------------------
(* Properties.                                                             *)

\* However far the wheel turned between readings, and however often a reading
\* was integrated, the position is off by whole revolutions only: an error
\* of the odometry never shifts the phase of the wheel.
OffByWholeTurns == known => (position - last) % TicksPerRevolution = 0

\* As long as the readings integrated one after the other, those of a second
\* pass over the buffer included, are less than half a revolution apart, the
\* position follows the wheel exactly.
ExactUnlessSlipped == known /\ ~slipped => position - last = base
=============================================================================
