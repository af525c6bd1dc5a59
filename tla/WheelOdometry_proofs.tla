------------------------ MODULE WheelOdometry_proofs ------------------------
(***************************************************************************)
(* Proofs about WheelOdometry for every set of angles and every bound.     *)
(* The inductive invariant adds to the two properties that the last raw    *)
(* reading is the one taken at the angle that was applied last.            *)
(***************************************************************************)
EXTENDS WheelOdometry, TLAPS

RawIsLast == known => raw = Raw(last)

IInv == TypeOK /\ RawIsLast /\ OffByWholeTurns /\ ExactUnlessSlipped

-----------------------------------------------------------------------------

LEMMA RawRange == \A a \in Int : Raw(a) \in 0..(TicksPerRevolution - 1)
  BY DEF Raw, TicksPerRevolution

\* The shortest way between two readings differs from the way the wheel
\* really went by whole revolutions.
LEMMA DeltaWholeTurns ==
  ASSUME NEW a \in Int, NEW b \in Int
  PROVE  /\ Delta(Raw(a), Raw(b)) \in Int
         /\ (Delta(Raw(a), Raw(b)) - (b - a)) % TicksPerRevolution = 0
  <1> DEFINE d == Raw(b) - Raw(a)
  <1>1. /\ Raw(a) \in Int /\ Raw(b) \in Int
        /\ (d - (b - a)) % TicksPerRevolution = 0
    BY DEF Raw, TicksPerRevolution
  <1>2. Delta(Raw(a), Raw(b)) \in {d - TicksPerRevolution, d + TicksPerRevolution, d}
    BY <1>1 DEF Delta, TicksPerRevolution, HalfRevolution
  <1> QED
    BY <1>1, <1>2 DEF TicksPerRevolution

\* It is the way the wheel went when that is less than half a revolution.
LEMMA DeltaExact ==
  ASSUME NEW a \in Int, NEW b \in Int,
         b - a < HalfRevolution, a - b < HalfRevolution
  PROVE  Delta(Raw(a), Raw(b)) = b - a
  <1> DEFINE d == Raw(b) - Raw(a)
             w == b - a
  <1>1. (d - w) % TicksPerRevolution = 0
    BY DEF Raw, TicksPerRevolution
  <1>2. d \in Int /\ d < TicksPerRevolution /\ 0 - d < TicksPerRevolution
    <2>1. Raw(a) \in Int /\ Raw(a) >= 0 /\ Raw(a) < TicksPerRevolution
      BY DEF Raw, TicksPerRevolution
    <2>2. Raw(b) \in Int /\ Raw(b) >= 0 /\ Raw(b) < TicksPerRevolution
      BY DEF Raw, TicksPerRevolution
    <2> QED
      BY <2>1, <2>2 DEF TicksPerRevolution
  <1>3. w \in Int /\ w < HalfRevolution /\ 0 - w < HalfRevolution
    BY DEF HalfRevolution
  <1> HIDE DEF d, w
  <1>4. d - w \in {-TicksPerRevolution, 0, TicksPerRevolution}
    <2> DEFINE x == d - w
    <2>1. x \in Int /\ x < 8192 /\ 0 - x < 8192 /\ x % 4096 = 0
      BY <1>1, <1>2, <1>3 DEF TicksPerRevolution, HalfRevolution
    <2> HIDE DEF x
    <2>2. x = 0 - 4096 \/ x = 0 \/ x = 4096
      BY <2>1
    <2> QED
      BY <2>2 DEF x, TicksPerRevolution
  <1>5. (IF d >= HalfRevolution THEN d - TicksPerRevolution
         ELSE IF d < -HalfRevolution THEN d + TicksPerRevolution ELSE d) = w
    BY <1>2, <1>4, <1>3 DEF TicksPerRevolution, HalfRevolution
  <1> QED
    BY <1>5 DEF Delta, d, w

LEMMA InvInit == Init => IInv
  <1> SUFFICES ASSUME Init PROVE IInv
    OBVIOUS
  <1>1. input \in Seq(Angle) /\ buffer \in Seq(Angle)
    BY DEF Init
  <1>2. known \in BOOLEAN /\ slipped \in BOOLEAN /\ ~known
    BY DEF Init
  <1>3. /\ next \in Nat /\ position \in Int /\ last \in Int /\ base \in Int
        /\ raw \in 0..(TicksPerRevolution - 1)
    BY DEF Init, TicksPerRevolution
  <1> QED
    BY <1>1, <1>2, <1>3
    DEF IInv, TypeOK, RawIsLast, OffByWholeTurns, ExactUnlessSlipped

LEMMA InvStep == IInv /\ [Next]_vars => IInv'
  <1> SUFFICES ASSUME IInv, [Next]_vars PROVE IInv'
    OBVIOUS
  <1>0. TypeOK /\ RawIsLast /\ OffByWholeTurns /\ ExactUnlessSlipped
    BY DEF IInv
  <1>1. CASE Answer
    <2>1. input' \in Seq(Angle)
      BY <1>0, <1>1 DEF Answer, TypeOK
    <2> QED
      BY <1>0, <1>1, <2>1
      DEF Answer, IInv, TypeOK, RawIsLast, OffByWholeTurns,
          ExactUnlessSlipped, stateVars, historyVars
  <1>2. CASE Request
    <2>1. input' \in Seq(Angle) /\ buffer' \in Seq(Angle)
      BY <1>2 DEF Request
    <2> QED
      BY <1>0, <1>2, <2>1
      DEF Request, IInv, TypeOK, RawIsLast, OffByWholeTurns,
          ExactUnlessSlipped, stateVars, historyVars
  <1>3. CASE Receive
    <2>1. PICK n \in 1..Len(input) :
            /\ buffer' = buffer \o SubSeq(input, 1, n)
            /\ input' = SubSeq(input, n + 1, Len(input))
      BY <1>3 DEF Receive
    <2>2. input \in Seq(Angle) /\ buffer \in Seq(Angle) /\ Len(input) \in Nat
      BY <1>0 DEF TypeOK
    <2>3. SubSeq(input, 1, n) \in Seq(Angle)
      BY <2>2
    <2>4. SubSeq(input, n + 1, Len(input)) \in Seq(Angle)
      BY <2>2
    <2>5. input' \in Seq(Angle) /\ buffer' \in Seq(Angle)
      BY <2>1, <2>2, <2>3, <2>4
    <2>6. next' \in Nat
      BY <1>3 DEF Receive
    <2> QED
      BY <1>0, <1>3, <2>5, <2>6
      DEF Receive, IInv, TypeOK, RawIsLast, OffByWholeTurns,
          ExactUnlessSlipped, stateVars, historyVars
  <1>4. CASE Apply
    <2> DEFINE at == buffer[next]
    <2>1. at \in Int
      <3>1. next \in 1..Len(buffer) /\ buffer \in Seq(Angle)
        BY <1>0, <1>4 DEF Apply, TypeOK
      <3>2. buffer[next] \in Angle
        BY <3>1
      <3> QED
        BY <3>2, AngleAssumption
    <2>2. /\ raw' = Raw(at) /\ last' = at /\ known' = TRUE
          /\ input' = input /\ buffer' = buffer
      BY <1>4 DEF Apply
    <2>3. next' \in Nat
      BY <1>0, <1>4 DEF Apply, TypeOK
    <2>4. raw' \in 0..(TicksPerRevolution - 1) /\ last' \in Int
      BY <2>1, <2>2, RawRange
    <2> HIDE DEF at
    <2>5. CASE known
      <3>1. /\ position' = position + Delta(Raw(last), Raw(at))
            /\ base' = base
        BY <1>0, <1>4, <2>5 DEF Apply, RawIsLast, at
      <3>2. slipped' = (slipped \/ at - last >= HalfRevolution
                                \/ last - at >= HalfRevolution)
        BY <1>4, <2>5 DEF Apply, at
      <3>3. position \in Int /\ last \in Int /\ base \in Int
        BY <1>0 DEF TypeOK
      <3>4. position' \in Int /\ (position' - last') % TicksPerRevolution = 0
        <4>1. (position - last) % TicksPerRevolution = 0
          BY <1>0, <2>5 DEF OffByWholeTurns
        <4> DEFINE e == Delta(Raw(last), Raw(at))
        <4>2. e \in Int /\ (e - (at - last)) % TicksPerRevolution = 0
          BY <2>1, <3>3, DeltaWholeTurns
        <4>3. position' = position + e /\ last' = at
          BY <2>2, <3>1
        <4> HIDE DEF e
        <4>4. (position + e - at) % TicksPerRevolution = 0
          BY <2>1, <3>3, <4>1, <4>2 DEF TicksPerRevolution
        <4>5. position' \in Int /\ last' \in Int
          BY <2>1, <3>3, <4>2, <4>3
        <4>6. position' - last' = position + e - at
          BY <2>1, <3>3, <4>2, <4>3, <4>5
        <4> QED
          BY <4>4, <4>5, <4>6
      <3>5. ~slipped' => position' - last' = base'
        <4> SUFFICES ASSUME ~slipped' PROVE position' - last' = base'
          OBVIOUS
        <4>1. ~slipped /\ ~(at - last >= HalfRevolution)
                       /\ ~(last - at >= HalfRevolution)
          BY <3>2
        <4>2. position - last = base
          BY <1>0, <2>5, <4>1 DEF ExactUnlessSlipped
        <4>3. at - last < HalfRevolution /\ last - at < HalfRevolution
          BY <2>1, <3>3, <4>1 DEF HalfRevolution
        <4>4. Delta(Raw(last), Raw(at)) = at - last
          BY <2>1, <3>3, <4>3, DeltaExact
        <4> QED
          BY <2>1, <2>2, <3>1, <3>3, <4>2, <4>4
      <3>6. slipped' \in BOOLEAN
        BY <3>2
      <3>7. TypeOK'
        BY <1>0, <2>2, <2>3, <2>4, <3>1, <3>4, <3>6 DEF TypeOK
      <3> QED
        BY <2>2, <3>4, <3>5, <3>7
        DEF IInv, RawIsLast, OffByWholeTurns, ExactUnlessSlipped
    <2>6. CASE ~known
      <3>1. position' = Raw(at) /\ base' = Raw(at) - at /\ slipped' = slipped
        BY <1>4, <2>6 DEF Apply, at
      <3>2. Raw(at) \in Int /\ (Raw(at) - at) % TicksPerRevolution = 0
        BY <2>1 DEF Raw, TicksPerRevolution
      <3>3. position' \in Int /\ base' \in Int
        BY <2>1, <3>1, <3>2
      <3>4. TypeOK'
        BY <1>0, <2>2, <2>3, <2>4, <3>1, <3>3 DEF TypeOK
      <3> QED
        BY <2>2, <3>1, <3>2, <3>4
        DEF IInv, RawIsLast, OffByWholeTurns, ExactUnlessSlipped
    <2> QED
      BY <2>5, <2>6
  <1>5. CASE Configure
    <2>1. input' \in Seq(Angle) /\ buffer' \in Seq(Angle)
      BY <1>5 DEF Configure
    <2>2. known' \in BOOLEAN /\ slipped' \in BOOLEAN /\ ~known'
      BY <1>5 DEF Configure
    <2>3. /\ next' \in Nat /\ position' \in Int /\ last' \in Int
          /\ base' \in Int /\ raw' \in 0..(TicksPerRevolution - 1)
      BY <1>0, <1>5 DEF Configure, TypeOK, TicksPerRevolution
    <2> QED
      BY <2>1, <2>2, <2>3
      DEF IInv, TypeOK, RawIsLast, OffByWholeTurns, ExactUnlessSlipped
  <1>6. CASE UNCHANGED vars
    BY <1>0, <1>6
    DEF vars, IInv, TypeOK, RawIsLast, OffByWholeTurns, ExactUnlessSlipped,
        stateVars, historyVars
  <1> QED
    BY <1>1, <1>2, <1>3, <1>4, <1>5, <1>6 DEF Next

\* The integrated position is always a whole number of revolutions away from
\* the wheel, whatever was missed, repeated or replayed.
THEOREM OffByWholeTurnsHolds == Spec => []OffByWholeTurns
  <1>1. IInv => OffByWholeTurns
    BY DEF IInv
  <1> QED
    BY InvInit, InvStep, <1>1, PTL DEF Spec

\* The integrated position follows the wheel exactly until two readings in
\* succession are half a revolution or more apart.
THEOREM ExactUnlessSlippedHolds == Spec => []ExactUnlessSlipped
  <1>1. IInv => ExactUnlessSlipped
    BY DEF IInv
  <1> QED
    BY InvInit, InvStep, <1>1, PTL DEF Spec

\* The variables have their types, for any angles: the raw position is always
\* a reading of twelve bits.
THEOREM TypeCorrect == Spec => []TypeOK
  <1>1. IInv => TypeOK
    BY DEF IInv
  <1> QED
    BY InvInit, InvStep, <1>1, PTL DEF Spec

=============================================================================
