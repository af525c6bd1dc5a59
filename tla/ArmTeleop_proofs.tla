-------------------------- MODULE ArmTeleop_proofs --------------------------
(***************************************************************************)
(* Proofs about ArmTeleop for any number of servos and any resolution.     *)
(* The inductive invariant says which servos an error text still speaks    *)
(* of in each part of a round, that what answered has a range around its   *)
(* position, and that a saved calibration mirrors only servos with one.    *)
(***************************************************************************)
EXTENDS ArmTeleop, TLAPS

Proper(r) == r.min <= r.max
Around(l) == l.min <= l.cur /\ (l.cur <= l.max \/ l.cur = l.min)

\* Leader i, or follower i, was already read in this round.
LeaderRead(i) ==
  \/ pc = "leaders" /\ i < at
  \/ pc = "followers" /\ running
  \/ pc \in {"keys", "follow"}
FollowerRead(i) == (pc = "followers" /\ i < at) \/ pc \in {"keys", "follow"}

LeaderInv ==
  \A i \in Servos :
    /\ LeaderRead(i) /\ ~leader[i].failed => i \in heard1
    /\ i \in heard1 => Around(leader[i])
    /\ pc = "leaders" /\ i \in heard1 => i < at

FollowerInv ==
  /\ pc = "leaders" => heard2 = {}
  /\ \A i \in Servos :
       /\ FollowerRead(i) /\ follower[i].error = "" => i \in heard2
       /\ pc = "followers" /\ i \in heard2 => i < at
       /\ pc \in {"followers", "keys"} /\ i \in heard2 => Proper(follower[i])
       /\ pc = "followers" /\ i < at /\ follower[i].mirroring => i \in heard2
       /\ pc = "keys" /\ follower[i].mirroring => i \in heard2
       /\ pc = "follow" /\ i \in heard2 /\ follower[i].mirroring
            => Proper(follower[i])

FileInv ==
  file # NoFile =>
    \A i \in Servos : file.follower[i].mirroring => Proper(file.follower[i])

TrippedInv == \A i \in tripped : ~follower[i].mirroring

IInv == TypeOK /\ LeaderInv /\ FollowerInv /\ FileInv /\ TrippedInv

-----------------------------------------------------------------------------
(* The operators.                                                          *)

LEMMA PositionRange ==
  /\ MaxPosition \in Nat /\ 0 \in Positions /\ MaxPosition \in Positions
  /\ \A p \in Positions : p \in Int /\ 0 <= p /\ p <= MaxPosition
  BY PositionAssumption DEF Positions

LEMMA ServoRange ==
  /\ N \in Nat /\ 1 \in Servos /\ 1 \in 1..N+1
  /\ \A i \in Servos : i \in Nat /\ i <= N /\ i + 1 \in 1..N+1
  BY ArmAssumption DEF Servos

LEMMA SeenType ==
  ASSUME NEW f \in Follower, NEW p \in Positions
  PROVE  /\ Seen(f, p) \in Follower
         /\ Proper(Seen(f, p))
         /\ Seen(f, p).mirroring = f.mirroring
         /\ Seen(f, p).error = f.error
  <1> DEFINE lo == IF p < f.min THEN p ELSE f.min
             hi == IF p > f.max THEN p ELSE f.max
  <1>1. f.min \in Positions /\ f.max \in Positions
    BY DEF Follower
  <1>2. lo \in Positions /\ hi \in Positions /\ lo <= hi
    BY <1>1, PositionAssumption DEF Positions
  <1>3. Seen(f, p) = [f EXCEPT !.min = lo, !.max = hi]
    BY DEF Seen, Follower
  <1> HIDE DEF lo, hi
  <1> QED
    BY <1>2, <1>3 DEF Follower, Proper

LEMMA SeenAtType ==
  ASSUME NEW l \in Leader, NEW p \in Positions
  PROVE  /\ SeenAt(l, p) \in Leader
         /\ Around(SeenAt(l, p))
         /\ SeenAt(l, p).failed = l.failed
  <1> DEFINE lo == IF p < l.min THEN p ELSE l.min
             hi == IF p > l.max THEN p ELSE l.max
  <1>1. l.min \in Positions /\ l.max \in Positions
    BY DEF Leader
  <1>2. lo \in Positions /\ hi \in Positions /\ lo <= p /\ p <= hi
    BY <1>1, PositionAssumption DEF Positions
  <1>3. SeenAt(l, p) = [l EXCEPT !.min = lo, !.max = hi, !.cur = p]
    BY DEF Seen, SeenAt, Leader
  <1> HIDE DEF lo, hi
  <1> QED
    BY <1>2, <1>3 DEF Leader, Around

LEMMA LeaderError ==
  ASSUME NEW l \in Leader, NEW b \in BOOLEAN
  PROVE  /\ [l EXCEPT !.failed = b] \in Leader
         /\ [l EXCEPT !.failed = b].failed = b
         /\ Around(l) => Around([l EXCEPT !.failed = b])
  BY DEF Leader, Around

LEMMA FollowerError ==
  ASSUME NEW f \in Follower, NEW e \in Faults \union {""}
  PROVE  /\ [f EXCEPT !.error = e] \in Follower
         /\ [f EXCEPT !.error = e].error = e
         /\ [f EXCEPT !.error = e].mirroring = f.mirroring
         /\ Proper(f) => Proper([f EXCEPT !.error = e])
  BY DEF Follower, Proper

LEMMA FollowerEnds ==
  ASSUME NEW f \in Follower, NEW e \in Faults
  PROVE  /\ [f EXCEPT !.error = e, !.mirroring = FALSE] \in Follower
         /\ [f EXCEPT !.error = e, !.mirroring = FALSE].error = e
         /\ ~[f EXCEPT !.error = e, !.mirroring = FALSE].mirroring
         /\ Proper(f) => Proper([f EXCEPT !.error = e, !.mirroring = FALSE])
  BY DEF Follower, Proper, Faults

LEMMA FollowerMirrors ==
  ASSUME NEW f \in Follower, NEW b \in BOOLEAN
  PROVE  /\ [f EXCEPT !.mirroring = b] \in Follower
         /\ [f EXCEPT !.mirroring = b].error = f.error
         /\ [f EXCEPT !.mirroring = b].mirroring = b
         /\ Proper(f) => Proper([f EXCEPT !.mirroring = b])
  BY DEF Follower, Proper

LEMMA WroteType ==
  ASSUME NEW reg \in [Servos -> BOOLEAN], NEW i \in Servos, NEW b \in BOOLEAN
  PROVE  /\ Wrote(reg, i, b) \subseteq [Servos -> BOOLEAN]
         /\ \A r \in Wrote(reg, i, FALSE) : \A j \in Servos : r[j] => reg[j]
         /\ \A r \in Wrote(reg, i, b) : \A j \in Servos \ {i} : r[j] = reg[j]
  BY DEF Wrote

\* A quotient of a part of the source range stays within the other range.
LEMMA QuotientBound ==
  ASSUME NEW a \in Nat, NEW b \in Nat, NEW d \in Nat, d > 0, a <= d
  PROVE  \A q \in Quotients(a * b, d) : q \in Nat /\ q <= b
  <1>1. a * b \in Nat /\ a * b <= d * b
    OBVIOUS
  <1>2. ASSUME NEW n \in Nat, n <= d * b
        PROVE  n \div d \in Nat /\ n \div d <= b
    <2>1. n \div d \in Nat /\ d * (n \div d) <= n
      OBVIOUS
    <2>2. ASSUME n \div d > b PROVE FALSE
      <3>1. n \div d >= b + 1
        BY <2>1, <2>2
      <3>2. d * (n \div d) >= d * (b + 1)
        BY <2>1, <3>1
      <3> QED
        BY <1>2, <2>1, <3>2
    <2> QED
      BY <2>1, <2>2
  <1>3. Quotients(a * b, d) =
          {(a * b) \div d} \union
          (IF a * b > 0 THEN {(a * b - 1) \div d} ELSE {})
    BY DEF Quotients
  <1>4. (a * b) \div d \in Nat /\ (a * b) \div d <= b
    BY <1>1, <1>2
  <1>5. a * b > 0 => /\ (a * b - 1) \div d \in Nat
                     /\ (a * b - 1) \div d <= b
    <2> SUFFICES ASSUME a * b > 0
                 PROVE  /\ (a * b - 1) \div d \in Nat
                        /\ (a * b - 1) \div d <= b
      OBVIOUS
    <2>1. d * b \in Nat
      OBVIOUS
    <2>2. a * b - 1 \in Nat /\ a * b - 1 <= d * b
      BY <1>1, <2>1
    <2> QED
      BY <1>2, <2>2
  <1> QED
    BY <1>3, <1>4, <1>5

\* The scaled position of a leader whose position is within its range, or at
\* its lower end, lies within the range of its follower.
LEMMA ScaledRange ==
  ASSUME NEW l \in Leader, NEW f \in Follower, Around(l), Proper(f)
  PROVE  Scaled(l, f) \subseteq f.min..f.max
  <1>1. /\ l.min \in Positions /\ l.max \in Positions /\ l.cur \in Positions
        /\ f.min \in Positions /\ f.max \in Positions
        /\ f.min <= f.max /\ l.min <= l.cur
    BY DEF Leader, Follower, Around, Proper
  <1>2. CASE l.max = l.min
    BY <1>1, <1>2, PositionAssumption DEF Scaled, Positions
  <1>3. CASE l.max # l.min /\ l.cur = l.min
    <2> DEFINE d == l.max - l.min
               b == f.max - f.min
    <2>1. (l.cur - l.min) * b = 0
      BY <1>1, <1>3, PositionAssumption DEF Positions
    <2>2. d \in Int /\ d # 0
      BY <1>1, <1>3, PositionAssumption DEF Positions
    <2> HIDE DEF d
    <2>3. Quotients(0, d) = {0}
      BY <2>2 DEF Quotients
    <2>4. Scaled(l, f) = {Clamp(f.min + q) : q \in {0}}
      BY <1>3, <2>1, <2>3 DEF Scaled, d
    <2> QED
      BY <1>1, <2>4, PositionAssumption DEF Clamp, Positions
  <1>4. CASE l.max # l.min /\ l.cur # l.min
    <2> DEFINE a == l.cur - l.min
               d == l.max - l.min
               b == f.max - f.min
    <2>1. a \in Nat /\ b \in Nat /\ d \in Nat /\ d > 0 /\ a <= d
      BY <1>1, <1>4, PositionAssumption DEF Around, Positions
    <2>2. Scaled(l, f) = {Clamp(f.min + q) : q \in Quotients(a * b, d)}
      BY <1>4 DEF Scaled
    <2> HIDE DEF a, d
    <2>3. \A q \in Quotients(a * b, d) : q \in Nat /\ q <= b
      <3> HIDE DEF b
      <3> QED
        BY <2>1, QuotientBound
    <2>4. ASSUME NEW q \in Nat, q <= b
          PROVE  Clamp(f.min + q) \in f.min..f.max
      BY <1>1, <2>4, PositionAssumption DEF Clamp, Positions
    <2> QED
      BY <2>2, <2>3, <2>4
  <1> QED
    BY <1>2, <1>3, <1>4

LEMMA ScaledType ==
  ASSUME NEW l \in Leader, NEW f \in Follower
  PROVE  Scaled(l, f) \subseteq Positions
  <1>1. ASSUME NEW x \in Int PROVE Clamp(x) \in Positions
    BY PositionAssumption DEF Clamp, Positions
  <1>2. /\ f.min \in Positions /\ f.max \in Positions
        /\ l.min \in Positions /\ l.max \in Positions /\ l.cur \in Positions
    BY DEF Leader, Follower
  <1>5. Positions \subseteq Int
    BY DEF Positions
  <1>3. CASE l.max = l.min
    BY <1>2, <1>3 DEF Scaled
  <1>4. CASE l.max # l.min
    <2>1. /\ l.max - l.min \in Int /\ l.max - l.min # 0
          /\ l.cur - l.min \in Int /\ f.max - f.min \in Int
      <3>1. /\ l.min \in Int /\ l.max \in Int /\ l.cur \in Int
            /\ f.min \in Int /\ f.max \in Int
        BY <1>2, <1>5
      <3> QED
        BY <1>4, <3>1
    <2>2. (l.cur - l.min) * (f.max - f.min) \in Int
      BY <2>1
    <2>3. ASSUME NEW x \in Int, NEW d \in Int, d # 0
          PROVE  Quotients(x, d) \subseteq Int
      BY <2>3 DEF Quotients
    <2>4. Quotients((l.cur - l.min) * (f.max - f.min), l.max - l.min)
            \subseteq Int
      BY <2>1, <2>2, <2>3
    <2> DEFINE Q == Quotients((l.cur - l.min) * (f.max - f.min), l.max - l.min)
    <2>5. Scaled(l, f) = {Clamp(f.min + q) : q \in Q}
      BY <1>4 DEF Scaled
    <2>6. Q \subseteq Int
      BY <2>4
    <2> HIDE DEF Q
    <2>7. \A q \in Q : f.min + q \in Int
      <3>1. f.min \in Int
        BY <1>2, <1>5
      <3> QED
        BY <2>6, <3>1
    <2> QED
      BY <1>1, <2>5, <2>7
  <1> QED
    BY <1>3, <1>4

-----------------------------------------------------------------------------
(* What the steps of a round do to the servo they have come to.            *)

LEMMA ReadLeaderDoes ==
  ASSUME TypeOK, ReadLeader
  PROVE  \E l \in Leader :
           /\ leader' = [leader EXCEPT ![at] = l]
           /\ \/ heard1' = heard1 \union {at} /\ Around(l)
              \/ /\ heard1' = heard1
                 /\ l.failed
                 /\ Around(leader[at]) => Around(l)
           /\ torque1' \in [Servos -> BOOLEAN]
  <1>1. /\ at \in Servos /\ leader[at] \in Leader
        /\ torque1 \in [Servos -> BOOLEAN]
    BY DEF TypeOK, ReadLeader
  <1>2. CASE LeaderAnswers
    <2>1. PICK p \in Positions, over \in BOOLEAN :
            /\ leader' = [leader EXCEPT ![at] =
                            [SeenAt(@, p) EXCEPT !.failed = over]]
            /\ IF over THEN torque1' \in Wrote(torque1, at, FALSE)
                       ELSE UNCHANGED torque1
      BY <1>2 DEF LeaderAnswers
    <2> DEFINE s == SeenAt(leader[at], p)
               l == [s EXCEPT !.failed = over]
    <2>2. s \in Leader /\ Around(s)
      BY <1>1, SeenAtType
    <2>3. leader' = [leader EXCEPT ![at] = l]
      BY <2>1
    <2>4. torque1' \in [Servos -> BOOLEAN]
      BY <1>1, <2>1, WroteType
    <2> HIDE DEF s
    <2>5. l \in Leader /\ Around(l)
      BY <2>2, LeaderError
    <2>6. heard1' = heard1 \union {at}
      BY <1>2 DEF LeaderAnswers
    <2> QED
      BY <2>3, <2>4, <2>5, <2>6
  <1>3. CASE LeaderFails
    <2>1. heard1' = heard1 /\ torque1' = torque1
      BY <1>3 DEF LeaderFails
    <2>2. CASE leader' = [leader EXCEPT ![at].failed = TRUE]
      <3> DEFINE l == [leader[at] EXCEPT !.failed = TRUE]
      <3>1. l \in Leader /\ l.failed /\ (Around(leader[at]) => Around(l))
        BY <1>1, LeaderError
      <3>2. leader' = [leader EXCEPT ![at] = l]
        BY <2>2
      <3> QED
        BY <1>1, <2>1, <3>1, <3>2
    <2>3. ASSUME NEW p \in Positions,
                 leader' = [leader EXCEPT ![at] =
                              [SeenAt(@, p) EXCEPT !.failed = TRUE]]
          PROVE  \E l \in Leader :
                   /\ leader' = [leader EXCEPT ![at] = l]
                   /\ l.failed /\ Around(l)
      <3> DEFINE s == SeenAt(leader[at], p)
                 l == [s EXCEPT !.failed = TRUE]
      <3>1. s \in Leader /\ Around(s)
        BY <1>1, SeenAtType
      <3>2. leader' = [leader EXCEPT ![at] = l]
        BY <2>3
      <3> HIDE DEF s
      <3>3. l \in Leader /\ l.failed /\ Around(l)
        BY <3>1, LeaderError
      <3> QED
        BY <3>2, <3>3
    <2> QED
      BY <1>1, <1>3, <2>1, <2>2, <2>3 DEF LeaderFails
  <1> QED
    BY <1>2, <1>3 DEF ReadLeader

\* What follower f may become when it is read.
Answered(f) == heard2' = heard2 \union {at} /\ Proper(f)
Missed(f)   == heard2' = heard2 /\ f.error # "" /\ ~f.mirroring

LEMMA ReadFollowerDoes ==
  ASSUME TypeOK, ReadFollower
  PROVE  \E f \in Follower :
           /\ follower' = [follower EXCEPT ![at] = f]
           /\ Answered(f) \/ Missed(f)
           /\ f.mirroring => follower[at].mirroring
           /\ tripped' = tripped \/ (tripped' = tripped \union {at} /\ ~f.mirroring)
           /\ torque2' \in [Servos -> BOOLEAN]
           /\ \A i \in Servos : ~follower[i].mirroring /\ torque2'[i] => torque2[i]
  <1>1. /\ at \in Servos /\ follower[at] \in Follower
        /\ torque2 \in [Servos -> BOOLEAN]
        /\ "overload" \in Faults /\ "other" \in Faults
    BY DEF TypeOK, ReadFollower, Faults
  <1>2. ASSUME NEW p \in Positions
        PROVE  /\ Seen(follower[at], p) \in Follower
               /\ Proper(Seen(follower[at], p))
               /\ Seen(follower[at], p).mirroring = follower[at].mirroring
    BY <1>1, SeenType
  <1>3. CASE FollowerFails
    <2>1. /\ heard2' = heard2 /\ tripped' = tripped /\ torque2' = torque2
      BY <1>3 DEF FollowerFails
    <2>2. ASSUME NEW s \in Follower, NEW e \in Faults,
                 follower' = [follower EXCEPT ![at] =
                   [s EXCEPT !.error = e, !.mirroring = FALSE]]
          PROVE  \E f \in Follower :
                   /\ follower' = [follower EXCEPT ![at] = f]
                   /\ f.error # "" /\ ~f.mirroring
      <3> DEFINE f == [s EXCEPT !.error = e, !.mirroring = FALSE]
      <3>1. f \in Follower /\ f.error = e /\ ~f.mirroring
        BY FollowerEnds
      <3>2. e # ""
        BY DEF Faults
      <3> QED
        BY <2>2, <3>1, <3>2
    <2>3. PICK e \in Faults :
            \/ follower' = [follower EXCEPT ![at].error = e,
                                            ![at].mirroring = FALSE]
            \/ \E p \in Positions :
                 follower' = [follower EXCEPT ![at] =
                   [Seen(@, p) EXCEPT !.error = e, !.mirroring = FALSE]]
      BY <1>3 DEF FollowerFails
    <2>4. CASE follower' = [follower EXCEPT ![at].error = e,
                                            ![at].mirroring = FALSE]
      <3>1. follower' = [follower EXCEPT ![at] =
              [follower[at] EXCEPT !.error = e, !.mirroring = FALSE]]
        BY <1>1, <2>4 DEF TypeOK
      <3> QED
        BY <1>1, <2>1, <2>2, <3>1 DEF Missed
    <2>5. CASE \E p \in Positions :
                 follower' = [follower EXCEPT ![at] =
                   [Seen(@, p) EXCEPT !.error = e, !.mirroring = FALSE]]
      BY <1>1, <1>2, <2>1, <2>2, <2>5 DEF Missed
    <2> QED
      BY <2>3, <2>4, <2>5
  <1>4. CASE IdleAnswers
    BY <1>1, <1>2, <1>4 DEF IdleAnswers, Answered
  <1>5. CASE FollowerTrips
    <2>1. PICK p \in Positions : follower' = [follower EXCEPT ![at] =
            [Seen(@, p) EXCEPT !.error = "other", !.mirroring = FALSE]]
      BY <1>5 DEF FollowerTrips
    <2> DEFINE s == Seen(follower[at], p)
               f == [s EXCEPT !.error = "other", !.mirroring = FALSE]
    <2>2. follower' = [follower EXCEPT ![at] = f]
      BY <2>1
    <2>3. s \in Follower /\ Proper(s)
      BY <1>2
    <2> HIDE DEF s
    <2>4. f \in Follower /\ ~f.mirroring /\ Proper(f)
      BY <1>1, <2>3, FollowerEnds
    <2>5. /\ torque2' \in [Servos -> BOOLEAN]
          /\ \A i \in Servos : torque2'[i] => torque2[i]
      BY <1>1, <1>5, WroteType DEF FollowerTrips
    <2>6. heard2' = heard2 \union {at} /\ tripped' = tripped \union {at}
      BY <1>5 DEF FollowerTrips
    <2> QED
      BY <2>2, <2>4, <2>5, <2>6 DEF Answered
  <1>6. CASE MirrorAnswers
    <2>1. PICK p \in Positions : follower' = [follower EXCEPT ![at] =
            [Seen(@, p) EXCEPT !.error = ""]]
      BY <1>6 DEF MirrorAnswers
    <2> DEFINE s == Seen(follower[at], p)
               f == [s EXCEPT !.error = ""]
    <2>2. follower' = [follower EXCEPT ![at] = f]
      BY <2>1
    <2>3. s \in Follower /\ Proper(s)
      BY <1>2
    <2> HIDE DEF s
    <2>4. f \in Follower /\ Proper(f)
      BY <2>3, FollowerError
    <2>5. /\ follower[at].mirroring /\ tripped' = tripped
          /\ heard2' = heard2 \union {at}
          /\ torque2' \in Wrote(torque2, at, TRUE) \/ torque2' = torque2
      BY <1>6 DEF MirrorAnswers
    <2>6. /\ torque2' \in [Servos -> BOOLEAN]
          /\ \A i \in Servos \ {at} : torque2'[i] = torque2[i]
      BY <1>1, <2>5 DEF Wrote
    <2> QED
      BY <2>2, <2>4, <2>5, <2>6 DEF Answered
  <1> QED
    BY <1>3, <1>4, <1>5, <1>6 DEF ReadFollower

LEMMA FollowDoes ==
  ASSUME TypeOK, Follow
  PROVE  /\ \E f \in Follower :
              /\ follower' = [follower EXCEPT ![at] = f]
              /\ f = follower[at] \/ (f.error # "" /\ ~f.mirroring)
         /\ \/ sent' = sent
            \/ /\ Follows(at)
               /\ \E p \in Scaled(leader[at], follower[at]) :
                    sent' = [sent EXCEPT ![at] = p]
  <1>1. at \in Servos /\ follower[at] \in Follower
    BY DEF TypeOK, Follow
  <1>2. \/ sent' = sent
        \/ /\ Follows(at)
           /\ \E p \in Scaled(leader[at], follower[at]) :
                sent' = [sent EXCEPT ![at] = p]
    BY DEF Follow, Send
  <1>3. CASE follower' = follower
    <2>1. follower' = [follower EXCEPT ![at] = follower[at]]
      BY <1>1, <1>3 DEF TypeOK
    <2> QED
      BY <1>1, <1>2, <2>1
  <1>4. ASSUME NEW e \in Faults,
               follower' = [follower EXCEPT ![at].error = e,
                                            ![at].mirroring = FALSE]
        PROVE  \E f \in Follower :
                 /\ follower' = [follower EXCEPT ![at] = f]
                 /\ f.error # "" /\ ~f.mirroring
    <2> DEFINE f == [follower[at] EXCEPT !.error = e, !.mirroring = FALSE]
    <2>1. f \in Follower /\ f.error = e /\ ~f.mirroring /\ e # ""
      BY <1>1, FollowerEnds DEF Faults
    <2>2. follower' = [follower EXCEPT ![at] = f]
      BY <1>1, <1>4 DEF TypeOK
    <2> QED
      BY <2>1, <2>2
  <1> QED
    BY <1>2, <1>3, <1>4 DEF Follow

-----------------------------------------------------------------------------
(* Types.                                                                  *)

LEMMA FreshType ==
  /\ FreshLeader \in [Servos -> Leader]
  /\ FreshFollower \in [Servos -> Follower]
  /\ Nothing \in [Servos -> Positions \union {NoGoal}]
  BY PositionRange DEF FreshLeader, FreshFollower, Nothing, Leader, Follower

LEMMA TypeInit == Init => TypeOK
  BY FreshType, ServoRange DEF Init, TypeOK

LEMMA LoadedType ==
  ASSUME TypeOK, NEW i \in Servos
  PROVE  /\ LoadedLeader(i) \in Leader
         /\ LoadedLeader(i).failed = leader[i].failed
         /\ Around(leader[i]) => Around(LoadedLeader(i))
         /\ LoadedFollower(i) \in Follower
         /\ LoadedFollower(i).error = follower[i].error
  <1>1. leader[i] \in Leader /\ follower[i] \in Follower
    BY DEF TypeOK
  <1>2. CASE file = NoFile
    BY <1>1, <1>2 DEF LoadedLeader, LoadedFollower
  <1>3. CASE file # NoFile
    <2>1. /\ file.leader[i] \in [min : Positions, max : Positions]
          /\ file.follower[i] \in
               [min : Positions, max : Positions, mirroring : BOOLEAN]
      BY <1>3 DEF TypeOK, Saved
    <2> DEFINE r == file.leader[i]
               m == IF leader[i].cur < r.max THEN leader[i].cur ELSE r.max
               c == IF m > r.min THEN m ELSE r.min
               t == file.follower[i]
    <2>2. LoadedLeader(i) = [leader[i] EXCEPT !.min = r.min, !.max = r.max, !.cur = c]
      BY <1>3 DEF LoadedLeader
    <2>3. /\ r.min \in Positions /\ r.max \in Positions /\ leader[i].cur \in Positions
      BY <1>1, <2>1 DEF Leader
    <2>4. c \in Positions /\ r.min <= c /\ (c <= r.max \/ c = r.min)
      BY <2>3, PositionAssumption DEF Positions
    <2>5. /\ LoadedFollower(i) = [follower[i] EXCEPT !.min = t.min, !.max = t.max,
                                                     !.mirroring = t.mirroring]
          /\ t.min \in Positions /\ t.max \in Positions /\ t.mirroring \in BOOLEAN
      BY <1>3, <2>1 DEF LoadedFollower
    <2> HIDE DEF c, r, t
    <2>6. /\ LoadedFollower(i) \in Follower
          /\ LoadedFollower(i).error = follower[i].error
      BY <1>1, <2>5 DEF Follower
    <2> QED
      BY <1>1, <2>2, <2>3, <2>4, <2>6 DEF Leader, Around
  <1> QED
    BY <1>2, <1>3

LEMMA TypeStep == TypeOK /\ [Next]_vars => TypeOK'
  <1> SUFFICES ASSUME TypeOK, [Next]_vars PROVE TypeOK'
    OBVIOUS
  <1> USE DEF TypeOK, readings, torques, heard
  <1>1. CASE ReadLeader
    <2>1. /\ leader' \in [Servos -> Leader] /\ heard1' \in SUBSET Servos
          /\ torque1' \in [Servos -> BOOLEAN]
      BY <1>1, ReadLeaderDoes DEF ReadLeader
    <2>2. at' \in 1..N+1
      BY <1>1, ServoRange DEF ReadLeader
    <2> QED
      BY <1>1, <2>1, <2>2 DEF ReadLeader
  <1>2. CASE ReadFollower
    <2>1. /\ follower' \in [Servos -> Follower] /\ heard2' \in SUBSET Servos
          /\ torque2' \in [Servos -> BOOLEAN] /\ tripped' \in SUBSET Servos
      <3>1. PICK f \in Follower :
              /\ follower' = [follower EXCEPT ![at] = f]
              /\ Answered(f) \/ Missed(f)
              /\ tripped' = tripped \/ (tripped' = tripped \union {at} /\ ~f.mirroring)
              /\ torque2' \in [Servos -> BOOLEAN]
        BY <1>2, ReadFollowerDoes
      <3> QED
        BY <1>2, <3>1 DEF ReadFollower, Answered, Missed
    <2>2. at' \in 1..N+1
      BY <1>2, ServoRange DEF ReadFollower
    <2> QED
      BY <1>2, <2>1, <2>2 DEF ReadFollower
  <1>3. CASE Advance
    BY <1>3, FreshType, ServoRange DEF Advance
  <1>4. CASE NoKey
    BY <1>4 DEF NoKey, Key
  <1>5. CASE ToggleProtection
    BY <1>5 DEF ToggleProtection, Key
  <1>6. CASE Save
    <2>1. file' \in Saved \union {NoFile}
      <3>1. /\ \A i \in Servos : leader[i].min \in Positions /\ leader[i].max \in Positions
            /\ \A i \in Servos : /\ follower[i].min \in Positions
                                 /\ follower[i].max \in Positions
                                 /\ follower[i].mirroring \in BOOLEAN
        BY DEF Leader, Follower
      <3> DEFINE L == [i \in Servos |-> [min |-> leader[i].min, max |-> leader[i].max]]
                 F == [i \in Servos |-> [min |-> follower[i].min,
                                        max |-> follower[i].max,
                                        mirroring |-> follower[i].mirroring]]
      <3>2. L \in [Servos -> [min : Positions, max : Positions]]
        BY <3>1
      <3>3. F \in [Servos -> [min : Positions, max : Positions, mirroring : BOOLEAN]]
        BY <3>1
      <3>4. file' = [leader |-> L, follower |-> F] \/ file' \in {file, NoFile}
        BY <1>6 DEF Save
      <3> HIDE DEF L, F
      <3>5. [leader |-> L, follower |-> F] \in Saved
        BY <3>2, <3>3 DEF Saved
      <3> QED
        BY <3>4, <3>5
    <2> QED
      BY <1>6, <2>1 DEF Save, Key
  <1>7. CASE Load
    <2>1. PICK refused, lost \in SUBSET Servos :
            /\ follower' = [i \in Servos |->
                 IF i \in refused
                 THEN [LoadedFollower(i) EXCEPT !.error = "other",
                                                !.mirroring = FALSE]
                 ELSE LoadedFollower(i)]
            /\ torque2' = [i \in Servos |->
                 IF i \in refused \union lost THEN torque2[i]
                                              ELSE LoadedFollower(i).mirroring]
      BY <1>7 DEF Load
    <2>2. \A i \in Servos : LoadedLeader(i) \in Leader /\ LoadedFollower(i) \in Follower
      BY LoadedType
    <2>3. \A f \in Follower : [f EXCEPT !.error = "other", !.mirroring = FALSE] \in Follower
      BY FollowerEnds DEF Faults
    <2>4. follower' \in [Servos -> Follower]
      BY <2>1, <2>2, <2>3
    <2>5. leader' \in [Servos -> Leader]
      BY <1>7, <2>2 DEF Load
    <2>6. torque2' \in [Servos -> BOOLEAN]
      <3>1. \A f \in Follower : f.mirroring \in BOOLEAN
        BY DEF Follower
      <3> QED
        BY <2>1, <2>2, <3>1
    <2> QED
      BY <1>7, <2>4, <2>5, <2>6 DEF Load
  <1>8. ASSUME NEW i \in Servos, ToggleMirroring(i) PROVE TypeOK'
    <2>1. follower[i] \in Follower /\ (~follower[i].mirroring) \in BOOLEAN
      BY DEF Follower
    <2>2. [follower[i] EXCEPT !.mirroring = ~follower[i].mirroring] \in Follower
      BY <2>1, FollowerMirrors
    <2>3. Wrote(torque2, i, ~follower[i].mirroring) \subseteq [Servos -> BOOLEAN]
      BY <2>1, WroteType
    <2>4. /\ follower' \in [Servos -> Follower]
          /\ torque2' \in [Servos -> BOOLEAN]
      BY <1>8, <2>2, <2>3 DEF ToggleMirroring
    <2> QED
      BY <1>8, <2>4 DEF ToggleMirroring, Key
  <1>9. CASE Follow
    <2>1. follower' \in [Servos -> Follower]
      BY <1>9, FollowDoes DEF Follow
    <2>2. sent' \in [Servos -> Positions \union {NoGoal}]
      <3>1. leader[at] \in Leader /\ follower[at] \in Follower
        BY <1>9 DEF Follow
      <3>2. Scaled(leader[at], follower[at]) \subseteq Positions
        BY <3>1, ScaledType
      <3> QED
        BY <1>9, <3>2, FollowDoes
    <2>3. at' \in 1..N+1
      BY <1>9, ServoRange DEF Follow
    <2> QED
      BY <1>9, <2>1, <2>2, <2>3 DEF Follow
  <1>10. CASE Shutdown
    BY <1>10 DEF Shutdown
  <1>11. CASE SwitchOff
    <2>1. /\ torque1' \in [Servos -> BOOLEAN]
          /\ torque2' \in [Servos -> BOOLEAN]
      BY <1>11 DEF SwitchOff
    <2> QED
      BY <1>11, <2>1 DEF SwitchOff
  <1>12. CASE Crash
    BY <1>12 DEF Crash
  <1>13. CASE Start
    BY <1>13, FreshType, ServoRange DEF Start
  <1>14. CASE UNCHANGED vars
    BY <1>14 DEF vars
  <1> QED
    BY <1>1, <1>2, <1>3, <1>4, <1>5, <1>6, <1>7, <1>8, <1>9, <1>10, <1>11,
       <1>12, <1>13, <1>14 DEF Next, Reading, Keys

\* The variables have their types.
THEOREM TypeCorrect == Spec => []TypeOK
  BY TypeInit, TypeStep, PTL DEF Spec

-----------------------------------------------------------------------------
(* The rounds.                                                             *)

LEMMA RestInit == Init => LeaderInv /\ FollowerInv /\ FileInv /\ TrippedInv
  <1> SUFFICES ASSUME Init PROVE LeaderInv /\ FollowerInv /\ FileInv /\ TrippedInv
    OBVIOUS
  <1>1. \A i \in Servos : ~(i < at)
    BY DEF Init, Servos
  <1> QED
    BY <1>1 DEF Init, LeaderInv, FollowerInv, FileInv, TrippedInv, LeaderRead,
                FollowerRead

LEMMA LeaderStep == TypeOK /\ LeaderInv /\ [Next]_vars => LeaderInv'
  <1> SUFFICES ASSUME TypeOK, LeaderInv, [Next]_vars,
                      NEW i \in Servos
               PROVE  /\ LeaderRead(i)' /\ ~leader'[i].failed => i \in heard1'
                      /\ i \in heard1' => Around(leader'[i])
                      /\ pc' = "leaders" /\ i \in heard1' => i < at'
    BY DEF LeaderInv
  <1> USE DEF readings, torques, heard
  <1>0. /\ LeaderRead(i) /\ ~leader[i].failed => i \in heard1
        /\ i \in heard1 => Around(leader[i])
        /\ pc = "leaders" /\ i \in heard1 => i < at
    BY DEF LeaderInv
  <1>a. i \in Int /\ at \in Int /\ (i < at + 1 <=> i < at \/ i = at) /\ ~(i < 1)
        /\ (at = N + 1 => i < at) /\ N \in Nat
    BY ArmAssumption DEF TypeOK, Servos
  <1>1. CASE ReadLeader
    <2>1. PICK l \in Leader :
            /\ leader' = [leader EXCEPT ![at] = l]
            /\ \/ heard1' = heard1 \union {at} /\ Around(l)
               \/ heard1' = heard1 /\ l.failed /\ (Around(leader[at]) => Around(l))
      BY <1>1, ReadLeaderDoes
    <2>2. pc = "leaders" /\ pc' = "leaders" /\ at' = at + 1
      BY <1>1 DEF ReadLeader
    <2>3. CASE i = at
      <3>1. leader'[i] = l
        BY <2>1, <2>3 DEF TypeOK
      <3> QED
        BY <1>0, <1>a, <2>1, <2>2, <2>3, <3>1 DEF LeaderRead
    <2>4. CASE i # at
      <3>1. leader'[i] = leader[i] /\ (i \in heard1' <=> i \in heard1)
        BY <2>1, <2>4 DEF TypeOK
      <3> QED
        BY <1>0, <1>a, <2>2, <2>4, <3>1 DEF LeaderRead
    <2> QED
      BY <2>3, <2>4
  <1>2. CASE ReadFollower
    BY <1>0, <1>2 DEF ReadFollower, LeaderRead
  <1>3. CASE Advance
    BY <1>0, <1>3, <1>a DEF Advance, LeaderRead
  <1>4. CASE NoKey \/ ToggleProtection \/ Save
    BY <1>0, <1>4 DEF NoKey, ToggleProtection, Save, Key, LeaderRead
  <1>5. CASE Load
    <2>1. leader'[i] = LoadedLeader(i)
      BY <1>5 DEF Load
    <2> QED
      BY <1>0, <1>5, <2>1, LoadedType DEF Load, LeaderRead
  <1>6. CASE \E k \in Servos : ToggleMirroring(k)
    BY <1>0, <1>6 DEF ToggleMirroring, Key, LeaderRead
  <1>7. CASE Follow
    BY <1>0, <1>7 DEF Follow, LeaderRead
  <1>8. CASE Shutdown
    BY <1>0, <1>8 DEF Shutdown, LeaderRead
  <1>9. CASE SwitchOff
    BY <1>0, <1>9 DEF SwitchOff, LeaderRead
  <1>10. CASE Crash
    BY <1>0, <1>10 DEF Crash, LeaderRead
  <1>11. CASE Start
    BY <1>a, <1>11 DEF Start, LeaderRead
  <1>12. CASE UNCHANGED vars
    BY <1>0, <1>12 DEF vars, LeaderRead
  <1> QED
    BY <1>1, <1>2, <1>3, <1>4, <1>5, <1>6, <1>7, <1>8, <1>9, <1>10, <1>11,
       <1>12 DEF Next, Reading, Keys

LEMMA FollowerStep ==
  TypeOK /\ FollowerInv /\ FileInv /\ [Next]_vars => FollowerInv'
  <1> SUFFICES ASSUME TypeOK, FollowerInv, FileInv, [Next]_vars
               PROVE  FollowerInv'
    OBVIOUS
  <1> USE DEF readings, torques, heard
  <1>a. /\ at \in Int /\ N \in Nat
        /\ \A i \in Servos : /\ i \in Int /\ ~(i < 1) /\ (at = N + 1 => i < at)
                             /\ (i < at + 1 <=> i < at \/ i = at)
    BY ArmAssumption DEF TypeOK, Servos
  <1>1. CASE ReadLeader
    BY <1>1 DEF ReadLeader, FollowerInv, FollowerRead
  <1>2. CASE ReadFollower
    <2>1. PICK f \in Follower :
            /\ follower' = [follower EXCEPT ![at] = f]
            /\ Answered(f) \/ Missed(f)
            /\ f.mirroring => follower[at].mirroring
      BY <1>2, ReadFollowerDoes
    <2>2. pc = "followers" /\ pc' = "followers" /\ at' = at + 1 /\ at \in Servos
      BY <1>2 DEF ReadFollower
    <2>3. follower'[at] = f
      BY <2>1, <2>2 DEF TypeOK
    <2>4. at \notin heard2
      <3>1. at \in heard2 => at < at
        BY <2>2 DEF FollowerInv
      <3> QED
        BY <1>a, <3>1
    <2>5. \A i \in Servos \ {at} : /\ follower'[i] = follower[i]
                                   /\ i \in heard2' <=> i \in heard2
      BY <2>1 DEF TypeOK, Answered, Missed
    <2>6. ASSUME NEW i \in Servos, i # at
          PROVE  /\ FollowerRead(i)' /\ follower'[i].error = "" => i \in heard2'
                 /\ i \in heard2' => i < at' /\ Proper(follower'[i])
                 /\ i < at' /\ follower'[i].mirroring => i \in heard2'
      BY <1>a, <2>2, <2>5, <2>6 DEF FollowerInv, FollowerRead
    <2>7. /\ f.error = "" => at \in heard2'
          /\ at < at'
          /\ at \in heard2' => Proper(f)
          /\ f.mirroring => at \in heard2'
      BY <1>a, <2>1, <2>2, <2>4 DEF Answered, Missed
    <2> QED
      BY <2>2, <2>3, <2>6, <2>7 DEF FollowerInv, FollowerRead
  <1>3. CASE Advance
    BY <1>3, <1>a DEF Advance, FollowerInv, FollowerRead
  <1>4. CASE NoKey \/ ToggleProtection \/ Save
    BY <1>4 DEF NoKey, ToggleProtection, Save, Key, FollowerInv, FollowerRead
  <1>5. CASE Load
    <2>1. PICK refused \in SUBSET Servos :
            follower' = [i \in Servos |->
              IF i \in refused
              THEN [LoadedFollower(i) EXCEPT !.error = "other",
                                             !.mirroring = FALSE]
              ELSE LoadedFollower(i)]
      BY <1>5 DEF Load
    <2>2. pc = "keys" /\ pc' = "follow" /\ heard2' = heard2
      BY <1>5 DEF Load
    <2>3. ASSUME NEW i \in Servos
          PROVE  /\ follower'[i].error = "" => i \in heard2'
                 /\ i \in heard2' /\ follower'[i].mirroring => Proper(follower'[i])
      <3>1. /\ LoadedFollower(i) \in Follower
            /\ LoadedFollower(i).error = follower[i].error
        BY LoadedType
      <3>2. follower[i].error = "" => i \in heard2
        BY <2>2 DEF FollowerInv, FollowerRead
      <3>3. CASE i \in refused
        <4>1. follower'[i] = [LoadedFollower(i) EXCEPT !.error = "other",
                                                       !.mirroring = FALSE]
          BY <2>1, <3>3
        <4>2. follower'[i].error = "other" /\ ~follower'[i].mirroring
          BY <3>1, <4>1, FollowerEnds DEF Faults
        <4> QED
          BY <4>2
      <3>4. CASE i \notin refused
        <4>1. follower'[i] = LoadedFollower(i)
          BY <2>1, <3>4
        <4>2. i \in heard2 => Proper(follower[i])
          BY <2>2 DEF FollowerInv
        <4>3. CASE file = NoFile
          BY <2>2, <3>2, <4>1, <4>2, <4>3 DEF LoadedFollower
        <4>4. CASE file # NoFile
          <5> DEFINE t == file.follower[i]
          <5>1. t.mirroring => Proper(t)
            BY <4>4 DEF FileInv
          <5>2. LoadedFollower(i) = [follower[i] EXCEPT !.min = t.min, !.max = t.max,
                                                        !.mirroring = t.mirroring]
            BY <4>4 DEF LoadedFollower
          <5>3. follower[i] \in Follower
            BY DEF TypeOK
          <5> HIDE DEF t
          <5>4. LoadedFollower(i).mirroring => Proper(LoadedFollower(i))
            BY <5>1, <5>2, <5>3 DEF Proper, Follower
          <5> QED
            BY <2>2, <3>1, <3>2, <4>1, <5>4
        <4> QED
          BY <4>3, <4>4
      <3> QED
        BY <3>3, <3>4
    <2> QED
      BY <2>2, <2>3 DEF FollowerInv, FollowerRead
  <1>6. ASSUME NEW k \in Servos, ToggleMirroring(k) PROVE FollowerInv'
    <2>1. /\ follower[k] \in Follower /\ (~follower[k].mirroring) \in BOOLEAN
      BY DEF TypeOK, Follower
    <2>2. \A i \in Servos : /\ follower'[i].error = follower[i].error
                            /\ Proper(follower[i]) => Proper(follower'[i])
      <3>1. \/ follower' = [follower EXCEPT ![k].mirroring = ~follower[k].mirroring]
            \/ follower' = follower
        BY <1>6 DEF ToggleMirroring
      <3>2. CASE follower' = [follower EXCEPT ![k].mirroring = ~follower[k].mirroring]
        <4>1. follower'[k] = [follower[k] EXCEPT !.mirroring = ~follower[k].mirroring]
          BY <3>2 DEF TypeOK
        <4>2. /\ follower'[k].error = follower[k].error
              /\ Proper(follower[k]) => Proper(follower'[k])
          BY <2>1, <4>1, FollowerMirrors
        <4>3. \A i \in Servos \ {k} : follower'[i] = follower[i]
          BY <3>2 DEF TypeOK
        <4> QED
          BY <4>2, <4>3
      <3> QED
        BY <3>1, <3>2
    <2> QED
      BY <1>6, <2>2 DEF ToggleMirroring, Key, FollowerInv, FollowerRead
  <1>7. CASE Follow
    <2>1. PICK f \in Follower :
            /\ follower' = [follower EXCEPT ![at] = f]
            /\ f = follower[at] \/ (f.error # "" /\ ~f.mirroring)
      BY <1>7, FollowDoes
    <2>2. pc = "follow" /\ pc' = "follow" /\ heard2' = heard2
      BY <1>7 DEF Follow
    <2>3. \A i \in Servos :
            \/ follower'[i] = follower[i]
            \/ follower'[i].error # "" /\ ~follower'[i].mirroring
      BY <2>1 DEF TypeOK
    <2> QED
      BY <2>2, <2>3 DEF FollowerInv, FollowerRead
  <1>8. CASE Shutdown
    BY <1>8 DEF Shutdown, FollowerInv, FollowerRead
  <1>9. CASE SwitchOff
    BY <1>9 DEF SwitchOff, FollowerInv, FollowerRead
  <1>10. CASE Crash
    BY <1>10 DEF Crash, FollowerInv, FollowerRead
  <1>11. CASE Start
    BY <1>a, <1>11 DEF Start, FollowerInv, FollowerRead
  <1>12. CASE UNCHANGED vars
    BY <1>12 DEF vars, FollowerInv, FollowerRead
  <1> QED
    BY <1>1, <1>2, <1>3, <1>4, <1>5, <1>6, <1>7, <1>8, <1>9, <1>10, <1>11,
       <1>12 DEF Next, Reading, Keys

LEMMA FileStep ==
  TypeOK /\ FollowerInv /\ FileInv /\ [Next]_vars => FileInv'
  <1> SUFFICES ASSUME TypeOK, FollowerInv, FileInv, [Next]_vars
               PROVE  FileInv'
    OBVIOUS
  <1>1. CASE Save
    <2>1. pc = "keys"
      BY <1>1 DEF Save, Key
    <2>2. \A i \in Servos : follower[i].mirroring => Proper(follower[i])
      BY <2>1 DEF FollowerInv
    <2>3. CASE file' = [leader |-> [i \in Servos |-> [min |-> leader[i].min,
                                                     max |-> leader[i].max]],
                        follower |-> [i \in Servos |->
                                        [min |-> follower[i].min,
                                         max |-> follower[i].max,
                                         mirroring |-> follower[i].mirroring]]]
      BY <2>2, <2>3 DEF FileInv, Proper
    <2>4. CASE file' \in {file, NoFile}
      BY <2>4 DEF FileInv
    <2> QED
      BY <1>1, <2>3, <2>4 DEF Save
  <1>2. CASE file' = file
    BY <1>2 DEF FileInv
  <1>3. [Next]_vars => Save \/ file' = file
    BY DEF Next, Reading, Keys, ReadLeader, ReadFollower, Advance, NoKey,
           ToggleProtection, ToggleMirroring, Load, Follow, Shutdown,
           SwitchOff, Crash, Start, vars
  <1> QED
    BY <1>1, <1>2, <1>3

LEMMA TrippedStep == TypeOK /\ TrippedInv /\ [Next]_vars => TrippedInv'
  <1> SUFFICES ASSUME TypeOK, TrippedInv, [Next]_vars PROVE TrippedInv'
    OBVIOUS
  <1> USE DEF readings, torques, heard
  <1>1. CASE ReadFollower
    <2>1. PICK f \in Follower :
            /\ follower' = [follower EXCEPT ![at] = f]
            /\ f.mirroring => follower[at].mirroring
            /\ tripped' = tripped \/ (tripped' = tripped \union {at} /\ ~f.mirroring)
      BY <1>1, ReadFollowerDoes
    <2>2. at \in Servos /\ tripped \subseteq Servos
      BY <1>1 DEF ReadFollower, TypeOK
    <2> QED
      BY <2>1, <2>2 DEF TrippedInv, TypeOK
  <1>2. CASE Load
    BY <1>2 DEF Load, TrippedInv
  <1>3. ASSUME NEW k \in Servos, ToggleMirroring(k) PROVE TrippedInv'
    BY <1>3 DEF ToggleMirroring, TrippedInv, TypeOK
  <1>4. CASE Follow
    <2>1. PICK f \in Follower :
            /\ follower' = [follower EXCEPT ![at] = f]
            /\ f = follower[at] \/ (f.error # "" /\ ~f.mirroring)
      BY <1>4, FollowDoes
    <2> QED
      BY <1>4, <2>1 DEF Follow, TrippedInv, TypeOK
  <1>5. CASE Start
    BY <1>5 DEF Start, TrippedInv
  <1>6. CASE follower' = follower /\ tripped' = tripped
    BY <1>6 DEF TrippedInv
  <1>7. ReadLeader \/ Advance \/ NoKey \/ ToggleProtection \/ Save \/ Shutdown
        \/ SwitchOff \/ Crash \/ UNCHANGED vars
          => follower' = follower /\ tripped' = tripped
    BY DEF ReadLeader, Advance, NoKey, ToggleProtection, Save, Shutdown,
           SwitchOff, Crash, vars
  <1> QED
    BY <1>1, <1>2, <1>3, <1>4, <1>5, <1>6, <1>7 DEF Next, Reading, Keys

LEMMA Invariance == Spec => []IInv
  <1>1. Init => IInv
    BY TypeInit, RestInit DEF IInv
  <1>2. IInv /\ [Next]_vars => IInv'
    BY TypeStep, LeaderStep, FollowerStep, FileStep, TrippedStep DEF IInv
  <1> QED
    BY <1>1, <1>2, PTL DEF Spec

-----------------------------------------------------------------------------
(* What the rounds guarantee.                                              *)

\* Only Follow sends a follower a new position, and only its scaled one.
LEMMA SentByFollow ==
  ASSUME IInv, [Next]_vars, NEW i \in Servos, sent'[i] \notin {sent[i], NoGoal}
  PROVE  /\ pc = "follow" /\ i = at /\ Follows(i)
         /\ sent'[i] \in Scaled(leader[i], follower[i])
  <1> USE DEF IInv
  <1>1. Follow
    <2>1. ReadLeader \/ ReadFollower \/ Keys \/ Shutdown
          \/ SwitchOff \/ Crash \/ UNCHANGED vars => sent' = sent
      BY DEF Keys, Key, ReadLeader, ReadFollower, NoKey, ToggleProtection,
             ToggleMirroring, Save, Load, Shutdown, SwitchOff, Crash, vars
    <2>2. Advance \/ Start => sent' = sent \/ sent' = Nothing
      BY DEF Advance, Start
    <2> QED
      BY <2>1, <2>2 DEF Next, Reading, Nothing
  <1>2. PICK p \in Scaled(leader[at], follower[at]) :
          Follows(at) /\ sent' = [sent EXCEPT ![at] = p]
    BY <1>1, FollowDoes
  <1> QED
    BY <1>1, <1>2 DEF TypeOK, Follow

\* A follower is only sent a position of a leader that answered in the same
\* round, when it answered itself, and inside its known range.
THEOREM FollowersFollowSafely == Spec => FollowsSafely
  <1> DEFINE P == \A i \in Servos :
                    sent'[i] \notin {sent[i], NoGoal} =>
                      /\ i \in heard1 \intersect heard2
                      /\ sent'[i] \in follower[i].min..follower[i].max
  <1>1. IInv /\ [Next]_vars => P
    <2> SUFFICES ASSUME IInv, [Next]_vars, NEW i \in Servos,
                        sent'[i] \notin {sent[i], NoGoal}
                 PROVE  /\ i \in heard1 \intersect heard2
                        /\ sent'[i] \in follower[i].min..follower[i].max
      OBVIOUS
    <2> USE DEF IInv
    <2>1. /\ pc = "follow" /\ i = at /\ Follows(i)
          /\ sent'[i] \in Scaled(leader[i], follower[i])
      BY SentByFollow
    <2>2. i \in heard1 /\ i \in heard2
      BY <2>1 DEF Follows, LeaderInv, FollowerInv, LeaderRead, FollowerRead
    <2>3. Around(leader[i]) /\ Proper(follower[i])
      BY <2>1, <2>2 DEF Follows, LeaderInv, FollowerInv
    <2>4. leader[i] \in Leader /\ follower[i] \in Follower
      BY DEF TypeOK
    <2> QED
      BY <2>1, <2>2, <2>3, <2>4, ScaledRange
  <1>2. IInv /\ [Next]_vars => [P]_vars
    BY <1>1
  <1> QED
    BY <1>2, Invariance, PTL DEF Spec, FollowsSafely

\* What the torque protection switched off is neither driven nor switched
\* on until the user asks for it.
THEOREM TrippedStaysOff == Spec => TrippedUntilAsked
  <1> DEFINE P == \A i \in tripped \intersect tripped' :
                    /\ sent'[i] \in {sent[i], NoGoal}
                    /\ torque2'[i] => torque2[i]
  <1>1. IInv /\ [Next]_vars => P
    <2> SUFFICES ASSUME IInv, [Next]_vars, NEW i \in tripped \intersect tripped'
                 PROVE  /\ sent'[i] \in {sent[i], NoGoal}
                        /\ torque2'[i] => torque2[i]
      OBVIOUS
    <2> USE DEF IInv
    <2>1. i \in Servos /\ ~follower[i].mirroring
      BY DEF TypeOK, TrippedInv
    <2>2. CASE Follow
      <3>1. \/ sent' = sent
            \/ Follows(at) /\ \E p : sent' = [sent EXCEPT ![at] = p]
        BY <2>2, FollowDoes
      <3>2. sent'[i] = sent[i]
        BY <2>1, <3>1 DEF Follows, TypeOK
      <3> QED
        BY <2>2, <3>2 DEF Follow, torques
    <2>3. CASE ReadFollower
      <3>1. torque2'[i] => torque2[i]
        BY <2>1, <2>3, ReadFollowerDoes
      <3> QED
        BY <2>3, <3>1 DEF ReadFollower
    <2>4. CASE Advance \/ Start
      BY <2>1, <2>4 DEF Advance, Start, Nothing, torques, readings
    <2>5. ASSUME NEW k \in Servos, ToggleMirroring(k)
          PROVE  sent'[i] = sent[i] /\ (torque2'[i] => torque2[i])
      <3>1. i # k /\ sent' = sent
        BY <2>5 DEF ToggleMirroring, Key
      <3>2. torque2'[i] = torque2[i]
        BY <2>1, <2>5, <3>1 DEF ToggleMirroring, Wrote, TypeOK
      <3> QED
        BY <3>1, <3>2
    <2>6. CASE SwitchOff
      BY <2>1, <2>6 DEF SwitchOff
    <2>7. ~Load
      BY DEF Load
    <2>8. ReadLeader \/ NoKey \/ ToggleProtection \/ Save \/ Shutdown
          \/ Crash \/ UNCHANGED vars => sent' = sent /\ torque2' = torque2
      BY DEF ReadLeader, NoKey, ToggleProtection, Save, Key, Shutdown, Crash,
             vars, torques
    <2> QED
      BY <2>2, <2>3, <2>4, <2>5, <2>6, <2>7, <2>8 DEF Next, Reading, Keys
  <1>2. IInv /\ [Next]_vars => [P]_vars
    BY <1>1
  <1> QED
    BY <1>2, Invariance, PTL DEF Spec, TrippedUntilAsked

-----------------------------------------------------------------------------
(* How the followers move.                                                 *)

\* Position p is the place in the follower's range that the leader has in
\* its own, or at most one tick below it; the lower end if that range is a
\* single position or, after a load, reversed.
InProportion(l, f, p) ==
  LET d == l.max - l.min
      n == (l.cur - l.min) * (f.max - f.min)
  IN  IF d > 0 THEN n - d <= d * (p - f.min) /\ d * (p - f.min) <= n
               ELSE p = f.min

\* What a follower is sent mirrors where its leader is.
FollowsInProportion ==
  [][\A i \in Servos :
       sent'[i] \notin {sent[i], NoGoal} =>
         InProportion(leader[i], follower[i], sent'[i])]_vars

\* A quotient is the exact one, rounded down by one unit at most.
LEMMA QuotientClose ==
  ASSUME NEW n \in Nat, NEW d \in Nat, d > 0, NEW q \in Quotients(n, d)
  PROVE  q \in Nat /\ d * q <= n /\ n - d <= d * q
  <1>1. ASSUME NEW x \in Nat
        PROVE  /\ x \div d \in Nat /\ d * (x \div d) <= x
               /\ x + 1 <= d * (x \div d) + d
    <2>1. x \div d \in Nat /\ x % d \in 0..(d - 1)
          /\ x = d * (x \div d) + (x % d)
      OBVIOUS
    <2> DEFINE y == d * (x \div d)
    <2>2. y \in Nat
      BY <2>1
    <2> HIDE DEF y
    <2>3. x = y + (x % d)
      BY <2>1 DEF y
    <2>4. y <= x /\ x + 1 <= y + d
      BY <2>1, <2>2, <2>3
    <2> QED
      BY <2>1, <2>4 DEF y
  <1>2. q = n \div d \/ (n > 0 /\ q = (n - 1) \div d)
    BY DEF Quotients
  <1>3. CASE q = n \div d
    <2>1. q \in Nat /\ d * q <= n /\ n + 1 <= d * q + d
      BY <1>1, <1>3
    <2>2. d * q \in Int
      BY <2>1
    <2> QED
      BY <2>1, <2>2
  <1>4. CASE n > 0 /\ q = (n - 1) \div d
    <2>1. n - 1 \in Nat
      BY <1>4
    <2>2. q \in Nat /\ d * q <= n - 1 /\ n - 1 + 1 <= d * q + d
      BY <1>1, <1>4, <2>1
    <2>3. d * q \in Int
      BY <2>2
    <2> QED
      BY <2>2, <2>3
  <1> QED
    BY <1>2, <1>3, <1>4

LEMMA ScaledProportional ==
  ASSUME NEW l \in Leader, NEW f \in Follower, Around(l), Proper(f),
         NEW p \in Scaled(l, f)
  PROVE  InProportion(l, f, p)
  <1>1. /\ l.min \in Nat /\ l.max \in Nat /\ l.cur \in Nat
        /\ f.min \in Nat /\ f.max \in Nat /\ f.max <= MaxPosition
        /\ f.min <= f.max /\ l.min <= l.cur
        /\ l.cur <= l.max \/ l.cur = l.min
    <2>1. /\ l.min \in Positions /\ l.max \in Positions /\ l.cur \in Positions
          /\ f.min \in Positions /\ f.max \in Positions
          /\ f.min <= f.max /\ l.min <= l.cur
          /\ l.cur <= l.max \/ l.cur = l.min
      BY DEF Leader, Follower, Around, Proper
    <2> QED
      BY <2>1, PositionAssumption DEF Positions
  <1> DEFINE d == l.max - l.min
             b == f.max - f.min
             n == (l.cur - l.min) * b
  <1>2. p \in f.min..f.max
    BY ScaledRange
  <1>3. CASE d = 0
    BY <1>1, <1>3 DEF Scaled, InProportion
  <1>4. CASE d < 0
    <2>1. n = 0
      BY <1>1, <1>4
    <2> HIDE DEF n
    <2>2. Quotients(0, d) = {0}
      BY <1>1, <1>4 DEF Quotients
    <2>3. Scaled(l, f) = {Clamp(f.min + q) : q \in {0}}
      BY <1>1, <1>4, <2>1, <2>2 DEF Scaled, n
    <2>4. p = f.min
      BY <1>1, <2>3, PositionAssumption DEF Clamp
    <2> QED
      BY <1>1, <1>4, <2>4 DEF InProportion
  <1>5. CASE d > 0
    <2>1. d \in Nat /\ b \in Nat /\ l.cur - l.min \in Nat
          /\ l.cur - l.min <= d
      BY <1>1, <1>5
    <2>2. n \in Nat
      BY <2>1
    <2>3. PICK q \in Quotients(n, d) : p = Clamp(f.min + q)
      BY <1>1, <1>5 DEF Scaled
    <2>4. q \in Nat /\ q <= b
      BY <1>5, <2>1, QuotientBound
    <2>5. p = f.min + q
      BY <1>1, <2>3, <2>4, PositionAssumption DEF Clamp
    <2>6. d * q <= n /\ n - d <= d * q
      BY <1>5, <2>1, <2>2, QuotientClose
    <2>7. p - f.min = q
      BY <1>1, <2>4, <2>5
    <2> QED
      BY <1>5, <2>6, <2>7 DEF InProportion
  <1> QED
    BY <1>1, <1>3, <1>4, <1>5

\* A follower is only ever sent the place of its leader, in the proportion of
\* the two ranges and at most one tick below, whatever was read, pressed or
\* loaded before and whatever the floating point does.
THEOREM FollowersFollowInProportion == Spec => FollowsInProportion
  <1> DEFINE P == \A i \in Servos :
                    sent'[i] \notin {sent[i], NoGoal} =>
                      InProportion(leader[i], follower[i], sent'[i])
  <1>1. IInv /\ [Next]_vars => P
    <2> SUFFICES ASSUME IInv, [Next]_vars, NEW i \in Servos,
                        sent'[i] \notin {sent[i], NoGoal}
                 PROVE  InProportion(leader[i], follower[i], sent'[i])
      OBVIOUS
    <2> USE DEF IInv
    <2>1. /\ pc = "follow" /\ i = at /\ Follows(i)
          /\ sent'[i] \in Scaled(leader[i], follower[i])
      BY SentByFollow
    <2>2. i \in heard1 /\ i \in heard2
      BY <2>1 DEF Follows, LeaderInv, FollowerInv, LeaderRead, FollowerRead
    <2>3. Around(leader[i]) /\ Proper(follower[i])
      BY <2>1, <2>2 DEF Follows, LeaderInv, FollowerInv
    <2>4. leader[i] \in Leader /\ follower[i] \in Follower
      BY DEF TypeOK
    <2> QED
      BY <2>1, <2>3, <2>4, ScaledProportional
  <1>2. IInv /\ [Next]_vars => [P]_vars
    BY <1>1
  <1> QED
    BY <1>2, Invariance, PTL DEF Spec, FollowsInProportion

\* A leader that moves one way never drives its follower back by more than
\* the one tick the floating point may cost.
THEOREM ScalingKeepsOrder ==
  ASSUME NEW l \in Leader, NEW m \in Leader, NEW f \in Follower,
         Around(l), Around(m), Proper(f),
         l.min = m.min, l.max = m.max, l.cur <= m.cur,
         NEW p \in Scaled(l, f), NEW q \in Scaled(m, f)
  PROVE  p <= q + 1
  <1>1. /\ l.min \in Nat /\ l.max \in Nat /\ l.cur \in Nat /\ m.cur \in Nat
        /\ f.min \in Nat /\ f.max \in Nat /\ f.min <= f.max
        /\ l.min <= l.cur
    <2>1. /\ l.min \in Positions /\ l.max \in Positions /\ l.cur \in Positions
          /\ m.cur \in Positions
          /\ f.min \in Positions /\ f.max \in Positions
          /\ f.min <= f.max /\ l.min <= l.cur
      BY DEF Leader, Follower, Around, Proper
    <2> QED
      BY <2>1, PositionAssumption DEF Positions
  <1>2. p \in f.min..f.max /\ q \in f.min..f.max
    BY ScaledRange
  <1>3. InProportion(l, f, p) /\ InProportion(m, f, q)
    BY ScaledProportional
  <1> DEFINE d == l.max - l.min
             b == f.max - f.min
             x == p - f.min
             y == q - f.min
             n1 == (l.cur - l.min) * b
             n2 == (m.cur - l.min) * b
  <1>4. d \in Int /\ x \in Int /\ y \in Int /\ b \in Nat
    BY <1>1, <1>2
  <1>5. CASE d > 0
    <2>1. d * x <= n1 /\ n2 - d <= d * y
      BY <1>3, <1>5 DEF InProportion
    <2>2. n1 \in Int /\ n2 \in Int /\ n1 <= n2
      <3>1. l.cur - l.min \in Nat /\ m.cur - l.min \in Nat
            /\ l.cur - l.min <= m.cur - l.min
        BY <1>1
      <3> HIDE DEF b
      <3> QED
        BY <1>4, <3>1
    <2> HIDE DEF d, x, y, n1, n2
    <2>3. d * x \in Int /\ d * y \in Int /\ d * x <= d * y + d
      <3>1. d * x \in Int /\ d * y \in Int
        BY <1>4
      <3> QED
        BY <1>4, <2>1, <2>2, <3>1
    <2>4. ASSUME x >= y + 2 PROVE FALSE
      <3>1. d * x >= d * (y + 2)
        BY <1>4, <1>5, <2>4
      <3>2. d * (y + 2) = d * y + 2 * d
        BY <1>4
      <3> QED
        BY <1>4, <1>5, <2>3, <3>1, <3>2
    <2>5. x <= y + 1
      BY <1>4, <2>4
    <2> QED
      BY <1>1, <1>2, <2>5 DEF x, y
  <1>6. CASE ~(d > 0)
    BY <1>1, <1>3, <1>6 DEF InProportion
  <1> QED
    BY <1>5, <1>6
=============================================================================
