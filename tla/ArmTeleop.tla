----------------------------- MODULE ArmTeleop -----------------------------
(***************************************************************************)
(* Direct teleoperation of an arm: the servos of a follower arm are driven *)
(* to the positions of a leader arm, pair by pair, over two serial ports.  *)
(*                                                                         *)
(* Each round of the main loop reads every leader, reads every follower,   *)
(* handles a key and drives the followers that mirror; "at" is the servo   *)
(* the round has come to.  A signal only clears "running", at any moment.  *)
(*                                                                         *)
(* A write of a register may be lost, as its reply is not checked, and it  *)
(* throws only when the port refuses it.  A read throws when three tries   *)
(* find no valid reply, or one that reports errors of the servo.           *)
(***************************************************************************)
EXTENDS Integers

CONSTANTS
  N,              \* SERVO_COUNT
  MaxPosition,    \* MAX_POSITION
  NoFile,         \* the calibration file is absent, or empty
  NoGoal

ASSUME ArmAssumption == N \in Nat \ {0}
ASSUME PositionAssumption == MaxPosition \in Nat /\ NoGoal \notin Nat

VARIABLES
  pc, at, running,
  protection,     \* torque_protection
  leader,         \* arm1_data; failed: its error text is not empty
  follower,       \* arm2_data; error: what its error text contains
  torque1, torque2,   \* the TORQUE_ENABLE registers of both arms
  file,           \* arm_calibration.yaml
  sent,           \* the positions written in this round
  heard1, heard2, \* servos that answered in this round, history
  tripped         \* followers the protection switched off, history

readings == <<leader, follower>>
torques  == <<torque1, torque2>>
heard    == <<heard1, heard2>>
vars == <<pc, at, running, protection, readings, torques, file, sent, heard,
          tripped>>

Servos    == 1..N
Positions == 0..MaxPosition
Faults    == {"overload", "other"}
Leader   == [cur : Positions, min : Positions, max : Positions,
             failed : BOOLEAN]
Follower == [min : Positions, max : Positions, mirroring : BOOLEAN,
             error : Faults \union {""}]
Saved    == [leader : [Servos -> [min : Positions, max : Positions]],
             follower : [Servos -> [min : Positions, max : Positions,
                                    mirroring : BOOLEAN]]]

TypeOK ==
  /\ pc \in {"leaders", "followers", "keys", "follow", "off", "done"}
  /\ at \in 1..N+1
  /\ running \in BOOLEAN
  /\ protection \in BOOLEAN
  /\ leader \in [Servos -> Leader]
  /\ follower \in [Servos -> Follower]
  /\ torque1 \in [Servos -> BOOLEAN]
  /\ torque2 \in [Servos -> BOOLEAN]
  /\ file \in Saved \union {NoFile}
  /\ sent \in [Servos -> Positions \union {NoGoal}]
  /\ heard1 \in SUBSET Servos
  /\ heard2 \in SUBSET Servos
  /\ tripped \in SUBSET Servos

-----------------------------------------------------------------------------
\* The truncated quotient of two integers of which neither is negative, or
\* of their negations; in floating point it may come out one lower.
Quotients(a, d) ==
  LET n == IF d > 0 THEN a ELSE -a
      k == IF d > 0 THEN d ELSE -d
  IN  {n \div k} \union (IF n > 0 THEN {(n - 1) \div k} ELSE {})

Clamp(x) == IF x < 0 THEN 0 ELSE IF x > MaxPosition THEN MaxPosition ELSE x

\* scale_position of a leader's position, into its follower's range.
Scaled(l, f) ==
  IF l.max = l.min THEN {f.min}
  ELSE {Clamp(f.min + q) :
          q \in Quotients((l.cur - l.min) * (f.max - f.min), l.max - l.min)}

\* A servo's register after a write, which may be lost.
Wrote(reg, i, on) == {reg, [reg EXCEPT ![i] = on]}

\* The ranges seen so far, with one more position.
Seen(s, p) ==
  [s EXCEPT !.min = IF p < @ THEN p ELSE @, !.max = IF p > @ THEN p ELSE @]

SeenAt(l, p) == [Seen(l, p) EXCEPT !.cur = p]

-----------------------------------------------------------------------------
(* Reading the arms.                                                       *)

\* As LeaderFails, leaving the error of the last round.
LeaderFailsQuietly ==
  /\ \/ UNCHANGED leader
     \/ \E p \in Positions :
          leader' = [leader EXCEPT ![at] = SeenAt(@, p)]
  /\ UNCHANGED <<torque1, heard1>>

\* No answer, or none to the second read.
LeaderFails ==
  /\ \/ leader' = [leader EXCEPT ![at].failed = TRUE]
     \/ \E p \in Positions :
          leader' = [leader EXCEPT ![at] = [SeenAt(@, p) EXCEPT !.failed = TRUE]]
  /\ UNCHANGED <<torque1, heard1>>

LeaderAnswers ==
  /\ heard1' = heard1 \union {at}
  /\ \E p \in Positions, over \in BOOLEAN :
       /\ over => protection
       /\ leader' = [leader EXCEPT ![at] = [SeenAt(@, p) EXCEPT !.failed = over]]
       /\ IF over THEN torque1' \in Wrote(torque1, at, FALSE)
                  ELSE UNCHANGED torque1

\* As ReadLeader, one servo too far.
ReadLeaderPastEnd ==
  /\ pc = "leaders" /\ running /\ at \in 1..N+1
  /\ LeaderFails \/ LeaderAnswers
  /\ at' = at + 1
  /\ UNCHANGED <<pc, running, protection, follower, torque2, file, sent,
                 heard2, tripped>>

ReadLeader ==
  /\ pc = "leaders" /\ running /\ at \in Servos
  /\ LeaderFails \/ LeaderAnswers
  /\ at' = at + 1
  /\ UNCHANGED <<pc, running, protection, follower, torque2, file, sent,
                 heard2, tripped>>

FollowerFails ==
  /\ \E e \in Faults :
       \/ follower' = [follower EXCEPT ![at].error = e, ![at].mirroring = FALSE]
       \/ /\ follower[at].mirroring
          /\ \E p \in Positions :
               follower' = [follower EXCEPT ![at] =
                 [Seen(@, p) EXCEPT !.error = e, !.mirroring = FALSE]]
  /\ UNCHANGED <<torque2, heard2, tripped>>

\* Whose load is not read.
IdleAnswers ==
  /\ ~follower[at].mirroring
  /\ \E p \in Positions : follower' = [follower EXCEPT ![at] = Seen(@, p)]
  /\ heard2' = heard2 \union {at}
  /\ UNCHANGED <<torque2, tripped>>

\* As FollowerTrips, without the end of mirroring.
FollowerTripsMirroring ==
  /\ follower[at].mirroring /\ protection
  /\ \E p \in Positions :
       follower' = [follower EXCEPT ![at] =
         [Seen(@, p) EXCEPT !.error = "other"]]
  /\ torque2' \in Wrote(torque2, at, FALSE)
  /\ heard2' = heard2 \union {at}
  /\ tripped' = tripped \union {at}

\* The load is over the limit; the write of the register may throw as well.
FollowerTrips ==
  /\ follower[at].mirroring /\ protection
  /\ \E p \in Positions :
       follower' = [follower EXCEPT ![at] =
         [Seen(@, p) EXCEPT !.error = "other", !.mirroring = FALSE]]
  /\ torque2' \in Wrote(torque2, at, FALSE)
  /\ heard2' = heard2 \union {at}
  /\ tripped' = tripped \union {at}

\* After an overload the torque is switched on again; the error is cleared
\* whether or not that succeeds.
MirrorAnswers ==
  /\ follower[at].mirroring
  /\ \E p \in Positions :
       follower' = [follower EXCEPT ![at] = [Seen(@, p) EXCEPT !.error = ""]]
  /\ torque2' \in IF follower[at].error = "overload"
                  THEN Wrote(torque2, at, TRUE) ELSE {torque2}
  /\ heard2' = heard2 \union {at}
  /\ UNCHANGED tripped

ReadFollower ==
  /\ pc = "followers" /\ running /\ at \in Servos
  /\ FollowerFails \/ IdleAnswers \/ FollowerTrips \/ MirrorAnswers
  /\ at' = at + 1
  /\ UNCHANGED <<pc, running, protection, leader, torque1, file, sent, heard1>>

Nothing == [i \in Servos |-> NoGoal]

\* From one part of the round to the next.
Advance ==
  /\ \/ /\ pc = "leaders" /\ (at = N + 1 \/ ~running)
        /\ pc' = "followers"
        /\ UNCHANGED <<sent, heard>>
     \/ /\ pc = "followers" /\ (at = N + 1 \/ ~running)
        /\ pc' = IF running THEN "keys" ELSE "off"
        /\ UNCHANGED <<sent, heard>>
     \/ /\ pc = "follow" /\ (at = N + 1 \/ ~running)
        /\ pc' = IF running THEN "leaders" ELSE "off"
        /\ sent' = Nothing
        /\ heard1' = {}
        /\ heard2' = {}
  /\ at' = 1
  /\ UNCHANGED <<running, protection, readings, torques, file, tripped>>

-----------------------------------------------------------------------------
(* Keys.                                                                   *)

Key ==
  /\ pc = "keys"
  /\ pc' = "follow"
  /\ UNCHANGED <<at, running, leader, torque1, sent, heard>>

NoKey ==
  /\ Key
  /\ UNCHANGED <<protection, follower, torque2, file, tripped>>

ToggleProtection ==
  /\ Key
  /\ protection' = ~protection
  /\ UNCHANGED <<follower, torque2, file, tripped>>

\* A press of the key of servo i; the port may refuse the write.
ToggleMirroring(i) ==
  /\ Key
  /\ tripped' = tripped \ {i}
  /\ LET on == ~follower[i].mirroring IN
     \/ /\ follower' = [follower EXCEPT ![i].mirroring = on]
        /\ torque2' \in Wrote(torque2, i, on)
     \/ UNCHANGED <<follower, torque2>>
  /\ UNCHANGED <<protection, file>>

\* A file that cannot be written is left as it was, or is left empty.
Save ==
  /\ Key
  /\ \/ file' = [leader |-> [i \in Servos |-> [min |-> leader[i].min,
                                               max |-> leader[i].max]],
                 follower |-> [i \in Servos |->
                                 [min |-> follower[i].min,
                                  max |-> follower[i].max,
                                  mirroring |-> follower[i].mirroring]]]
     \/ file' \in {file, NoFile}
  /\ UNCHANGED <<protection, follower, torque2, tripped>>

LoadedLeader(i) ==
  IF file = NoFile THEN leader[i]
  ELSE LET r == file.leader[i]
           m == IF leader[i].cur < r.max THEN leader[i].cur ELSE r.max
       IN  [leader[i] EXCEPT !.min = r.min, !.max = r.max,
                             !.cur = IF m > r.min THEN m ELSE r.min]

LoadedFollower(i) ==
  IF file = NoFile THEN follower[i]
  ELSE LET r == file.follower[i]
       IN  [follower[i] EXCEPT !.min = r.min, !.max = r.max,
                               !.mirroring = r.mirroring]

\* The file is read, and the torque of every follower written; "refused"
\* are those for which the port fails, "lost" those that miss the write.
Load ==
  /\ pc = "keys"
  /\ pc' = "follow"
  /\ tripped' = {}
  /\ leader' = [i \in Servos |-> LoadedLeader(i)]
  /\ \E refused, lost \in SUBSET Servos :
       /\ follower' = [i \in Servos |->
            IF i \in refused
            THEN [LoadedFollower(i) EXCEPT !.error = "other",
                                           !.mirroring = FALSE]
            ELSE LoadedFollower(i)]
       /\ torque2' = [i \in Servos |->
            IF i \in refused \union lost THEN torque2[i]
                                         ELSE LoadedFollower(i).mirroring]
  /\ UNCHANGED <<at, running, protection, torque1, file, sent, heard>>

-----------------------------------------------------------------------------
(* Driving the followers.                                                  *)

Follows(i) ==
  follower[i].mirroring /\ ~leader[i].failed /\ follower[i].error = ""

Send(p) == sent' = [sent EXCEPT ![at] = p]

Follow ==
  /\ pc = "follow" /\ running /\ at \in Servos
  /\ \/ /\ ~Follows(at)
        /\ UNCHANGED <<sent, follower>>
     \/ /\ Follows(at)
        /\ \/ /\ \E p \in Scaled(leader[at], follower[at]) : Send(p)
              /\ UNCHANGED follower
           \/ /\ \/ UNCHANGED sent
                 \/ \E p \in Scaled(leader[at], follower[at]) : Send(p)
              /\ \E e \in Faults :
                   follower' = [follower EXCEPT ![at].error = e,
                                                ![at].mirroring = FALSE]
  /\ at' = at + 1
  /\ UNCHANGED <<pc, running, protection, leader, torques, file, heard, tripped>>

-----------------------------------------------------------------------------
(* Signals, the end of the program and its next start.                     *)

Shutdown ==
  /\ pc \notin {"off", "done"} /\ running
  /\ running' = FALSE
  /\ UNCHANGED <<pc, at, protection, readings, torques, file, sent, heard,
                 tripped>>

\* Torque off on every servo that hears it.
SwitchOff ==
  /\ pc = "off"
  /\ pc' = "done"
  /\ \E lost1, lost2 \in SUBSET Servos :
       /\ torque1' = [i \in Servos |-> i \in lost1 /\ torque1[i]]
       /\ torque2' = [i \in Servos |-> i \in lost2 /\ torque2[i]]
  /\ UNCHANGED <<at, running, protection, readings, file, sent, heard, tripped>>

\* SIGKILL, or the host loses its power.
Crash ==
  /\ pc # "done"
  /\ pc' = "done"
  /\ UNCHANGED <<at, running, protection, readings, torques, file, sent, heard,
                 tripped>>

FreshLeader ==
  [i \in Servos |-> [cur |-> 0, min |-> MaxPosition, max |-> 0,
                     failed |-> FALSE]]
FreshFollower ==
  [i \in Servos |-> [min |-> MaxPosition, max |-> 0, mirroring |-> FALSE,
                     error |-> ""]]

Start ==
  /\ pc = "done"
  /\ pc' = "leaders"
  /\ at' = 1
  /\ running' = TRUE
  /\ protection' = FALSE
  /\ leader' = FreshLeader
  /\ follower' = FreshFollower
  /\ sent' = Nothing
  /\ heard1' = {}
  /\ heard2' = {}
  /\ tripped' = {}
  /\ UNCHANGED <<torques, file>>

Init ==
  /\ pc = "leaders"
  /\ at = 1
  /\ running = TRUE
  /\ protection = FALSE
  /\ leader = FreshLeader
  /\ follower = FreshFollower
  /\ torque1 \in [Servos -> BOOLEAN]
  /\ torque2 \in [Servos -> BOOLEAN]
  /\ file = NoFile
  /\ sent = Nothing
  /\ heard1 = {}
  /\ heard2 = {}
  /\ tripped = {}

Reading == ReadLeader \/ ReadFollower \/ Advance
Keys == \/ NoKey \/ ToggleProtection \/ Save \/ Load
        \/ \E i \in Servos : ToggleMirroring(i)
Next == Reading \/ Keys \/ Follow \/ Shutdown \/ SwitchOff \/ Crash \/ Start

Spec == Init /\ [][Next]_vars

-----------------------------------------------------------------------------
(* Properties.                                                             *)

\* A follower is only sent a position of a leader that answered in the same
\* round, when it answered itself, and inside the range it is known to have;
\* whatever answers are missed, keys pressed and calibrations loaded.
FollowsSafely ==
  [][\A i \in Servos :
       sent'[i] \notin {sent[i], NoGoal} =>
         /\ i \in heard1 \intersect heard2
         /\ sent'[i] \in follower[i].min..follower[i].max]_vars

\* A follower the torque protection switched off is neither driven nor has
\* its torque switched on, until the user asks by its key or by a load.
TrippedUntilAsked ==
  [][\A i \in tripped \intersect tripped' :
       /\ sent'[i] \in {sent[i], NoGoal}
       /\ torque2'[i] => torque2[i]]_vars

\* "Follower torque is on exactly while the servo is mirroring": what ends
\* the mirroring of a follower, other than a key, switches its torque off
\* or tries to (the write may be lost).
NoTorqueWithoutMirroring ==
  [][pc = "follow" =>
       \A i \in Servos : follower[i].mirroring /\ torque2[i]
                         /\ ~follower'[i].mirroring => ~torque2'[i]]_vars

=============================================================================
