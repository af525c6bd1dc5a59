--------------------------- MODULE TuiJobs_proofs ---------------------------
(***************************************************************************)
(* Proofs about TuiJobs for any profiles, tasks, process groups and        *)
(* windows.  The inductive invariant says that the job table names groups  *)
(* of its own only, each once; that every living group the session could   *)
(* know is on its way to the table, in it, or an orphan; that the record   *)
(* follows it; and where each escalation stands while stop_all waits.      *)
(***************************************************************************)
EXTENDS TuiJobs, TLAPS

Living   == {"ours", "killed"}
Launched == {"ours", "killed", "ended"}
Running  == {"first", "loop", "key", "spawned"}

OwnerInv ==
  /\ \A g \in Groups : kern[g] \in Living => owner[g] \in Keys
  /\ \A g \in missed : kern[g] \in Living

\* The group of a job is its own, and not one an earlier session lost.
TableInv ==
  /\ \A k \in Keys : job[k].pgid \in Groups =>
       /\ kern[job[k].pgid] \in Launched
       /\ kern[job[k].pgid] \in Living => /\ owner[job[k].pgid] = k
                                          /\ job[k].pgid \notin missed
  /\ \A k, c \in Keys :
       k # c /\ job[k].pgid = job[c].pgid => job[k].pgid = NoGroup
  /\ pc \in Ended => \A k \in Keys : job[k] = NoJob

\* So is that of a job on its way to the table, which replaces no other.
FreshInv ==
  /\ pc = "spawned" <=> fresh \in Groups
  /\ fresh \in Groups =>
       /\ starting \in Keys /\ job[starting].pgid = NoGroup
       /\ \A k \in Keys : job[k].pgid # fresh
       /\ kern[fresh] \in Launched
       /\ kern[fresh] \in Living => owner[fresh] = starting /\ fresh \notin missed

Held(g) == g = fresh \/ job[owner[g]].pgid = g \/ orphans[owner[g]] = g

HeldInv ==
  pc \in Running =>
    \A g \in Groups \ missed : kern[g] \in Living => Held(g)

LastInv ==
  pc = "key" =>
    \A g \in Groups \ missed :
      kern[g] \in Living /\ Resource[owner[g]] # {} => last[owner[g]] = g

\* How far the escalations of stop_all are, and what they did.
WindowInv ==
  /\ pc # "stopping" => \A k \in Keys : job[k].windows = "job"
  /\ \A k \in Keys :
       job[k].windows = "exit" =>
         /\ job[k].stage = "int" => waited + job[k].left = ExitTerm
         /\ job[k].stage = "term" => waited + job[k].left = ExitTerm + ExitKill
         /\ job[k].stage # "run"
         /\ /\ job[k].stage \in {"kill", "over"} /\ job[k].pgid \in Groups
            => kern[job[k].pgid] \in {"killed", "ended"}

IInv == /\ TypeOK /\ OwnerInv /\ TableInv /\ FreshInv /\ HeldInv /\ Exclusive
        /\ LastInv /\ WindowInv

-----------------------------------------------------------------------------
(* Jobs.                                                                   *)

LEMMA Windowing ==
  /\ \A w \in Windows : TermWindow[w] \in 0..MaxLeft /\ KillWindow[w] \in 0..MaxLeft
  /\ 0 \in 0..MaxLeft /\ 1 \in 0..MaxLeft
  /\ TermWindow["exit"] = ExitTerm /\ KillWindow["exit"] = ExitKill
  <1>1. /\ JobTerm \in 0..MaxLeft /\ JobKill \in 0..MaxLeft
        /\ ExitTerm \in 0..MaxLeft /\ ExitKill \in 0..MaxLeft
        /\ 0 \in 0..MaxLeft /\ 1 \in 0..MaxLeft
    BY WindowAssumption DEF MaxLeft
  <1> QED
    BY <1>1 DEF TermWindow, KillWindow, Windows

LEMMA NewJobType ==
  ASSUME NEW g \in Id
  PROVE  /\ NewJob(g) \in Job /\ NewJob(g).pgid = g
         /\ NewJob(g).stage = "run" /\ NewJob(g).windows = "job"
  BY Windowing DEF NewJob, Job, Windows

LEMMA NoJobType ==
  /\ NoJob \in Job /\ NoJob.pgid = NoGroup
  /\ NoJob.stage = "run" /\ NoJob.windows = "job"
  BY NewJobType DEF NoJob, Id

\* How a job may change under the hands of whoever looks at it.
Kept(j, i) ==
  /\ i \in Job
  /\ i.pgid \in {j.pgid, NoGroup}
  /\ JobAlive(j) => i.pgid = j.pgid

LEMMA LookKeeps ==
  ASSUME NEW j \in Job
  PROVE  /\ Kept(j, Look(j))
         /\ ~JobAlive(j) => Look(j).pgid = NoGroup
         /\ Look(j).windows = j.windows \/ Look(j) = NoJob
         /\ (Look(j).stage = j.stage /\ Look(j).left = j.left) \/ Look(j) = NoJob
  <1>1. CASE JobAlive(j)
    BY <1>1 DEF Look, Kept
  <1>2. CASE ~JobAlive(j) /\ j.stage \in Escalating
    BY <1>2 DEF Look, Kept, Job, Id
  <1>3. CASE ~JobAlive(j) /\ j.stage \notin Escalating
    BY <1>3, NoJobType DEF Look, Kept
  <1> QED
    BY <1>1, <1>2, <1>3

LEMMA StoppedKeeps ==
  ASSUME NEW j \in Job, NEW w \in Windows
  PROVE  /\ Kept(j, Stopped(j, w))
         /\ \/ /\ JobAlive(j) /\ Stopped(j, w).stage = "int"
               /\ Stopped(j, w).left = TermWindow[w]
               /\ Stopped(j, w).windows = w
            \/ Stopped(j, w) = Look(j)
  <1>1. CASE JobAlive(j) /\ j.stage \notin Escalating
    BY <1>1, Windowing DEF Stopped, Kept, Job, Escalating
  <1>2. CASE ~(JobAlive(j) /\ j.stage \notin Escalating)
    BY <1>2, LookKeeps DEF Stopped
  <1> QED
    BY <1>1, <1>2

LEMMA KeptSelf == ASSUME NEW j \in Job PROVE Kept(j, j)
  BY DEF Kept

LEMMA LookedKeeps ==
  ASSUME TypeOK, NEW K, NEW k \in Keys
  PROVE  /\ Kept(job[k], Looked(K)[k])
         /\ k \in K => Looked(K)[k] = Look(job[k])
         /\ Looked(K)[k] \in {job[k], Look(job[k])}
  BY LookKeeps, KeptSelf DEF Looked, TypeOK

\* The steps that only look at jobs, stop them or escalate.
Tending ==
  \/ Loop \/ OtherKey \/ ClearFinished \/ StopAll \/ Tick
  \/ \E k \in Keys : StopKey(k) \/ EscalatorSees(k) \/ Escalate(k)

LEMMA TendingKeeps ==
  ASSUME TypeOK, Tending
  PROVE  \A k \in Keys : Kept(job[k], job'[k])
  <1> SUFFICES ASSUME NEW k \in Keys PROVE Kept(job[k], job'[k])
    OBVIOUS
  <1>0. job \in [Keys -> Job] /\ job[k] \in Job
    BY DEF TypeOK
  <1>1. CASE Loop
    BY <1>1, LookedKeeps DEF Loop, Looked
  <1>2. CASE OtherKey
    BY <1>2, LookedKeeps DEF OtherKey, Looked
  <1>3. CASE ClearFinished
    <2>1. Kept(job[k], job[k]) /\ (~JobAlive(job[k]) => Kept(job[k], NoJob))
      BY <1>0, NoJobType, KeptSelf DEF Kept
    <2> QED
      BY <1>3, <2>1 DEF ClearFinished
  <1>4. CASE StopAll
    <2>1. job' = [c \in Keys |-> Stopped(job[c], "exit")]
      BY <1>4 DEF StopAll
    <2> QED
      BY <1>0, <2>1, StoppedKeeps DEF Windows
  <1>5. CASE Tick
    <2>1. job' = [c \in Keys |-> IF job[c].stage \in Escalating
                                 THEN [job[c] EXCEPT !.left = @ - 1] ELSE job[c]]
      BY <1>5 DEF Tick
    <2>2. job[k].stage \in Escalating => job[k].left \in 1..MaxLeft
      BY <1>0, <1>5 DEF Tick, Job
    <2>3. job[k].stage \in Escalating => job[k].left - 1 \in 0..MaxLeft
      BY <2>2, WindowAssumption DEF MaxLeft
    <2>4. job[k].stage \in Escalating => Kept(job[k], [job[k] EXCEPT !.left = job[k].left - 1])
      <3> DEFINE l == job[k].left - 1
      <3> HIDE DEF l
      <3>1. l \in 0..MaxLeft => Kept(job[k], [job[k] EXCEPT !.left = l])
        BY <1>0 DEF Kept, Job
      <3> QED
        BY <2>3, <3>1 DEF l
    <2> QED
      BY <1>0, <2>1, <2>4, KeptSelf
  <1>6. ASSUME NEW c \in Keys, StopKey(c)
        PROVE  Kept(job[k], job'[k])
    <2>1. job' = [job EXCEPT ![c] = Stopped(job[c], "job")]
      BY <1>6 DEF StopKey
    <2>2. Kept(job[c], Stopped(job[c], "job"))
      BY <1>0, StoppedKeeps DEF Windows
    <2> QED
      BY <1>0, <2>1, <2>2, KeptSelf
  <1>7. ASSUME NEW c \in Keys, EscalatorSees(c)
        PROVE  Kept(job[k], job'[k])
    <2>1. job' = [job EXCEPT ![c] = NoJob] /\ ~JobAlive(job[c])
      BY <1>7 DEF EscalatorSees
    <2>2. Kept(job[c], NoJob)
      BY <1>0, <2>1, NoJobType DEF Kept
    <2> QED
      BY <1>0, <2>1, <2>2, KeptSelf
  <1>8. ASSUME NEW c \in Keys, Escalate(c)
        PROVE  Kept(job[k], job'[k])
    <2>1. job[c] \in Job /\ job[c].windows \in Windows
      BY <1>0 DEF Job
    <2>2. \/ job' = [job EXCEPT ![c].stage = "term",
                               ![c].left = KillWindow[job[c].windows]]
          \/ job' = [job EXCEPT ![c].stage = "kill", ![c].left = 1]
          \/ job' = [job EXCEPT ![c].stage = "over"]
      BY <1>8 DEF Escalate
    <2>3. /\ \A l \in 0..MaxLeft :
               /\ Kept(job[c], [job[c] EXCEPT !.stage = "term", !.left = l])
               /\ Kept(job[c], [job[c] EXCEPT !.stage = "kill", !.left = l])
          /\ Kept(job[c], [job[c] EXCEPT !.stage = "over"])
      BY <2>1 DEF Kept, Job, Escalating
    <2>4. /\ Kept(job[c], [job[c] EXCEPT !.stage = "term",
                                         !.left = KillWindow[job[c].windows]])
          /\ Kept(job[c], [job[c] EXCEPT !.stage = "kill", !.left = 1])
      BY <2>1, <2>3, Windowing
    <2> QED
      BY <1>0, <2>2, <2>3, <2>4, KeptSelf
  <1> QED
    BY <1>1, <1>2, <1>3, <1>4, <1>5, <1>6, <1>7, <1>8 DEF Tending

LEMMA TendingType ==
  ASSUME TypeOK, Tending
  PROVE  job' \in [Keys -> Job]
  <1>1. job' = [k \in Keys |-> job'[k]]
    BY DEF Tending, Loop, OtherKey, ClearFinished, StopAll, Tick, StopKey,
           EscalatorSees, Escalate, TypeOK, Looked
  <1>2. \A k \in Keys : job'[k] \in Job
    BY TendingKeeps DEF Kept
  <1> QED
    BY <1>1, <1>2

-----------------------------------------------------------------------------
(* Types.                                                                  *)

LEMMA SurvivingType ==
  /\ \A t \in Table : Surviving(t) \in Table
  /\ TypeOK => LiveGroups \in Table
  <1>1. \A t \in Table : Surviving(t) \in Table
    BY DEF Surviving, Table, Id
  <1>2. ASSUME TypeOK PROVE LiveGroups \in Table
    <2>1. Surviving(orphans) \in Table
      BY <1>1, <1>2 DEF TypeOK
    <2>2. \A k \in Keys : job[k].pgid \in Id
      BY <1>2 DEF TypeOK, Job
    <2> QED
      BY <2>1, <2>2 DEF LiveGroups, Table
  <1> QED
    BY <1>1, <1>2

LEMMA TypeInit == Init => TypeOK
  <1> SUFFICES ASSUME Init PROVE TypeOK
    OBVIOUS
  <1>1. [k \in Keys |-> NoJob] \in [Keys -> Job]
    BY NoJobType
  <1>2. waited \in 0..ExitTotal
    BY WindowAssumption DEF Init
  <1> QED
    BY <1>1, <1>2 DEF Init, TypeOK, Table, Id

LEMMA ForgetType ==
  ASSUME Forget
  PROVE  /\ job' \in [Keys -> Job] /\ orphans' \in Table /\ last' \in Table
         /\ starting' = NoKey /\ fresh' = NoGroup /\ masked' = FALSE
         /\ waited' \in 0..ExitTotal
  BY NoJobType, WindowAssumption DEF Forget, Table, Id

LEMMA TypeStep == TypeOK /\ [Next]_vars => TypeOK'
  <1> SUFFICES ASSUME TypeOK, [Next]_vars PROVE TypeOK'
    OBVIOUS
  <1> USE DEF kernVars, newVars, diskVars
  <1>0. \A G : Released(G) \in [Groups -> {"free", "ours", "killed", "ended", "foreign"}]
    BY DEF TypeOK, Released
  <1>1. CASE Loop
    <2>1. job' \in [Keys -> Job]
      BY <1>1, TendingType DEF Tending
    <2>2. file' \in Table /\ orphans' \in Table /\ last' \in Table
      BY <1>1, SurvivingType DEF Loop, Record, TypeOK
    <2> QED
      BY <1>0, <1>1, <2>1, <2>2 DEF Loop, TypeOK
  <1>2. CASE OtherKey \/ ClearFinished \/ \E k \in Keys : StopKey(k)
    <2>1. job' \in [Keys -> Job]
      BY <1>2, TendingType DEF Tending
    <2> QED
      BY <1>2, <2>1 DEF OtherKey, ClearFinished, StopKey, TypeOK
  <1>3. CASE StopAll
    <2>1. job' \in [Keys -> Job]
      BY <1>3, TendingType DEF Tending
    <2>2. waited' \in 0..ExitTotal
      BY <1>3, WindowAssumption DEF StopAll
    <2> QED
      BY <1>3, <2>1, <2>2 DEF StopAll, TypeOK
  <1>4. CASE Tick
    <2>1. job' \in [Keys -> Job]
      BY <1>4, TendingType DEF Tending
    <2>2. waited' \in 0..ExitTotal
      BY <1>4, WindowAssumption DEF Tick, TypeOK
    <2> QED
      BY <1>4, <2>1, <2>2 DEF Tick, TypeOK
  <1>5. ASSUME NEW k \in Keys, EscalatorSees(k) PROVE TypeOK'
    <2>1. job' \in [Keys -> Job]
      BY <1>5, TendingType DEF Tending
    <2> QED
      BY <1>0, <1>5, <2>1 DEF EscalatorSees, TypeOK
  <1>6. ASSUME NEW k \in Keys, Escalate(k) PROVE TypeOK'
    <2>1. job' \in [Keys -> Job]
      BY <1>6, TendingType DEF Tending
    <2>2. kern' \in [Groups -> {"free", "ours", "killed", "ended", "foreign"}]
      BY <1>6 DEF Escalate, TypeOK
    <2> QED
      BY <1>6, <2>1, <2>2 DEF Escalate, TypeOK
  <1>7. ASSUME NEW k \in Keys, Launch(k) PROVE TypeOK'
    <2>1. \A K : Looked(K) \in [Keys -> Job]
      BY LookedKeeps DEF Looked, Kept
    <2>2. job' \in [Keys -> Job]
      BY <1>7, <2>1, NoJobType DEF Launch
    <2>3. /\ kern' \in [Groups -> {"free", "ours", "killed", "ended", "foreign"}]
          /\ owner' \in [Groups -> Keys \union {NoKey}]
          /\ starting' \in Keys \union {NoKey} /\ fresh' \in Id
          /\ pc' \in {"loop", "spawned"}
      BY <1>7 DEF Launch, TypeOK, Id
    <2> QED
      BY <1>7, <2>2, <2>3 DEF Launch, TypeOK
  <1>8. CASE Register
    <2>1. NewJob(fresh) \in Job
      BY NewJobType DEF TypeOK
    <2>2. job' \in [Keys -> Job]
      BY <1>8, <2>1 DEF Register, TypeOK
    <2> QED
      BY <1>8, <2>2 DEF Register, TypeOK, Id
  <1>9. CASE Quit \/ Interrupt
    BY <1>9 DEF Quit, Interrupt, TypeOK, Id
  <1>10. CASE Exit
    <2>1. file' \in Table
      BY <1>10, SurvivingType DEF Exit, Record, TypeOK
    <2> QED
      BY <1>10, <2>1, ForgetType DEF Exit, TypeOK, Ended, Id
  <1>11. CASE CutShort \/ Crash
    BY <1>11, ForgetType DEF CutShort, Crash, TypeOK, Ended, Id
  <1>12. CASE Start
    BY <1>12, SurvivingType DEF Start, TypeOK
  <1>13. ASSUME NEW g \in Groups, GroupEnds(g) \/ Reuse(g) PROVE TypeOK'
    BY <1>13 DEF GroupEnds, Reuse, TypeOK
  <1>14. CASE UNCHANGED vars
    BY <1>14 DEF vars, TypeOK
  <1> QED
    BY <1>1, <1>2, <1>3, <1>4, <1>5, <1>6, <1>7, <1>8, <1>9, <1>10, <1>11,
       <1>12, <1>13, <1>14 DEF Next, Session, Key, Ending, Threads, System

\* The variables have their types.
THEOREM TypeCorrect == Safety => []TypeOK
  BY TypeInit, TypeStep, PTL DEF Safety

-----------------------------------------------------------------------------
(* Groups.                                                                 *)

\* The launch that makes group g.
Makes(k, g) ==
  /\ Launch(k) /\ kern[g] = "free"
  /\ kern' = [kern EXCEPT ![g] = "ours"]
  /\ owner' = [owner EXCEPT ![g] = k]
  /\ starting' = k /\ fresh' = g
  /\ pc' = "spawned"
  /\ job' = Looked(IF Resource[k] = {} THEN {k} ELSE Keys)

\* A launch that fails.
Refused(k) ==
  /\ Launch(k) /\ pc' = "loop"
  /\ job' = [Looked(IF Resource[k] = {} THEN {k} ELSE Keys) EXCEPT ![k] = NoJob]
  /\ UNCHANGED <<kern, owner, newVars>>

LEMMA LaunchSplit ==
  ASSUME NEW k \in Keys, Launch(k)
  PROVE  Refused(k) \/ \E g \in Groups : Makes(k, g)
  <1> DEFINE K == IF Resource[k] = {} THEN {k} ELSE Keys
  <1>1. \/ /\ pc' = "loop"
           /\ job' = [Looked(K) EXCEPT ![k] = NoJob]
           /\ UNCHANGED <<kern, owner, newVars>>
        \/ \E g \in Groups :
             /\ kern[g] = "free"
             /\ kern' = [kern EXCEPT ![g] = "ours"]
             /\ owner' = [owner EXCEPT ![g] = k]
             /\ starting' = k
             /\ fresh' = g
             /\ pc' = "spawned"
             /\ job' = Looked(K)
    BY DEF Launch
  <1> QED
    BY <1>1 DEF Refused, Makes

\* No group comes to live, changes hands or is found again.
Shrinks ==
  /\ \A g \in Groups : kern'[g] \in Living => /\ kern[g] \in Living
                                              /\ owner'[g] = owner[g]
                                              /\ g \notin missed' => g \notin missed
  /\ \A g \in missed' : kern'[g] \in Living

LEMMA ShrinkStep ==
  TypeOK /\ OwnerInv /\ [Next]_vars =>
    Shrinks \/ \E k \in Keys, g \in Groups : Makes(k, g)
  <1> SUFFICES ASSUME TypeOK, OwnerInv, [Next]_vars
               PROVE  Shrinks \/ \E k \in Keys, g \in Groups : Makes(k, g)
    OBVIOUS
  <1> USE DEF kernVars, newVars
  <1>0. /\ missed \subseteq Groups
        /\ kern \in [Groups -> {"free", "ours", "killed", "ended", "foreign"}]
        /\ owner \in [Groups -> Keys \union {NoKey}]
    BY DEF TypeOK
  <1>1. ASSUME kern' = kern, owner' = owner, missed' = missed PROVE Shrinks
    BY <1>0, <1>1 DEF Shrinks, OwnerInv
  <1>2. CASE Loop \/ \E k \in Keys : EscalatorSees(k)
    <2>1. /\ \E G : kern' = Released(G)
          /\ owner' = owner /\ missed' = missed
      BY <1>2 DEF Loop, EscalatorSees
    <2>2. \A g \in Groups : /\ kern'[g] \in Living => kern[g] \in Living
                            /\ kern[g] \in Living => kern'[g] = kern[g]
      BY <1>0, <2>1 DEF Released, Living
    <2> QED
      BY <1>0, <2>1, <2>2 DEF Shrinks, OwnerInv
  <1>3. ASSUME NEW k \in Keys, Escalate(k) PROVE Shrinks
    <2>1. /\ owner' = owner /\ missed' = missed
          /\ \/ kern' = kern
             \/ kern' = [kern EXCEPT ![job[k].pgid] = IF @ = "ours" THEN "killed"
                                                                    ELSE @]
      BY <1>3 DEF Escalate
    <2>2. \A g \in Groups : kern'[g] \in Living <=> kern[g] \in Living
      BY <1>0, <2>1 DEF Living
    <2> QED
      BY <1>0, <2>1, <2>2 DEF Shrinks, OwnerInv
  <1>4. ASSUME NEW g \in Groups, GroupEnds(g) PROVE Shrinks
    <2>1. /\ kern' = [kern EXCEPT ![g] = "ended"]
          /\ missed' = missed \ {g} /\ owner' = [owner EXCEPT ![g] = NoKey]
      BY <1>4 DEF GroupEnds
    <2> QED
      BY <1>0, <2>1 DEF Shrinks, OwnerInv, Living
  <1>5. ASSUME NEW g \in Groups, Reuse(g) PROVE Shrinks
    <2>1. /\ kern' = [kern EXCEPT ![g] = "foreign"] /\ kern[g] \in {"free", "ended"}
          /\ missed' = missed /\ owner' = owner
      BY <1>5 DEF Reuse
    <2> QED
      BY <1>0, <2>1 DEF Shrinks, OwnerInv, Living
  <1>6. CASE Start
    <2>1. /\ kern' = kern /\ owner' = owner /\ missed \subseteq missed'
          /\ \A g \in missed' \ missed : Ours(g)
      BY <1>6 DEF Start
    <2> QED
      BY <1>0, <2>1 DEF Shrinks, OwnerInv, Living, Ours
  <1>7. ASSUME NEW k \in Keys, Launch(k)
        PROVE  Shrinks \/ \E g \in Groups : Makes(k, g)
    <2>1. CASE Refused(k)
      BY <1>1, <2>1 DEF Refused, Launch
    <2> QED
      BY <1>7, <2>1, LaunchSplit
  <1>8. OtherKey \/ ClearFinished \/ Register \/ Quit \/ Interrupt \/ StopAll
        \/ Exit \/ CutShort \/ Crash \/ Tick \/ UNCHANGED vars
        \/ (\E k \in Keys : StopKey(k))
          => kern' = kern /\ owner' = owner /\ missed' = missed
    BY DEF OtherKey, ClearFinished, Register, Quit, Interrupt, StopAll, Exit,
           CutShort, Crash, Tick, StopKey, vars
  <1> QED
    BY <1>1, <1>2, <1>3, <1>4, <1>5, <1>6, <1>7, <1>8
    DEF Next, Session, Key, Ending, Threads, System

LEMMA OwnerStep == TypeOK /\ OwnerInv /\ [Next]_vars => OwnerInv'
  <1> SUFFICES ASSUME TypeOK, OwnerInv, [Next]_vars PROVE OwnerInv'
    OBVIOUS
  <1>1. CASE Shrinks
    BY <1>1 DEF Shrinks, OwnerInv, TypeOK
  <1>2. ASSUME NEW k \in Keys, NEW g \in Groups, Makes(k, g) PROVE OwnerInv'
    <2>1. missed' = missed /\ missed \subseteq Groups
      BY <1>2 DEF Makes, Launch, TypeOK
    <2>2. /\ kern' = [kern EXCEPT ![g] = "ours"]
          /\ owner' = [owner EXCEPT ![g] = k]
      BY <1>2 DEF Makes
    <2> QED
      BY <2>1, <2>2 DEF OwnerInv, TypeOK, Living
  <1> QED
    BY <1>1, <1>2, ShrinkStep

-----------------------------------------------------------------------------
(* The table.                                                              *)

\* Steps that leave what the job table holds of a group as it is, or drop
\* a group that is gone.
LEMMA TableKept ==
  ASSUME TypeOK, TableInv, Shrinks, missed' = missed \/ missed' \subseteq missed,
         pc' \notin Ended \/ job' = job,
         pc' \in Ended => pc \in Ended,
         \A k \in Keys : Kept(job[k], job'[k]),
         \A k \in Keys : job'[k].pgid \in Groups => kern'[job'[k].pgid] \in Launched
  PROVE  TableInv'
  <1>0. NoGroup \notin Groups
    BY IdAssumption
  <1>1. \A k \in Keys : job'[k].pgid \in {job[k].pgid, NoGroup}
    BY DEF Kept
  <1>2. ASSUME NEW k \in Keys, job'[k].pgid \in Groups
        PROVE  /\ kern'[job'[k].pgid] \in Launched
               /\ kern'[job'[k].pgid] \in Living => /\ owner'[job'[k].pgid] = k
                                                    /\ job'[k].pgid \notin missed'
    <2>1. job'[k].pgid = job[k].pgid
      BY <1>0, <1>1, <1>2
    <2> QED
      BY <1>2, <2>1 DEF TableInv, Shrinks
  <1>3. ASSUME NEW k \in Keys, NEW c \in Keys, k # c, job'[k].pgid = job'[c].pgid
        PROVE  job'[k].pgid = NoGroup
    BY <1>1, <1>3 DEF TableInv
  <1>4. pc' \in Ended => \A k \in Keys : job'[k] = NoJob
    BY DEF TableInv
  <1> QED
    BY <1>2, <1>3, <1>4 DEF TableInv

\* What the table names when nothing in the system changes.
LEMMA SameGroups ==
  ASSUME TypeOK, TableInv, kern' = kern,
         \A k \in Keys : Kept(job[k], job'[k])
  PROVE  \A k \in Keys : job'[k].pgid \in Groups => kern'[job'[k].pgid] \in Launched
  <1> SUFFICES ASSUME NEW k \in Keys, job'[k].pgid \in Groups
               PROVE  kern[job'[k].pgid] \in Launched
    OBVIOUS
  <1>1. job'[k].pgid = job[k].pgid
    BY IdAssumption DEF Kept
  <1> QED
    BY <1>1 DEF TableInv

LEMMA TableStep ==
  TypeOK /\ OwnerInv /\ TableInv /\ FreshInv /\ [Next]_vars => TableInv'
  <1> SUFFICES ASSUME TypeOK, OwnerInv, TableInv, FreshInv, [Next]_vars
               PROVE  TableInv'
    OBVIOUS
  <1> USE DEF kernVars, newVars, diskVars
  <1>0. /\ \A k \in Keys : job[k] \in Job /\ Kept(job[k], job[k])
        /\ kern \in [Groups -> {"free", "ours", "killed", "ended", "foreign"}]
        /\ NoGroup \notin Groups
    BY KeptSelf, IdAssumption DEF TypeOK
  <1>1. ASSUME OtherKey \/ ClearFinished \/ StopAll \/ Tick \/ \E k \in Keys : StopKey(k)
        PROVE  TableInv'
    <2>1. Tending
      BY <1>1 DEF Tending
    <2>2. kern' = kern /\ owner' = owner /\ missed' = missed /\ pc' \notin Ended
      BY <1>1 DEF OtherKey, ClearFinished, StopAll, Tick, StopKey, Ended
    <2>3. Shrinks
      BY <2>2 DEF OwnerInv, Shrinks, TypeOK
    <2> QED
      BY <2>1, <2>2, <2>3, TendingKeeps, SameGroups, TableKept
  <1>2. ASSUME Loop PROVE TableInv'
    <2>1. /\ job' = Looked(Keys) /\ kern' = Released(Groups)
          /\ owner' = owner /\ missed' = missed /\ pc' = "key"
      BY <1>2 DEF Loop
    <2>2. \A k \in Keys : Kept(job[k], job'[k])
      BY <1>2, TendingKeeps DEF Tending
    <2>3. \A g \in Groups : IF kern[g] = "ended" THEN kern'[g] = "free"
                            ELSE kern'[g] = kern[g]
      BY <2>1 DEF Released
    <2>4. Shrinks
      BY <2>1, <2>3 DEF Shrinks, OwnerInv, TypeOK, Living
    <2>5. ASSUME NEW k \in Keys, job'[k].pgid \in Groups
          PROVE  kern'[job'[k].pgid] \in Launched
      <3>1. job'[k].pgid = job[k].pgid
        BY <1>0, <2>2, <2>5 DEF Kept
      <3>2. job'[k] = Look(job[k])
        BY <2>1, LookedKeeps
      <3>3. JobAlive(job[k])
        BY <1>0, <2>5, <3>2, LookKeeps
      <3>4. kern[job[k].pgid] \in Living
        BY <2>5, <3>1, <3>3 DEF JobAlive, Alive, TableInv, Launched, Living
      <3> QED
        BY <2>3, <2>5, <3>1, <3>4 DEF Living, Launched
    <2> QED
      BY <2>1, <2>2, <2>4, <2>5, TableKept DEF Ended
  <1>3. ASSUME NEW c \in Keys, EscalatorSees(c) PROVE TableInv'
    <2>1. /\ job' = [job EXCEPT ![c] = NoJob] /\ kern' = Released({job[c].pgid})
          /\ owner' = owner /\ missed' = missed /\ pc' = pc /\ pc \notin Ended
      BY <1>3 DEF EscalatorSees
    <2>2. \A k \in Keys : Kept(job[k], job'[k])
      BY <1>3, TendingKeeps DEF Tending
    <2>3. \A g \in Groups : IF kern[g] = "ended" /\ g = job[c].pgid
                            THEN kern'[g] = "free" ELSE kern'[g] = kern[g]
      BY <2>1 DEF Released
    <2>4. Shrinks
      BY <2>1, <2>3 DEF Shrinks, OwnerInv, TypeOK, Living
    <2>5. ASSUME NEW k \in Keys, job'[k].pgid \in Groups
          PROVE  kern'[job'[k].pgid] \in Launched
      <3>1. job'[k].pgid = job[k].pgid
        BY <1>0, <2>2, <2>5 DEF Kept
      <3>2. k # c
        BY <1>0, <2>1, <2>5, NoJobType DEF TypeOK
      <3>3. job[k].pgid # job[c].pgid
        BY <1>0, <2>5, <3>1, <3>2 DEF TableInv
      <3> QED
        BY <2>3, <2>5, <3>1, <3>3 DEF TableInv
    <2> QED
      BY <2>1, <2>2, <2>4, <2>5, TableKept
  <1>4. ASSUME NEW c \in Keys, Escalate(c) PROVE TableInv'
    <2>1. /\ owner' = owner /\ missed' = missed /\ pc' = pc /\ pc \notin Ended
          /\ \/ kern' = kern
             \/ kern' = [kern EXCEPT ![job[c].pgid] = IF @ = "ours" THEN "killed"
                                                                    ELSE @]
      BY <1>4 DEF Escalate
    <2>2. \A k \in Keys : Kept(job[k], job'[k])
      BY <1>4, TendingKeeps DEF Tending
    <2>3. \A g \in Groups : /\ kern'[g] \in Living <=> kern[g] \in Living
                            /\ kern[g] \in Launched => kern'[g] \in Launched
      BY <1>0, <2>1 DEF Living, Launched
    <2>4. Shrinks
      BY <2>1, <2>3 DEF Shrinks, OwnerInv, TypeOK
    <2>5. ASSUME NEW k \in Keys, job'[k].pgid \in Groups
          PROVE  kern'[job'[k].pgid] \in Launched
      BY <1>0, <2>2, <2>3, <2>5 DEF Kept, TableInv
    <2> QED
      BY <2>1, <2>2, <2>4, <2>5, TableKept
  <1>5. ASSUME NEW g \in Groups, GroupEnds(g) \/ Reuse(g) PROVE TableInv'
    <2>1. job' = job /\ pc' = pc
      BY <1>5 DEF GroupEnds, Reuse
    <2>2. CASE pc \in Ended
      BY <1>0, <2>1, <2>2, NoJobType DEF TableInv
    <2>3. CASE pc \notin Ended
      <3>1. \/ kern' = [kern EXCEPT ![g] = "ended"]
            \/ kern' = [kern EXCEPT ![g] = "foreign"] /\ kern[g] = "free"
        BY <1>5, <2>3 DEF GroupEnds, Reuse
      <3>2. \A h \in Groups : kern[h] \in Launched => kern'[h] \in Launched
        BY <1>0, <3>1 DEF Launched
      <3>3. /\ missed' \subseteq missed
            /\ \A h \in Groups : kern'[h] \in Living => /\ kern[h] \in Living /\ h # g
                                                        /\ owner'[h] = owner[h]
                                                        /\ h \in missed' <=> h \in missed
        BY <1>0, <1>5, <3>1 DEF GroupEnds, Reuse, Living, TypeOK
      <3> QED
        BY <2>1, <2>3, <3>2, <3>3 DEF TableInv
    <2> QED
      BY <2>2, <2>3
  <1>6. ASSUME NEW k \in Keys, Launch(k) PROVE TableInv'
    <2>0. missed' = missed
      BY <1>6 DEF Launch
    <2> DEFINE K == IF Resource[k] = {} THEN {k} ELSE Keys
    <2>1. CASE Refused(k)
      <3>1. /\ kern' = kern /\ owner' = owner /\ pc' = "loop"
            /\ job' = [Looked(K) EXCEPT ![k] = NoJob] /\ ~JobAlive(job[k])
        BY <2>1 DEF Refused, Launch
      <3>2. Kept(job[k], NoJob)
        BY <1>0, <3>1, NoJobType DEF Kept
      <3>3. \A c \in Keys : Kept(job[c], job'[c])
        BY <3>1, <3>2, LookedKeeps DEF Looked
      <3>4. Shrinks
        BY <2>0, <3>1 DEF OwnerInv, Shrinks, TypeOK
      <3> QED
        BY <2>0, <3>1, <3>3, <3>4, SameGroups, TableKept DEF Ended
    <2>2. ASSUME NEW g \in Groups, Makes(k, g) PROVE TableInv'
      <3>1. /\ kern[g] = "free" /\ kern' = [kern EXCEPT ![g] = "ours"]
            /\ owner' = [owner EXCEPT ![g] = k] /\ pc' = "spawned"
            /\ job' = Looked(K)
        BY <2>2 DEF Makes
      <3>2. \A c \in Keys : job'[c].pgid \in {job[c].pgid, NoGroup}
        BY <3>1, LookedKeeps DEF Kept
      <3>3. \A c \in Keys : job[c].pgid # g
        BY <3>1 DEF TableInv, Launched
      <3>4. \A h \in Groups \ {g} : kern'[h] = kern[h] /\ owner'[h] = owner[h]
        BY <3>1 DEF TypeOK
      <3>5. ASSUME NEW c \in Keys, job'[c].pgid \in Groups
            PROVE  /\ kern'[job'[c].pgid] \in Launched
                   /\ kern'[job'[c].pgid] \in Living => /\ owner'[job'[c].pgid] = c
                                                        /\ job'[c].pgid \notin missed'
        <4>1. job'[c].pgid = job[c].pgid /\ job[c].pgid \in Groups \ {g}
          BY <1>0, <3>2, <3>3, <3>5
        <4> QED
          BY <2>0, <3>4, <4>1 DEF TableInv
      <3>6. \A c, d \in Keys : c # d /\ job'[c].pgid = job'[d].pgid
                                => job'[c].pgid = NoGroup
        BY <3>2 DEF TableInv
      <3> QED
        BY <3>1, <3>5, <3>6 DEF TableInv, Ended
    <2> QED
      BY <1>6, <2>1, <2>2, LaunchSplit
  <1>7. ASSUME Register PROVE TableInv'
    <2>1. /\ pc = "spawned" /\ pc' = "loop" /\ kern' = kern /\ owner' = owner
          /\ missed' = missed /\ job' = [job EXCEPT ![starting] = NewJob(fresh)]
      BY <1>7 DEF Register
    <2>2. /\ fresh \in Groups /\ starting \in Keys
          /\ \A k \in Keys : job[k].pgid # fresh
          /\ kern[fresh] \in Launched
          /\ kern[fresh] \in Living => owner[fresh] = starting /\ fresh \notin missed
      BY <2>1 DEF FreshInv
    <2>3. /\ job'[starting].pgid = fresh
          /\ \A k \in Keys \ {starting} : job'[k] = job[k]
      BY <2>1, <2>2, NewJobType DEF TypeOK, Id
    <2> QED
      BY <2>1, <2>2, <2>3 DEF TableInv, Ended
  <1>8. ASSUME Exit \/ CutShort \/ Crash PROVE TableInv'
    <2>1. \A k \in Keys : job'[k] = NoJob
      BY <1>8 DEF Exit, CutShort, Crash, Forget
    <2> QED
      BY <1>0, <2>1, NoJobType DEF TableInv
  <1>9. ASSUME Start PROVE TableInv'
    <2>1. /\ pc \in Ended /\ job' = job
      BY <1>9 DEF Start
    <2> QED
      BY <1>0, <2>1, NoJobType DEF TableInv
  <1>10. ASSUME Quit \/ Interrupt \/ UNCHANGED vars PROVE TableInv'
    <2>1. /\ job' = job /\ kern' = kern /\ owner' = owner /\ missed' = missed
          /\ pc' \in Ended => pc \in Ended
      BY <1>10 DEF Quit, Interrupt, vars, Ended
    <2> QED
      BY <2>1 DEF TableInv
  <1> QED
    BY <1>1, <1>2, <1>3, <1>4, <1>5, <1>6, <1>7, <1>8, <1>9, <1>10
    DEF Next, Session, Key, Ending, Threads, System

LEMMA AliveIsLiving ==
  ASSUME TypeOK, TableInv, NEW k \in Keys, JobAlive(job[k])
  PROVE  /\ job[k].pgid \in Groups /\ kern[job[k].pgid] \in Living
         /\ owner[job[k].pgid] = k /\ job[k].pgid \notin missed
  <1>1. job[k].pgid \in Groups
    BY DEF TypeOK, Job, Id, JobAlive, Alive
  <1> QED
    BY <1>1 DEF TableInv, JobAlive, Alive, Living, Launched

LEMMA FreshStep ==
  TypeOK /\ OwnerInv /\ TableInv /\ FreshInv /\ [Next]_vars => FreshInv'
  <1> SUFFICES ASSUME TypeOK, OwnerInv, TableInv, FreshInv, [Next]_vars
               PROVE  FreshInv'
    OBVIOUS
  <1> USE DEF kernVars, newVars, diskVars
  <1>0. /\ NoGroup \notin Groups
        /\ kern \in [Groups -> {"free", "ours", "killed", "ended", "foreign"}]
        /\ \A k \in Keys : job[k] \in Job /\ Kept(job[k], job[k])
    BY KeptSelf, IdAssumption DEF TypeOK
  <1>1. ASSUME fresh' = fresh, pc # "spawned", pc' # "spawned" PROVE FreshInv'
    BY <1>1 DEF FreshInv
  <1>2. ASSUME fresh' = NoGroup, pc' # "spawned" PROVE FreshInv'
    BY <1>0, <1>2 DEF FreshInv
  <1>3. ASSUME pc' = pc, fresh' = fresh, starting' = starting,
               \A k \in Keys : Kept(job[k], job'[k]),
               fresh \in Groups /\ kern[fresh] \in Launched => kern'[fresh] \in Launched,
               Shrinks, missed' \subseteq missed
        PROVE  FreshInv'
    <2>1. \A k \in Keys : job'[k].pgid \in {job[k].pgid, NoGroup}
      BY <1>3 DEF Kept
    <2>2. ASSUME fresh \in Groups
          PROVE  /\ starting \in Keys /\ job'[starting].pgid = NoGroup
                 /\ \A k \in Keys : job'[k].pgid # fresh
                 /\ kern'[fresh] \in Launched
                 /\ kern'[fresh] \in Living => owner'[fresh] = starting /\ fresh \notin missed'
      BY <1>0, <1>3, <2>1, <2>2 DEF FreshInv, Shrinks
    <2> QED
      BY <1>3, <2>2 DEF FreshInv
  <1>4. ASSUME NEW c \in Keys, EscalatorSees(c) PROVE FreshInv'
    <2>1. /\ pc' = pc /\ fresh' = fresh /\ starting' = starting
          /\ kern' = Released({job[c].pgid}) /\ owner' = owner /\ missed' = missed
      BY <1>4 DEF EscalatorSees
    <2>2. \A k \in Keys : Kept(job[k], job'[k])
      BY <1>4, TendingKeeps DEF Tending
    <2>3. \A g \in Groups : IF kern[g] = "ended" /\ g = job[c].pgid
                            THEN kern'[g] = "free" ELSE kern'[g] = kern[g]
      BY <2>1 DEF Released
    <2>4. fresh \in Groups => kern'[fresh] = kern[fresh]
      BY <2>3 DEF FreshInv
    <2>5. Shrinks
      BY <2>1, <2>3 DEF Shrinks, OwnerInv, TypeOK, Living
    <2> QED
      BY <1>3, <2>1, <2>2, <2>4, <2>5
  <1>5. ASSUME NEW c \in Keys, Escalate(c) PROVE FreshInv'
    <2>1. /\ pc' = pc /\ fresh' = fresh /\ starting' = starting
          /\ owner' = owner /\ missed' = missed
          /\ \/ kern' = kern
             \/ kern' = [kern EXCEPT ![job[c].pgid] = IF @ = "ours" THEN "killed"
                                                                    ELSE @]
      BY <1>5 DEF Escalate
    <2>2. \A k \in Keys : Kept(job[k], job'[k])
      BY <1>5, TendingKeeps DEF Tending
    <2>3. \A g \in Groups : /\ kern'[g] \in Living <=> kern[g] \in Living
                            /\ kern[g] \in Launched => kern'[g] \in Launched
      BY <1>0, <2>1 DEF Living, Launched
    <2>4. Shrinks
      BY <2>1, <2>3 DEF Shrinks, OwnerInv, TypeOK
    <2> QED
      BY <1>3, <2>1, <2>2, <2>3, <2>4
  <1>6. ASSUME Tick PROVE FreshInv'
    <2>1. /\ pc' = pc /\ fresh' = fresh /\ starting' = starting
          /\ kern' = kern /\ owner' = owner /\ missed' = missed
      BY <1>6 DEF Tick
    <2>2. \A k \in Keys : Kept(job[k], job'[k])
      BY <1>6, TendingKeeps DEF Tending
    <2>3. Shrinks
      BY <2>1 DEF Shrinks, OwnerInv, TypeOK
    <2> QED
      BY <1>3, <2>1, <2>2, <2>3
  <1>7. ASSUME NEW g \in Groups, GroupEnds(g) \/ Reuse(g) PROVE FreshInv'
    <2>1. /\ pc' = pc /\ fresh' = fresh /\ starting' = starting /\ job' = job
      BY <1>7 DEF GroupEnds, Reuse
    <2>2. CASE pc = "spawned"
      <3>1. \/ kern' = [kern EXCEPT ![g] = "ended"]
            \/ kern' = [kern EXCEPT ![g] = "foreign"] /\ kern[g] = "free"
        BY <1>7, <2>2 DEF GroupEnds, Reuse, Ended
      <3>2. \A h \in Groups : kern[h] \in Launched => kern'[h] \in Launched
        BY <1>0, <3>1 DEF Launched
      <3>3. /\ missed' \subseteq missed
            /\ \A h \in Groups : kern'[h] \in Living => /\ kern[h] \in Living
                                                        /\ owner'[h] = owner[h]
        BY <1>0, <1>7, <3>1 DEF GroupEnds, Reuse, Living, TypeOK
      <3> QED
        BY <2>1, <3>2, <3>3 DEF FreshInv
    <2> QED
      BY <1>1, <2>1, <2>2
  <1>8. ASSUME NEW k \in Keys, NEW g \in Groups, Makes(k, g) PROVE FreshInv'
    <2>1. /\ kern[g] = "free" /\ kern' = [kern EXCEPT ![g] = "ours"]
          /\ owner' = [owner EXCEPT ![g] = k] /\ pc' = "spawned"
          /\ fresh' = g /\ starting' = k
          /\ job' = Looked(IF Resource[k] = {} THEN {k} ELSE Keys)
          /\ ~JobAlive(job[k]) /\ missed' = missed
      BY <1>8 DEF Makes, Launch
    <2>2. job'[k] = Look(job[k])
      BY <2>1, LookedKeeps
    <2>3. job'[k].pgid = NoGroup
      BY <1>0, <2>1, <2>2, LookKeeps
    <2>4. \A c \in Keys : job'[c].pgid \in {job[c].pgid, NoGroup}
      BY <2>1, LookedKeeps DEF Kept
    <2>5. \A c \in Keys : job[c].pgid # g
      BY <2>1 DEF TableInv, Launched
    <2>6. kern'[g] = "ours" /\ owner'[g] = k /\ g \notin missed'
      BY <2>1 DEF OwnerInv, TypeOK, Living
    <2> QED
      BY <1>0, <2>1, <2>3, <2>4, <2>5, <2>6 DEF FreshInv, Launched
  <1>9. ASSUME NEW k \in Keys, Launch(k) PROVE FreshInv'
    <2>1. Refused(k) => fresh' = fresh /\ pc # "spawned" /\ pc' # "spawned"
      BY DEF Refused, Launch
    <2> QED
      BY <1>1, <1>8, <1>9, <2>1, LaunchSplit
  <1>10. ASSUME Loop \/ OtherKey \/ ClearFinished \/ Quit \/ StopAll
                \/ Start \/ (\E k \in Keys : StopKey(k))
         PROVE  fresh' = fresh /\ pc # "spawned" /\ pc' # "spawned"
    BY <1>10 DEF Loop, OtherKey, ClearFinished, Quit, StopAll, Start, StopKey, Ended
  <1>11. ASSUME Register \/ Interrupt \/ Exit \/ CutShort \/ Crash
         PROVE  fresh' = NoGroup /\ pc' # "spawned"
    BY <1>11 DEF Register, Interrupt, Exit, CutShort, Crash, Forget
  <1>12. CASE UNCHANGED vars
    BY <1>12 DEF vars, FreshInv
  <1> QED
    BY <1>1, <1>2, <1>4, <1>5, <1>6, <1>7, <1>9, <1>10, <1>11, <1>12
    DEF Next, Session, Key, Ending, Threads, System

-----------------------------------------------------------------------------
(* What the session knows of, and what it records.                         *)

LEMMA HeldKept ==
  ASSUME TypeOK, OwnerInv, HeldInv, Shrinks, pc \in Running, fresh' = fresh,
         \A k \in Keys : Kept(job[k], job'[k]),
         \A k \in Keys : Alive(orphans[k]) => orphans'[k] = orphans[k]
  PROVE  HeldInv'
  <1> SUFFICES ASSUME NEW g \in Groups, g \notin missed', kern'[g] \in Living
               PROVE  \/ g = fresh' \/ job'[owner'[g]].pgid = g
                      \/ orphans'[owner'[g]] = g
    BY DEF HeldInv, Held
  <1>1. /\ kern[g] \in Living /\ g \notin missed /\ owner'[g] = owner[g]
        /\ owner[g] \in Keys
    BY DEF Shrinks, OwnerInv
  <1>2. Held(g)
    BY <1>1 DEF HeldInv
  <1>3. Alive(g)
    BY <1>1, IdAssumption DEF Alive, Living
  <1> QED
    BY <1>1, <1>2, <1>3 DEF Held, Kept, JobAlive

LEMMA HeldStep ==
  TypeOK /\ OwnerInv /\ TableInv /\ FreshInv /\ HeldInv /\ [Next]_vars => HeldInv'
  <1> SUFFICES ASSUME TypeOK, OwnerInv, TableInv, FreshInv, HeldInv, [Next]_vars
               PROVE  HeldInv'
    OBVIOUS
  <1> USE DEF kernVars, newVars, diskVars
  <1>0. \A k \in Keys : job[k] \in Job /\ Kept(job[k], job[k])
    BY KeptSelf DEF TypeOK
  <1>1. ASSUME pc' \notin Running PROVE HeldInv'
    BY <1>1 DEF HeldInv
  <1>2. ASSUME Tending PROVE HeldInv'
    <2>1. \A k \in Keys : Kept(job[k], job'[k])
      BY <1>2, TendingKeeps
    <2>2. fresh' = fresh
      BY <1>2 DEF Tending, Loop, OtherKey, ClearFinished, StopAll, Tick, StopKey,
                  EscalatorSees, Escalate
    <2>3. \A k \in Keys : Alive(orphans[k]) => orphans'[k] = orphans[k]
      BY <1>2 DEF Tending, Loop, OtherKey, ClearFinished, StopAll, Tick, StopKey,
                  EscalatorSees, Escalate, Surviving
    <2>4. pc' \in Running => pc \in Running
      BY <1>2 DEF Tending, Loop, OtherKey, ClearFinished, StopAll, Tick, StopKey,
                  EscalatorSees, Escalate, Running
    <2>5. CASE Shrinks
      BY <1>1, <2>1, <2>2, <2>3, <2>4, <2>5, HeldKept
    <2>6. ASSUME NEW k \in Keys, NEW g \in Groups, Makes(k, g) PROVE FALSE
      BY <2>2, <2>6 DEF Makes, Launch, FreshInv
    <2> QED
      BY <2>5, <2>6, ShrinkStep
  <1>3. ASSUME NEW g \in Groups, GroupEnds(g) \/ Reuse(g) PROVE HeldInv'
    <2>1. pc' = pc /\ fresh' = fresh /\ job' = job /\ orphans' = orphans
      BY <1>3 DEF GroupEnds, Reuse
    <2>2. ASSUME NEW k \in Keys, NEW h \in Groups, Makes(k, h) PROVE FALSE
      BY <2>1, <2>2 DEF Makes, Launch, FreshInv
    <2> QED
      BY <1>0, <1>1, <2>1, <2>2, ShrinkStep, HeldKept
  <1>4. ASSUME NEW k \in Keys, Refused(k) PROVE HeldInv'
    <2> DEFINE K == IF Resource[k] = {} THEN {k} ELSE Keys
    <2>1. /\ kern' = kern /\ owner' = owner /\ missed' = missed /\ pc = "key"
          /\ job' = [Looked(K) EXCEPT ![k] = NoJob] /\ ~JobAlive(job[k])
          /\ fresh' = fresh /\ orphans' = orphans
      BY <1>4 DEF Refused, Launch
    <2>2. Kept(job[k], NoJob)
      BY <1>0, <2>1, NoJobType DEF Kept
    <2>3. \A c \in Keys : Kept(job[c], job'[c])
      BY <2>1, <2>2, LookedKeeps DEF Looked
    <2>4. Shrinks
      BY <2>1 DEF OwnerInv, Shrinks, TypeOK
    <2> QED
      BY <2>1, <2>3, <2>4, HeldKept DEF Running
  <1>5. ASSUME NEW k \in Keys, NEW g \in Groups, Makes(k, g) PROVE HeldInv'
    <2>1. /\ kern[g] = "free" /\ kern' = [kern EXCEPT ![g] = "ours"]
          /\ owner' = [owner EXCEPT ![g] = k] /\ fresh' = g /\ pc = "key"
          /\ job' = Looked(IF Resource[k] = {} THEN {k} ELSE Keys)
          /\ orphans' = orphans /\ missed' = missed
      BY <1>5 DEF Makes, Launch
    <2>2. \A c \in Keys : Kept(job[c], job'[c])
      BY <2>1, LookedKeeps
    <2>3. ASSUME NEW h \in Groups, h # g, h \notin missed, kern'[h] \in Living
          PROVE  job'[owner'[h]].pgid = h \/ orphans'[owner'[h]] = h
      <3>1. kern[h] \in Living /\ owner'[h] = owner[h] /\ owner[h] \in Keys
        BY <2>1, <2>3 DEF OwnerInv, TypeOK
      <3>2. job[owner[h]].pgid = h \/ orphans[owner[h]] = h
        BY <2>1, <2>3, <3>1 DEF HeldInv, Held, FreshInv, Running
      <3>3. Alive(h)
        BY <3>1, IdAssumption DEF Alive, Living
      <3> QED
        BY <2>1, <2>2, <3>1, <3>2, <3>3 DEF Kept, JobAlive
    <2> QED
      BY <2>1, <2>3 DEF HeldInv, Held
  <1>6. ASSUME Register PROVE HeldInv'
    <2>1. /\ pc = "spawned" /\ kern' = kern /\ owner' = owner /\ orphans' = orphans
          /\ missed' = missed /\ job' = [job EXCEPT ![starting] = NewJob(fresh)]
      BY <1>6 DEF Register
    <2>2. /\ fresh \in Groups /\ starting \in Keys /\ job[starting].pgid = NoGroup
          /\ kern[fresh] \in Living => owner[fresh] = starting
      BY <2>1 DEF FreshInv
    <2>3. /\ job'[starting].pgid = fresh
          /\ \A k \in Keys \ {starting} : job'[k] = job[k]
      BY <2>1, <2>2, NewJobType DEF TypeOK, Id
    <2>4. ASSUME NEW g \in Groups \ missed, kern[g] \in Living
          PROVE  job'[owner[g]].pgid = g \/ orphans[owner[g]] = g
      <3>1. owner[g] \in Keys /\ Held(g) /\ g # NoGroup
        BY <2>1, <2>4, IdAssumption DEF OwnerInv, HeldInv, Running
      <3> QED
        BY <2>2, <2>3, <2>4, <3>1 DEF Held
    <2> QED
      BY <2>1, <2>4 DEF HeldInv, Held
  <1>7. ASSUME Start PROVE HeldInv'
    <2>1. /\ kern' = kern /\ owner' = owner
          /\ missed' = missed \union {g \in Groups : Ours(g) /\ orphans'[owner[g]] # g}
      BY <1>7 DEF Start
    <2> QED
      BY <2>1 DEF HeldInv, Held, Ours, Living
  <1>8. ASSUME Quit \/ Interrupt \/ Exit \/ CutShort \/ Crash PROVE pc' \notin Running
    BY <1>8 DEF Quit, Interrupt, Exit, CutShort, Crash, Running
  <1>9. CASE UNCHANGED vars
    BY <1>9 DEF vars, HeldInv, Held
  <1> QED
    BY <1>1, <1>2, <1>3, <1>4, <1>5, <1>6, <1>7, <1>8, <1>9, LaunchSplit
    DEF Next, Session, Key, Ending, Threads, System, Tending

LEMMA ExclusiveStep ==
  TypeOK /\ OwnerInv /\ TableInv /\ FreshInv /\ HeldInv /\ Exclusive /\ [Next]_vars
    => Exclusive'
  <1> SUFFICES ASSUME TypeOK, OwnerInv, TableInv, FreshInv, HeldInv, Exclusive,
                      [Next]_vars
               PROVE  Exclusive'
    OBVIOUS
  <1> USE DEF Ours, Living
  <1>1. CASE Shrinks
    BY <1>1 DEF Shrinks, Exclusive
  <1>2. ASSUME NEW k \in Keys, NEW g \in Groups, Makes(k, g) PROVE Exclusive'
    <2>1. /\ kern[g] = "free" /\ kern' = [kern EXCEPT ![g] = "ours"]
          /\ owner' = [owner EXCEPT ![g] = k] /\ pc = "key" /\ missed' = missed
          /\ ~JobAlive(job[k]) /\ Holders(k) = {}
      BY <1>2 DEF Makes, Launch
    <2>2. \A h \in Groups \ {g} : kern'[h] = kern[h] /\ owner'[h] = owner[h]
      BY <2>1 DEF TypeOK
    <2>3. ASSUME NEW h \in Groups \ missed, h # g, kern[h] \in Living
          PROVE  Resource[k] \intersect Resource[owner[h]] = {}
      <3>1. /\ owner[h] \in Keys
            /\ job[owner[h]].pgid = h \/ orphans[owner[h]] = h
        BY <2>1, <2>3 DEF OwnerInv, HeldInv, Held, FreshInv, Running
      <3>2. Alive(h)
        BY <2>3, IdAssumption DEF Alive
      <3>3. CASE orphans[owner[h]] = h
        BY <2>1, <3>1, <3>2, <3>3 DEF Holders
      <3>4. CASE job[owner[h]].pgid = h
        <4>1. JobAlive(job[owner[h]])
          BY <3>2, <3>4 DEF JobAlive
        <4>2. owner[h] # k
          BY <2>1, <4>1
        <4> QED
          BY <2>1, <3>1, <4>1, <4>2 DEF Holders
      <3> QED
        BY <3>1, <3>3, <3>4
    <2>4. owner'[g] = k
      BY <2>1 DEF TypeOK
    <2> QED
      BY <2>1, <2>2, <2>3, <2>4 DEF Exclusive
  <1> QED
    BY <1>1, <1>2, ShrinkStep

LEMMA LastStep ==
  TypeOK /\ OwnerInv /\ TableInv /\ FreshInv /\ HeldInv /\ Exclusive /\ LastInv
    /\ [Next]_vars => LastInv'
  <1> SUFFICES ASSUME TypeOK, OwnerInv, TableInv, FreshInv, HeldInv, Exclusive,
                      LastInv, [Next]_vars, pc' = "key"
               PROVE  LastInv'
    BY DEF LastInv
  <1> USE DEF kernVars, newVars, diskVars
  <1>1. CASE Loop
    <2>1. /\ owner' = owner /\ missed' = missed /\ last' = LiveGroups
          /\ kern' = Released(Groups) /\ pc \in {"first", "loop"}
      BY <1>1 DEF Loop
    <2>2. ASSUME NEW g \in Groups \ missed, kern'[g] \in Living,
                 Resource[owner[g]] # {}
          PROVE  LiveGroups[owner[g]] = g
      <3>1. kern[g] \in Living
        BY <2>1, <2>2 DEF Released, Living
      <3>2. /\ owner[g] \in Keys /\ Alive(g)
            /\ job[owner[g]].pgid = g \/ orphans[owner[g]] = g
        BY <2>1, <3>1, IdAssumption
        DEF OwnerInv, HeldInv, Held, FreshInv, Running, Alive, Living
      <3>3. CASE JobAlive(job[owner[g]])
        <4> DEFINE p == job[owner[g]].pgid
        <4>1. /\ p \in Groups \ missed /\ kern[p] \in Living /\ owner[p] = owner[g]
          BY <3>2, <3>3, AliveIsLiving
        <4>2. p = g
          <5>1. Ours(g) /\ Ours(p)
            BY <3>1, <4>1 DEF Ours, Living
          <5> HIDE DEF p
          <5> QED
            BY <2>2, <4>1, <5>1 DEF Exclusive
        <4> QED
          BY <3>2, <3>3, <4>2 DEF LiveGroups
      <3>4. CASE ~JobAlive(job[owner[g]])
        <4>1. job[owner[g]].pgid # g
          BY <3>2, <3>4 DEF JobAlive
        <4> QED
          BY <3>2, <3>4, <4>1 DEF LiveGroups, Surviving
      <3> QED
        BY <3>3, <3>4
    <2> QED
      BY <2>1, <2>2 DEF LastInv
  <1>2. CASE pc = "key" /\ last' = last
    <2>1. ~\E k \in Keys, g \in Groups : Makes(k, g)
      BY <1>2 DEF Makes
    <2>2. Shrinks
      BY <2>1, ShrinkStep
    <2> QED
      BY <1>2, <2>2 DEF LastInv, Shrinks
  <1>3. Loop \/ (pc = "key" /\ last' = last)
    BY DEF Next, Session, Key, Ending, Threads, System, OtherKey, ClearFinished,
           Launch, Register, StopKey, Quit, Interrupt, StopAll, Exit, CutShort,
           Crash, Start, EscalatorSees, Escalate, Tick, GroupEnds, Reuse, vars
  <1> QED
    BY <1>1, <1>2, <1>3

-----------------------------------------------------------------------------
(* Time.                                                                   *)

LEMMA NoExitWindows ==
  ASSUME \A k \in Keys : job'[k].windows = "job"
  PROVE  WindowInv'
  BY DEF WindowInv

LEMMA WindowStep ==
  TypeOK /\ TableInv /\ WindowInv /\ [Next]_vars => WindowInv'
  <1> SUFFICES ASSUME TypeOK, TableInv, WindowInv, [Next]_vars PROVE WindowInv'
    OBVIOUS
  <1> USE DEF kernVars, newVars, diskVars
  <1>0. /\ NoGroup \notin Groups
        /\ kern \in [Groups -> {"free", "ours", "killed", "ended", "foreign"}]
        /\ job \in [Keys -> Job] /\ \A k \in Keys : job[k] \in Job
        /\ NoJob.windows = "job"
    BY NoJobType, IdAssumption DEF TypeOK
  <1>1. ASSUME Loop \/ OtherKey \/ ClearFinished \/ Register
               \/ \E k \in Keys : StopKey(k) \/ Launch(k)
        PROVE  \A k \in Keys : job'[k].windows = "job"
    <2>1. \A k \in Keys : job[k].windows = "job" /\ Look(job[k]).windows = "job"
      <3>1. pc # "stopping"
        BY <1>1 DEF Loop, OtherKey, ClearFinished, Register, StopKey, Launch
      <3> QED
        BY <1>0, <3>1, LookKeeps DEF WindowInv
    <2>2. \A K : Looked(K) \in [Keys -> Job] /\ \A k \in Keys : Looked(K)[k].windows = "job"
      BY <2>1, LookedKeeps DEF Looked, Kept
    <2>3. CASE Loop \/ OtherKey
      BY <2>2, <2>3 DEF Loop, OtherKey
    <2>4. CASE ClearFinished
      BY <1>0, <2>1, <2>4 DEF ClearFinished
    <2>5. CASE Register
      <3>1. fresh \in Id
        BY DEF TypeOK
      <3> QED
        BY <1>0, <2>1, <2>5, <3>1, NewJobType DEF Register
    <2>6. ASSUME NEW k \in Keys, StopKey(k) PROVE \A c \in Keys : job'[c].windows = "job"
      <3>1. Stopped(job[k], "job").windows = "job"
        BY <1>0, <2>1, StoppedKeeps DEF Windows
      <3> QED
        BY <1>0, <2>1, <2>6, <3>1 DEF StopKey
    <2>7. ASSUME NEW k \in Keys, Launch(k) PROVE \A c \in Keys : job'[c].windows = "job"
      <3> DEFINE K == IF Resource[k] = {} THEN {k} ELSE Keys
      <3>1. job' = Looked(K) \/ job' = [Looked(K) EXCEPT ![k] = NoJob]
        BY <2>7, LaunchSplit DEF Refused, Makes
      <3> HIDE DEF K
      <3>2. Looked(K) \in [Keys -> Job] /\ \A c \in Keys : Looked(K)[c].windows = "job"
        BY <2>2
      <3> QED
        BY <1>0, <3>1, <3>2
    <2> QED
      BY <1>1, <2>3, <2>4, <2>5, <2>6, <2>7
  <1>2. ASSUME StopAll PROVE WindowInv'
    <2>1. /\ pc = "quit" /\ pc' = "stopping" /\ waited' = 0
          /\ job' = [k \in Keys |-> Stopped(job[k], "exit")]
      BY <1>2 DEF StopAll
    <2>2. \A k \in Keys : job[k].windows = "job"
      BY <2>1 DEF WindowInv
    <2>3. ASSUME NEW k \in Keys, job'[k].windows = "exit"
          PROVE  job'[k].stage = "int" /\ job'[k].left = ExitTerm
      <3>1. Look(job[k]).windows = "job"
        BY <1>0, <2>2, LookKeeps
      <3> QED
        BY <1>0, <2>1, <2>3, <3>1, StoppedKeeps, Windowing DEF Windows
    <2>4. waited' + ExitTerm = ExitTerm
      BY <2>1, WindowAssumption
    <2> QED
      BY <2>1, <2>3, <2>4 DEF WindowInv
  <1>3. ASSUME Tick PROVE WindowInv'
    <2>1. /\ kern' = kern /\ pc' = pc
          /\ waited' = IF pc = "stopping" THEN waited + 1 ELSE waited
          /\ job' = [k \in Keys |-> IF job[k].stage \in Escalating
                                    THEN [job[k] EXCEPT !.left = @ - 1] ELSE job[k]]
      BY <1>3 DEF Tick
    <2>2. ASSUME NEW k \in Keys
          PROVE  /\ job'[k].stage = job[k].stage /\ job'[k].windows = job[k].windows
                 /\ job'[k].pgid = job[k].pgid
                 /\ job[k].stage \in Escalating => job'[k].left = job[k].left - 1
      BY <1>0, <2>1 DEF Job
    <2>3. ASSUME NEW k \in Keys, job[k].windows = "exit", job[k].stage \in {"int", "term"}
          PROVE  waited' + job'[k].left = waited + job[k].left
      <3>1. pc = "stopping"
        BY <2>3 DEF WindowInv
      <3>2. job'[k].left = job[k].left - 1 /\ waited' = waited + 1
        BY <2>1, <2>2, <2>3, <3>1 DEF Escalating
      <3>3. job[k].left \in Nat /\ waited \in Nat
        BY <1>0 DEF Job, TypeOK
      <3> QED
        BY <3>2, <3>3
    <2> QED
      BY <2>1, <2>2, <2>3 DEF WindowInv
  <1>4. ASSUME NEW c \in Keys, EscalatorSees(c) PROVE WindowInv'
    <2>1. /\ job' = [job EXCEPT ![c] = NoJob] /\ kern' = Released({job[c].pgid})
          /\ pc' = pc /\ waited' = waited
      BY <1>4 DEF EscalatorSees
    <2>2. \A g \in Groups : g # job[c].pgid => kern'[g] = kern[g]
      BY <2>1 DEF Released
    <2>3. \A k \in Keys \ {c} : /\ job'[k] = job[k]
                                /\ job[k].pgid \in Groups => kern'[job[k].pgid] = kern[job[k].pgid]
      BY <1>0, <2>1, <2>2 DEF TableInv
    <2>4. job'[c].windows = "job"
      BY <1>0, <2>1
    <2>5. ASSUME pc # "stopping", NEW k \in Keys PROVE job'[k].windows = "job"
      BY <2>3, <2>4, <2>5 DEF WindowInv
    <2>6. ASSUME NEW k \in Keys, job'[k].windows = "exit" PROVE k # c /\ job'[k] = job[k]
      BY <2>3, <2>4, <2>6
    <2>7. ASSUME NEW k \in Keys, k # c, job[k].windows = "exit",
                 job[k].stage \in {"kill", "over"}, job[k].pgid \in Groups
          PROVE  kern'[job[k].pgid] \in {"killed", "ended"}
      BY <2>3, <2>7 DEF WindowInv
    <2> QED
      BY <2>1, <2>5, <2>6, <2>7 DEF WindowInv
  <1>5. ASSUME NEW c \in Keys, Escalate(c) PROVE WindowInv'
    <2>1. /\ pc' = pc /\ waited' = waited /\ JobAlive(job[c]) /\ job[c].left = 0
          /\ job[c] \in Job
      BY <1>0, <1>5 DEF Escalate
    <2>2. job[c].pgid \in Groups /\ kern[job[c].pgid] \in Living
      BY <2>1, AliveIsLiving
    <2>3. \A k \in Keys \ {c} : job'[k] = job[k]
      BY <1>0, <1>5 DEF Escalate
    <2>4. \A g \in Groups : kern[g] \in {"killed", "ended"} => kern'[g] = kern[g]
      BY <1>0, <1>5 DEF Escalate
    <2>5. CASE job[c].stage = "int"
      <3>1. job' = [job EXCEPT ![c].stage = "term",
                               ![c].left = KillWindow[job[c].windows]]
        BY <1>5, <2>5 DEF Escalate
      <3>2. /\ job'[c].stage = "term" /\ job'[c].windows = job[c].windows
            /\ job'[c].left = KillWindow[job[c].windows]
        BY <1>0, <2>1, <3>1 DEF Job
      <3>3. job[c].windows = "exit" => waited + job'[c].left = ExitTerm + ExitKill
        <4> SUFFICES ASSUME job[c].windows = "exit"
                     PROVE  waited + job'[c].left = ExitTerm + ExitKill
          OBVIOUS
        <4>1. waited + 0 = ExitTerm
          BY <2>1, <2>5 DEF WindowInv
        <4>2. job'[c].left = ExitKill /\ waited \in Nat
          BY <3>2, Windowing DEF TypeOK
        <4> QED
          BY <4>1, <4>2, WindowAssumption
      <3> QED
        BY <2>1, <2>3, <2>4, <3>2, <3>3 DEF WindowInv
    <2>6. CASE job[c].stage = "term"
      <3>1. /\ job' = [job EXCEPT ![c].stage = "kill", ![c].left = 1]
            /\ kern' = [kern EXCEPT ![job[c].pgid] = IF @ = "ours" THEN "killed" ELSE @]
        BY <1>5, <2>6 DEF Escalate
      <3>2. /\ job'[c].stage = "kill" /\ job'[c].windows = job[c].windows
            /\ job'[c].pgid = job[c].pgid
        BY <1>0, <2>1, <3>1 DEF Job
      <3>3. kern'[job[c].pgid] = "killed"
        BY <1>0, <2>2, <3>1 DEF Living
      <3> QED
        BY <2>1, <2>3, <2>4, <3>2, <3>3 DEF WindowInv
    <2>7. CASE job[c].stage = "kill"
      <3>1. job' = [job EXCEPT ![c].stage = "over"]
        BY <1>5, <2>7 DEF Escalate
      <3>2. /\ job'[c].stage = "over" /\ job'[c].windows = job[c].windows
            /\ job'[c].pgid = job[c].pgid
        BY <1>0, <2>1, <3>1 DEF Job
      <3> QED
        BY <2>1, <2>3, <2>4, <2>7, <3>2 DEF WindowInv
    <2> QED
      BY <1>5, <2>5, <2>6, <2>7 DEF Escalate
  <1>6. ASSUME NEW g \in Groups, GroupEnds(g) \/ Reuse(g) PROVE WindowInv'
    <2>1. job' = job /\ pc' = pc /\ waited' = waited
      BY <1>6 DEF GroupEnds, Reuse
    <2>2. ASSUME NEW k \in Keys, job[k].pgid \in Groups,
                 kern[job[k].pgid] \in {"killed", "ended"}
          PROVE  kern'[job[k].pgid] \in {"killed", "ended"}
      <3>1. pc \notin Ended
        BY <1>0, <2>2, NoJobType DEF TableInv
      <3>2. \/ kern' = [kern EXCEPT ![g] = "ended"]
            \/ kern' = [kern EXCEPT ![g] = "foreign"] /\ kern[g] = "free"
        BY <1>6, <3>1 DEF GroupEnds, Reuse
      <3> QED
        BY <1>0, <2>2, <3>2
    <2> QED
      BY <2>1, <2>2 DEF WindowInv
  <1>7. ASSUME Exit \/ CutShort \/ Crash PROVE \A k \in Keys : job'[k].windows = "job"
    BY <1>0, <1>7 DEF Exit, CutShort, Crash, Forget
  <1>8. ASSUME Quit \/ Interrupt \/ Start PROVE \A k \in Keys : job'[k].windows = "job"
    BY <1>8 DEF Quit, Interrupt, Start, WindowInv, Ended
  <1>9. CASE UNCHANGED vars
    BY <1>9 DEF vars, WindowInv
  <1> QED
    BY <1>1, <1>2, <1>3, <1>4, <1>5, <1>6, <1>7, <1>8, <1>9, NoExitWindows
    DEF Next, Session, Key, Ending, Threads, System

-----------------------------------------------------------------------------
(* What the manager guarantees.                                            *)

LEMMA InvInit == Init => IInv
  <1> SUFFICES ASSUME Init PROVE IInv
    OBVIOUS
  <1>1. TypeOK
    BY TypeInit
  <1>2. /\ \A g \in Groups : kern[g] \notin Living
        /\ missed = {} /\ pc = "first" /\ fresh \notin Groups
        /\ \A k \in Keys : /\ job[k].pgid = NoGroup /\ job[k].windows = "job"
                           /\ NoGroup \notin Groups
    BY NoJobType, IdAssumption DEF Init, Living
  <1> QED
    BY <1>1, <1>2 DEF IInv, OwnerInv, TableInv, FreshInv, HeldInv, Exclusive,
                      LastInv, WindowInv, Ended, Ours, Living

LEMMA Invariance == Safety => []IInv
  <1>1. IInv /\ [Next]_vars => IInv'
    BY TypeStep, OwnerStep, TableStep, FreshStep, HeldStep, ExclusiveStep,
       LastStep, WindowStep DEF IInv
  <1> QED
    BY InvInit, <1>1, PTL DEF Safety

\* Two living groups never hold the same resource, unless a session ended
\* before it could record one of them.
THEOREM ExclusiveHolds == Safety => []Exclusive
  BY Invariance, PTL DEF IInv

\* While the TUI waits for a key and its last write succeeded, the file
\* lists every living group that holds a resource.
THEOREM RecordCoversHolds == Safety => []RecordCovers
  <1>1. IInv => RecordCovers
    BY DEF IInv, LastInv, RecordCovers, Ours, Living
  <1> QED
    BY <1>1, Invariance, PTL

\* A signal is only ever sent to a group the TUI made.
THEOREM OnlyOwnGroupsSignalledHolds == Safety => OnlyOwnGroupsSignalled
  <1> DEFINE P == \A k \in Keys :
                    job'[k].stage \in Escalating \ {job[k].stage} => Ours(job[k].pgid)
  <1>1. IInv /\ [Next]_vars => P
    <2> SUFFICES ASSUME IInv, [Next]_vars, NEW k \in Keys,
                        job'[k].stage \in Escalating \ {job[k].stage}
                 PROVE  JobAlive(job[k])
      BY AliveIsLiving DEF IInv, Ours, Living
    <2> USE DEF kernVars, newVars, diskVars
    <2>0. /\ TypeOK /\ job \in [Keys -> Job] /\ job[k] \in Job
          /\ NoJob.stage \notin Escalating
      BY NoJobType DEF IInv, TypeOK, Escalating
    <2>1. job'[k] # job[k] /\ job'[k] # NoJob
      BY <2>0
    <2>2. job'[k] # Look(job[k])
      BY <2>0, LookKeeps
    <2>3. \A w \in Windows : job'[k] = Stopped(job[k], w) => JobAlive(job[k])
      BY <2>0, <2>2, StoppedKeeps
    <2>4. \A K : job'[k] # Looked(K)[k]
      BY <2>0, <2>1, <2>2, LookedKeeps
    <2>5. CASE StopAll
      BY <2>3, <2>5 DEF StopAll, Windows
    <2>6. ASSUME NEW c \in Keys, StopKey(c) PROVE JobAlive(job[k])
      BY <2>0, <2>1, <2>3, <2>6 DEF StopKey, Windows
    <2>7. ASSUME NEW c \in Keys, Escalate(c) PROVE JobAlive(job[k])
      BY <2>0, <2>1, <2>7 DEF Escalate
    <2>8. CASE Tick
      <3>1. job'[k].stage = job[k].stage
        BY <2>0, <2>8 DEF Tick, Job
      <3> QED
        BY <3>1
    <2>9. ASSUME NEW c \in Keys, Launch(c) PROVE FALSE
      <3>1. CASE Refused(c)
        BY <2>0, <2>1, <2>4, <3>1 DEF Refused, Looked
      <3> QED
        BY <2>4, <2>9, <3>1, LaunchSplit DEF Makes
    <2>10. CASE Register
      <3>1. NewJob(fresh).stage \notin Escalating
        BY <2>0, NewJobType DEF TypeOK, Escalating
      <3> QED
        BY <2>0, <2>1, <2>10, <3>1 DEF Register
    <2>11. ~Loop /\ ~OtherKey
      BY <2>4 DEF Loop, OtherKey
    <2>12. ~ClearFinished /\ ~\E c \in Keys : EscalatorSees(c)
      BY <2>0, <2>1 DEF ClearFinished, EscalatorSees
    <2>13. ~(Exit \/ CutShort \/ Crash)
      BY <2>1 DEF Exit, CutShort, Crash, Forget
    <2>14. ~(Quit \/ Interrupt \/ Start \/ UNCHANGED vars
             \/ \E g \in Groups : GroupEnds(g) \/ Reuse(g))
      BY <2>1 DEF Quit, Interrupt, Start, vars, GroupEnds, Reuse
    <2> QED
      BY <2>5, <2>6, <2>7, <2>8, <2>9, <2>10, <2>11, <2>12, <2>13, <2>14
      DEF Next, Session, Key, Ending, Threads, System
  <1>2. IInv /\ [Next]_vars => [P]_vars
    BY <1>1
  <1> QED
    BY <1>2, Invariance, PTL DEF Safety, OnlyOwnGroupsSignalled

\* When stop_all has returned, what it began to stop is gone or was sent
\* SIGKILL.
THEOREM ExitKillsHolds == Safety => ExitKills
  <1> DEFINE P == pc' = "exited" =>
                    \A k \in Keys : job[k].windows = "exit" /\ JobAlive(job[k])
                                     => kern[job[k].pgid] = "killed"
  <1>1. IInv /\ [Next]_vars => P
    <2> SUFFICES ASSUME IInv, [Next]_vars, pc' = "exited", NEW k \in Keys,
                        job[k].windows = "exit", JobAlive(job[k])
                 PROVE  kern[job[k].pgid] = "killed"
      OBVIOUS
    <2>1. pc = "stopping"
      BY DEF IInv, WindowInv
    <2>2. waited = ExitTotal
      BY <2>1 DEF Next, Session, Key, Ending, Threads, System, Loop, OtherKey,
           ClearFinished, Launch, Register, StopKey, Quit, Interrupt, StopAll,
           Exit, CutShort, Crash, Start, EscalatorSees, Escalate, Tick,
           GroupEnds, Reuse, vars
    <2>3. /\ TypeOK /\ TableInv /\ job[k] \in Job
          /\ job[k].stage = "int" => waited + job[k].left = ExitTerm
          /\ job[k].stage = "term" => waited + job[k].left = ExitTerm + ExitKill
          /\ job[k].stage # "run"
      BY DEF IInv, WindowInv, TypeOK
    <2>4. job[k].left \in Nat /\ job[k].stage \in {"run", "over", "int", "term", "kill"}
      BY <2>3, WindowAssumption DEF Job, MaxLeft, Escalating
    <2>5. job[k].stage \notin {"int", "term"}
      BY <2>2, <2>3, <2>4, WindowAssumption
    <2>6. job[k].pgid \in Groups /\ kern[job[k].pgid] \in Living
      BY <2>3, AliveIsLiving
    <2> QED
      BY <2>3, <2>4, <2>5, <2>6 DEF IInv, WindowInv, Living
  <1>2. IInv /\ [Next]_vars => [P]_vars
    BY <1>1
  <1> QED
    BY <1>2, Invariance, PTL DEF Safety, ExitKills

-----------------------------------------------------------------------------
(* An escalation ends: the part of StoppedGroupDies that is about states   *)
(* and steps.  What is left for the runs is that time passes, escalators   *)
(* get the processor and SIGKILL takes effect.                             *)

\* A group is not given up before it was sent SIGKILL: when the escalator of
\* a job whose group still lives has sent its last signal, or has ended, that
\* signal was SIGKILL.
GivesUpOnlyAfterKill ==
  \A k \in Keys : job[k].stage \in {"kill", "over"} /\ JobAlive(job[k])
                    => kern[job[k].pgid] = "killed"

KillInv ==
  \A k \in Keys : job[k].stage \in {"kill", "over"} /\ job[k].pgid \in Groups
                    => kern[job[k].pgid] \in {"killed", "ended"}

LEMMA EscalationKept ==
  ASSUME IInv, [Next]_vars, pc' \notin Ended, NEW k \in Keys, JobAlive(job[k]),
         job[k].stage \in Escalating
  PROVE  job'[k] = job[k] \/ Tick \/ Escalate(k)
  <1> USE DEF kernVars, newVars, diskVars
  <1>0. job \in [Keys -> Job] /\ job[k] \in Job
    BY DEF IInv, TypeOK
  <1>1. /\ Look(job[k]) = job[k]
        /\ \A w : Stopped(job[k], w) = job[k]
        /\ \A K : Looked(K)[k] = job[k]
    BY DEF Look, Stopped, Looked
  <1>2. ASSUME NEW c \in Keys, StopKey(c) \/ EscalatorSees(c) \/ Escalate(c)
        PROVE  job'[k] = job[k] \/ Escalate(k)
    BY <1>0, <1>1, <1>2 DEF StopKey, EscalatorSees, Escalate
  <1>3. ASSUME NEW c \in Keys, Launch(c) PROVE job'[k] = job[k]
    <2>1. c # k
      BY <1>3 DEF Launch
    <2>2. CASE Refused(c)
      BY <1>1, <2>1, <2>2 DEF Refused, Looked
    <2>3. ASSUME NEW g \in Groups, Makes(c, g) PROVE job'[k] = job[k]
      BY <1>1, <2>3 DEF Makes
    <2> QED
      BY <1>3, <2>2, <2>3, LaunchSplit
  <1>4. CASE Register
    <2>1. job[starting].pgid = NoGroup
      BY <1>4 DEF IInv, FreshInv, Register
    <2>2. starting # k
      BY <2>1 DEF JobAlive, Alive
    <2> QED
      BY <1>0, <1>4, <2>2 DEF Register
  <1>5. CASE Loop \/ OtherKey \/ ClearFinished \/ StopAll
    BY <1>1, <1>5 DEF Loop, OtherKey, ClearFinished, StopAll
  <1>6. CASE Quit \/ Interrupt \/ Start \/ UNCHANGED vars
             \/ \E g \in Groups : GroupEnds(g) \/ Reuse(g)
    BY <1>6 DEF Quit, Interrupt, Start, vars, GroupEnds, Reuse
  <1>7. ~(Exit \/ CutShort \/ Crash)
    BY DEF Exit, CutShort, Crash, Ended
  <1> QED
    BY <1>2, <1>3, <1>4, <1>5, <1>6, <1>7
    DEF Next, Session, Key, Ending, Threads, System

\* What the table names of a group that was sent SIGKILL.
LEMMA KilledStays ==
  ASSUME IInv, [Next]_vars, NEW g \in Groups, kern[g] \in {"killed", "ended"},
         NEW k \in Keys, job'[k].pgid = g, job[k].pgid = g
  PROVE  kern'[g] \in {"killed", "ended"}
  <1> USE DEF kernVars, newVars, diskVars
  <1>0. /\ kern \in [Groups -> {"free", "ours", "killed", "ended", "foreign"}]
        /\ TypeOK /\ TableInv /\ TableInv'
    BY TableStep DEF IInv, TypeOK
  <1>1. kern'[g] \in Launched
    BY <1>0 DEF TableInv
  <1>2. kern'[g] # "ours"
    <2>1. ASSUME NEW c \in Keys, NEW h \in Groups, Makes(c, h)
          PROVE  kern'[g] # "ours"
      BY <1>0, <2>1 DEF Makes
    <2>2. ASSUME NEW c \in Keys, Launch(c) PROVE kern'[g] # "ours"
      BY <2>1, <2>2, LaunchSplit DEF Refused
    <2> QED
      BY <1>0, <2>2
      DEF Next, Session, Key, Ending, Threads, System, Loop, OtherKey,
          ClearFinished, Register, StopKey, Quit, Interrupt, StopAll, Exit,
          CutShort, Crash, Start, EscalatorSees, Escalate, Tick, GroupEnds,
          Reuse, vars, Released
  <1> QED
    BY <1>1, <1>2 DEF Launched

LEMMA KillStep == IInv /\ KillInv /\ [Next]_vars => KillInv'
  <1> SUFFICES ASSUME IInv, KillInv, [Next]_vars, NEW k \in Keys,
                      job'[k].stage \in {"kill", "over"}, job'[k].pgid \in Groups
               PROVE  kern'[job'[k].pgid] \in {"killed", "ended"}
    BY DEF KillInv
  <1> USE DEF kernVars, newVars, diskVars
  <1>0. /\ job \in [Keys -> Job] /\ job[k] \in Job /\ NoGroup \notin Groups
        /\ TypeOK /\ TableInv
        /\ kern \in [Groups -> {"free", "ours", "killed", "ended", "foreign"}]
    BY IdAssumption DEF IInv, TypeOK
  <1>1. ASSUME job[k].stage \in {"kill", "over"}, job'[k].pgid = job[k].pgid
        PROVE  kern'[job'[k].pgid] \in {"killed", "ended"}
    BY <1>1, KilledStays DEF KillInv
  <1>2. job'[k] # NoJob
    BY <1>0, NoJobType
  <1>3. ASSUME job'[k] = Look(job[k])
        PROVE  kern'[job'[k].pgid] \in {"killed", "ended"}
    <2>1. job'[k].pgid = job[k].pgid /\ job'[k].stage = job[k].stage
      BY <1>0, <1>2, <1>3, LookKeeps DEF Kept
    <2> QED
      BY <1>1, <2>1
  <1>4. ASSUME NEW w \in Windows, job'[k] = Stopped(job[k], w)
        PROVE  kern'[job'[k].pgid] \in {"killed", "ended"}
    BY <1>0, <1>3, <1>4, StoppedKeeps
  <1>5. ASSUME NEW K, job'[k] = Looked(K)[k]
        PROVE  kern'[job'[k].pgid] \in {"killed", "ended"}
    BY <1>0, <1>1, <1>3, <1>5, LookedKeeps
  <1>6. ASSUME job'[k] = job[k]
        PROVE  kern'[job'[k].pgid] \in {"killed", "ended"}
    BY <1>1, <1>6
  <1>7. ASSUME NEW c \in Keys, Escalate(c)
        PROVE  kern'[job'[k].pgid] \in {"killed", "ended"}
    <2>1. CASE c # k
      BY <1>0, <1>6, <1>7, <2>1 DEF Escalate
    <2>2. CASE c = k /\ job[k].stage = "term"
      <3>1. /\ job' = [job EXCEPT ![k].stage = "kill", ![k].left = 1]
            /\ kern' = [kern EXCEPT ![job[k].pgid] = IF @ = "ours" THEN "killed"
                                                                   ELSE @]
            /\ JobAlive(job[k])
        BY <1>7, <2>2 DEF Escalate
      <3>2. job'[k].pgid = job[k].pgid
        BY <1>0, <3>1 DEF Job
      <3> QED
        BY <1>0, <3>1, <3>2, AliveIsLiving DEF Living
    <2>3. CASE c = k /\ job[k].stage # "term"
      <3>1. job'[k].pgid = job[k].pgid /\ job[k].stage = "kill"
        BY <1>0, <1>7, <2>3 DEF Escalate, Job
      <3> QED
        BY <1>1, <3>1
    <2> QED
      BY <2>1, <2>2, <2>3
  <1>8. ASSUME Tick PROVE kern'[job'[k].pgid] \in {"killed", "ended"}
    <2>1. job'[k].pgid = job[k].pgid /\ job'[k].stage = job[k].stage
      BY <1>0, <1>8 DEF Tick, Job
    <2> QED
      BY <1>1, <2>1
  <1>9. ASSUME NEW c \in Keys, Launch(c)
        PROVE  kern'[job'[k].pgid] \in {"killed", "ended"}
    <2>1. CASE Refused(c)
      BY <1>2, <1>5, <2>1 DEF Refused, Looked
    <2>2. ASSUME NEW g \in Groups, Makes(c, g)
          PROVE  kern'[job'[k].pgid] \in {"killed", "ended"}
      BY <1>5, <2>2 DEF Makes
    <2> QED
      BY <1>9, <2>1, <2>2, LaunchSplit
  <1>10. ASSUME Register PROVE kern'[job'[k].pgid] \in {"killed", "ended"}
    <2>1. NewJob(fresh).stage = "run"
      BY <1>0, NewJobType DEF TypeOK
    <2>2. job'[k] = job[k]
      BY <1>0, <1>10, <2>1 DEF Register
    <2> QED
      BY <1>6, <2>2
  <1>11. ASSUME Loop \/ OtherKey \/ ClearFinished \/ StopAll
                \/ \E c \in Keys : StopKey(c) \/ EscalatorSees(c)
         PROVE  kern'[job'[k].pgid] \in {"killed", "ended"}
    BY <1>0, <1>2, <1>4, <1>5, <1>6, <1>11
    DEF Loop, OtherKey, ClearFinished, StopAll, StopKey, EscalatorSees, Windows
  <1>12. ~(Exit \/ CutShort \/ Crash)
    BY <1>2 DEF Exit, CutShort, Crash, Forget
  <1>13. ASSUME Quit \/ Interrupt \/ Start \/ UNCHANGED vars
                \/ \E g \in Groups : GroupEnds(g) \/ Reuse(g)
         PROVE  kern'[job'[k].pgid] \in {"killed", "ended"}
    BY <1>6, <1>13 DEF Quit, Interrupt, Start, vars, GroupEnds, Reuse
  <1> QED
    BY <1>7, <1>8, <1>9, <1>10, <1>11, <1>12, <1>13
    DEF Next, Session, Key, Ending, Threads, System

LEMMA KillInvariance == Safety => [](IInv /\ KillInv)
  <1>1. Init => KillInv
    BY NoJobType, IdAssumption DEF Init, KillInv
  <1> QED
    BY Invariance, KillStep, <1>1, PTL DEF Safety

\* No group is given up before it was sent SIGKILL, for any windows.
THEOREM GivesUpOnlyAfterKillHolds == Safety => []GivesUpOnlyAfterKill
  <1>1. IInv /\ KillInv => GivesUpOnlyAfterKill
    <2> SUFFICES ASSUME IInv, KillInv, NEW k \in Keys, JobAlive(job[k]),
                        job[k].stage \in {"kill", "over"}
                 PROVE  kern[job[k].pgid] = "killed"
      BY DEF GivesUpOnlyAfterKill
    <2>1. job[k].pgid \in Groups /\ kern[job[k].pgid] \in Living
      BY AliveIsLiving DEF IInv
    <2> QED
      BY <2>1 DEF KillInv, Living
  <1> QED
    BY <1>1, KillInvariance, PTL

\* How far an escalation is from its end, in ticks and signals.
StopLeft(j) ==
  CASE j.stage = "int"  -> j.left + KillWindow[j.windows] + 4
    [] j.stage = "term" -> j.left + 3
    [] j.stage = "kill" -> j.left + 1
    [] OTHER            -> 0

\* A step during the escalation of a group that lives.
EscalationGoesOn(k) ==
  /\ StopLeft(job[k]) \in 1..(2 * MaxLeft + 4)
  /\ job'[k].pgid = job[k].pgid
  /\ job'[k].stage \in Escalating \union {"over"}
  /\ StopLeft(job'[k]) <= StopLeft(job[k])
  /\ Tick \/ Escalate(k) => StopLeft(job'[k]) < StopLeft(job[k])

\* As long as the session lasts and its group lives, an escalation is a bounded
\* number of ticks and signals from its end; nothing the user does, no other
\* job and not even stop_all takes it further from it or makes it lose its
\* group, and every tick and every signal brings it nearer.
EscalationsEndInTime ==
  [][pc' \notin Ended =>
       \A k \in Keys : job[k].stage \in Escalating /\ JobAlive(job[k])
                         => EscalationGoesOn(k)]_vars

LEMMA StopLeftFacts ==
  ASSUME NEW j \in Job, j.stage \in Escalating
  PROVE  /\ j.left \in Nat /\ KillWindow[j.windows] \in Nat
         /\ StopLeft(j) \in 1..(2 * MaxLeft + 4)
         /\ j.stage = "int" => StopLeft(j) = j.left + KillWindow[j.windows] + 4
         /\ j.stage = "term" => StopLeft(j) = j.left + 3
         /\ j.stage = "kill" => StopLeft(j) = j.left + 1
  <1>1. /\ j.left \in 0..MaxLeft /\ KillWindow[j.windows] \in 0..MaxLeft
        /\ MaxLeft \in Nat
    BY Windowing, WindowAssumption DEF Job, MaxLeft
  <1>2. /\ j.stage = "int" => StopLeft(j) = j.left + KillWindow[j.windows] + 4
        /\ j.stage = "term" => StopLeft(j) = j.left + 3
        /\ j.stage = "kill" => StopLeft(j) = j.left + 1
    BY DEF StopLeft
  <1>3. j.stage = "int" \/ j.stage = "term" \/ j.stage = "kill"
    BY DEF Escalating
  <1> QED
    BY <1>1, <1>2, <1>3

\* Escalations end, for any profiles, groups and windows.
THEOREM EscalationsEndInTimeHolds == Safety => EscalationsEndInTime
  <1> DEFINE P == pc' \notin Ended =>
                    \A k \in Keys : job[k].stage \in Escalating /\ JobAlive(job[k])
                                      => EscalationGoesOn(k)
  <1>1. IInv /\ [Next]_vars => P
    <2> SUFFICES ASSUME IInv, [Next]_vars, pc' \notin Ended, NEW k \in Keys,
                        job[k].stage \in Escalating, JobAlive(job[k])
                 PROVE  EscalationGoesOn(k)
      OBVIOUS
    <2> DEFINE j == job[k]
    <2>0. job \in [Keys -> Job] /\ j \in Job
      BY DEF IInv, TypeOK
    <2>1. /\ j.left \in Nat /\ KillWindow[j.windows] \in Nat
          /\ StopLeft(j) \in 1..(2 * MaxLeft + 4)
          /\ j.stage = "int" => StopLeft(j) = j.left + KillWindow[j.windows] + 4
          /\ j.stage = "term" => StopLeft(j) = j.left + 3
          /\ j.stage = "kill" => StopLeft(j) = j.left + 1
          /\ StopLeft(j) \in Nat
      BY <2>0, StopLeftFacts
    <2>2. CASE Tick
      <3>1. j.left > 0 /\ job'[k] = [j EXCEPT !.left = j.left - 1]
        BY <2>0, <2>2 DEF Tick
      <3> HIDE DEF j
      <3>2. /\ job'[k].pgid = j.pgid /\ job'[k].stage = j.stage
            /\ job'[k].windows = j.windows /\ job'[k].left = j.left - 1
        BY <2>0, <3>1 DEF Job
      <3>3. StopLeft(job'[k]) = StopLeft(j) - 1
        BY <2>1, <3>2 DEF StopLeft, Escalating, j
      <3> QED
        BY <2>1, <3>2, <3>3 DEF EscalationGoesOn, j
    <2>3. CASE Escalate(k)
      <3>1. j.left = 0
        BY <2>3 DEF Escalate
      <3>2. \/ /\ j.stage = "int"
               /\ job'[k] = [j EXCEPT !.stage = "term",
                                      !.left = KillWindow[j.windows]]
            \/ /\ j.stage = "term"
               /\ job'[k] = [j EXCEPT !.stage = "kill", !.left = 1]
            \/ j.stage = "kill" /\ job'[k] = [j EXCEPT !.stage = "over"]
        BY <2>0, <2>3 DEF Escalate
      <3> HIDE DEF j
      <3>3. /\ job'[k].pgid = j.pgid
            /\ \/ /\ j.stage = "int" /\ job'[k].stage = "term"
                  /\ job'[k].left = KillWindow[j.windows]
               \/ j.stage = "term" /\ job'[k].stage = "kill" /\ job'[k].left = 1
               \/ j.stage = "kill" /\ job'[k].stage = "over"
        BY <2>0, <3>2 DEF Job
      <3>4. StopLeft(job'[k]) = StopLeft(j) - 1
        BY <2>1, <3>1, <3>3 DEF StopLeft
      <3>5. job'[k].stage \in Escalating \union {"over"}
        BY <3>3 DEF Escalating
      <3> QED
        BY <2>1, <3>3, <3>4, <3>5 DEF EscalationGoesOn, j
    <2>4. CASE ~Tick /\ ~Escalate(k)
      <3>1. job'[k] = j
        BY <2>4, EscalationKept
      <3> QED
        BY <2>1, <2>4, <3>1 DEF EscalationGoesOn
    <2> QED
      BY <2>2, <2>3, <2>4
  <1>2. IInv /\ [Next]_vars => [P]_vars
    BY <1>1
  <1> QED
    BY <1>2, Invariance, PTL DEF Safety, EscalationsEndInTime

=============================================================================
