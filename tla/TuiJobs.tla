------------------------------ MODULE TuiJobs ------------------------------
(***************************************************************************)
(* The job manager of the launch TUI: jobs in process groups of their own, *)
(* their escalation threads, the resources that two live jobs must not     *)
(* share, the record of live groups on disk, and the orphans that the next *)
(* session finds in it.                                                    *)
(*                                                                         *)
(* pc is where the curses thread stands: about to record the live groups   *)
(* (for the first time, or in its loop), waiting for a key, between Popen  *)
(* and the job table, on its way out, in stop_all, or gone: after an       *)
(* orderly exit, cut short by a signal while stopping, or killed.          *)
(* Whoever else gets the id of a group that is gone is "foreign".  The     *)
(* kernel does not hand the id of an "ended" group out again before a live *)
(* session has gone round its loop once (which it does every 100 ms).      *)
(***************************************************************************)
EXTENDS Naturals

CONSTANTS
  Keys, NoKey,       \* profiles and tasks
  Groups, NoGroup,   \* process group ids
  Resource,          \* Profile.resources of each key; a task has none
  JobTerm, JobKill,              \* SIGTERM_AFTER_S, SIGKILL_AFTER_S
  ExitTerm, ExitKill, ExitTotal  \* EXIT_... , in ticks

ASSUME IdAssumption == NoKey \notin Keys /\ NoGroup \notin Groups
ASSUME WindowAssumption ==
  /\ {JobTerm, JobKill, ExitTerm, ExitKill} \subseteq Nat \ {0}
  /\ ExitTotal \in Nat
  /\ ExitTerm + ExitKill < ExitTotal

VARIABLES
  kern,              \* what runs in each group
  owner,             \* the key whose launch made the group, if it is ours
  missed,            \* groups a session did not find when it began, history
  pc,
  starting, fresh,   \* key and Job._pgid of a job not yet in the table
  masked,            \* SIGHUP and SIGTERM are ignored
  waited,            \* ticks since stop_all began to wait
  job,               \* JobManager._jobs
  orphans,           \* App.orphans: key -> pgid
  last,              \* App._recorded_groups
  file               \* running_jobs.json

kernVars == <<kern, owner, missed>>
newVars  == <<starting, fresh>>
diskVars == <<orphans, last, file>>
vars == <<kern, owner, missed, pc, starting, fresh, masked, waited, job,
          orphans, last, file>>

Ended      == {"exited", "cut", "crashed"}
Escalating == {"int", "term", "kill"}     \* the escalator is alive
Windows    == {"job", "exit"}
Id         == Groups \union {NoGroup}
Table      == [Keys -> Id]
MaxLeft    == JobTerm + JobKill + ExitTerm + ExitKill
TermWindow == [job |-> JobTerm, exit |-> ExitTerm]
KillWindow == [job |-> JobKill, exit |-> ExitKill]

\* pgid: NoGroup once _group_gone is set, from when on nothing depends on
\* it.  stage: the signal sent last; left: ticks the escalator still waits.
Job == [pgid : Id, stage : {"run", "over"} \union Escalating,
        left : 0..MaxLeft, windows : Windows]

NewJob(g) == [pgid |-> g, stage |-> "run", left |-> 0, windows |-> "job"]
NoJob == NewJob(NoGroup)     \* none, one that failed to start, or one gone

TypeOK ==
  /\ kern \in [Groups -> {"free", "ours", "killed", "ended", "foreign"}]
  /\ owner \in [Groups -> Keys \union {NoKey}]
  /\ missed \in SUBSET Groups
  /\ pc \in {"first", "loop", "key", "spawned", "quit", "stopping"}
             \union Ended
  /\ starting \in Keys \union {NoKey}
  /\ fresh \in Id
  /\ masked \in BOOLEAN
  /\ waited \in 0..ExitTotal
  /\ job \in [Keys -> Job]
  /\ orphans \in Table
  /\ last \in Table
  /\ file \in Table

-----------------------------------------------------------------------------
(* Looking at groups.                                                      *)

Alive(g) == g # NoGroup /\ kern[g] \notin {"free", "ended"}

JobAlive(j) == Alive(j.pgid)

\* As Look, without the latch.
LookOnly(j) == j

\* Asking whether the group of a job is alive latches the answer no; the
\* escalator will find out by itself.
Look(j) ==
  IF JobAlive(j) THEN j
  ELSE IF j.stage \in Escalating THEN [j EXCEPT !.pgid = NoGroup]
  ELSE NoJob

Looked(K) == [k \in Keys |-> IF k \in K THEN Look(job[k]) ELSE job[k]]

Surviving(table) ==
  [k \in Keys |-> IF Alive(table[k]) THEN table[k] ELSE NoGroup]

\* As LiveGroups, without the orphans.
LiveJobsOnly ==
  [k \in Keys |-> IF JobAlive(job[k]) THEN job[k].pgid ELSE NoGroup]

\* What is recorded: live jobs, and surviving orphans of other keys.
LiveGroups ==
  [k \in Keys |-> IF JobAlive(job[k]) THEN job[k].pgid
                                      ELSE Surviving(orphans)[k]]

\* As Holders, without the orphans.
HoldersAmongJobs(k) ==
  {c \in Keys : /\ Resource[k] \intersect Resource[c] # {}
                /\ c # k /\ JobAlive(job[c])}

\* _resource_conflicts: keys whose live job, or orphan, shares a resource.
Holders(k) ==
  {c \in Keys : /\ Resource[k] \intersect Resource[c] # {}
                /\ (c # k /\ JobAlive(job[c])) \/ Alive(orphans[c])}

\* The ids of the groups among G that were seen to have ended.
Released(G) ==
  [g \in Groups |-> IF g \in G /\ kern[g] = "ended" THEN "free" ELSE kern[g]]

-----------------------------------------------------------------------------
(* The curses thread.                                                      *)

\* _record_live_groups: a write if the groups changed, or if it is the first
\* one or the last; it may fail, which nobody notices.
Record ==
  \/ /\ LiveGroups # last \/ pc \in {"first", "stopping"}
     /\ file' = LiveGroups
  \/ UNCHANGED file

Loop ==
  /\ pc \in {"first", "loop"}
  /\ Record
  /\ orphans' = Surviving(orphans)
  /\ last' = LiveGroups
  /\ job' = Looked(Keys)
  /\ kern' = Released(Groups)
  /\ pc' = "key"
  /\ UNCHANGED <<owner, missed, newVars, masked, waited>>

\* No key, a key that only moves about, or a launch that is refused.
OtherKey ==
  /\ pc = "key"
  /\ pc' = "loop"
  /\ \E K \in SUBSET Keys : job' = Looked(K)
  /\ UNCHANGED <<kernVars, newVars, masked, waited, diskVars>>

\* Job.stop, unless the group is gone or an escalator is at work.
Stopped(j, w) ==
  IF JobAlive(j) /\ j.stage \notin Escalating
  THEN [j EXCEPT !.stage = "int", !.left = TermWindow[w], !.windows = w]
  ELSE Look(j)

StopKey(k) ==
  /\ pc = "key"
  /\ pc' = "loop"
  /\ job' = [job EXCEPT ![k] = Stopped(@, "job")]
  /\ UNCHANGED <<kernVars, newVars, masked, waited, diskVars>>

ClearFinished ==
  /\ pc = "key"
  /\ pc' = "loop"
  /\ job' = [k \in Keys |-> IF JobAlive(job[k]) THEN job[k] ELSE NoJob]
  /\ UNCHANGED <<kernVars, newVars, masked, waited, diskVars>>

\* _launch_selected and _run_task up to Popen, which may fail.
Launch(k) ==
  /\ pc = "key"
  /\ ~JobAlive(job[k])
  /\ Holders(k) = {}
  /\ LET looked == Looked(IF Resource[k] = {} THEN {k} ELSE Keys) IN
     \/ /\ pc' = "loop"
        /\ job' = [looked EXCEPT ![k] = NoJob]
        /\ UNCHANGED <<kern, owner, newVars>>
     \/ \E g \in Groups :
          /\ kern[g] = "free"
          /\ kern' = [kern EXCEPT ![g] = "ours"]
          /\ owner' = [owner EXCEPT ![g] = k]
          /\ starting' = k
          /\ fresh' = g
          /\ pc' = "spawned"
          /\ job' = looked
  /\ UNCHANGED <<missed, masked, waited, diskVars>>

\* The rest of JobManager.start.
Register ==
  /\ pc = "spawned"
  /\ pc' = "loop"
  /\ job' = [job EXCEPT ![starting] = NewJob(fresh)]
  /\ starting' = NoKey
  /\ fresh' = NoGroup
  /\ UNCHANGED <<kernVars, masked, waited, diskVars>>

-----------------------------------------------------------------------------
(* The end of a session and the beginning of the next one.                 *)

\* q leaves the loop with SIGHUP and SIGTERM still handled.
Quit ==
  /\ pc = "key"
  /\ pc' = "quit"
  /\ masked' = FALSE
  /\ UNCHANGED <<kernVars, newVars, waited, job, diskVars>>

\* SIGHUP or SIGTERM unwinds the curses thread wherever it is; so does
\* SIGINT, which does not mask the others.
Interrupt ==
  /\ pc \in {"first", "loop", "key", "spawned"}
  /\ pc' = "quit"
  /\ masked' \in BOOLEAN
  /\ starting' = NoKey
  /\ fresh' = NoGroup
  /\ UNCHANGED <<kernVars, waited, job, diskVars>>

\* As StopAll, with the first window of an interactive stop.
StopAllSlowly ==
  /\ pc = "quit"
  /\ pc' = "stopping"
  /\ job' = [k \in Keys |-> IF job[k].stage \in Escalating THEN job[k]
               ELSE [Stopped(job[k], "exit") EXCEPT !.left = JobTerm]]
  /\ waited' = 0
  /\ UNCHANGED <<kernVars, newVars, masked, diskVars>>

StopAll ==
  /\ pc = "quit"
  /\ pc' = "stopping"
  /\ job' = [k \in Keys |-> Stopped(job[k], "exit")]
  /\ waited' = 0
  /\ UNCHANGED <<kernVars, newVars, masked, diskVars>>

\* What the process had in memory is gone.
Forget ==
  /\ job' = [k \in Keys |-> NoJob]
  /\ orphans' = [k \in Keys |-> NoGroup]
  /\ last' = [k \in Keys |-> NoGroup]
  /\ starting' = NoKey
  /\ fresh' = NoGroup
  /\ masked' = FALSE
  /\ waited' = 0

\* wait_stopped of every job has returned: the groups are gone and their
\* escalators with them, or the time is up.  The record is written last.
Exit ==
  /\ pc = "stopping"
  /\ \/ waited = ExitTotal
     \/ \A k \in Keys : ~JobAlive(job[k]) /\ job[k].stage \notin Escalating
  /\ pc' = "exited"
  /\ Record
  /\ Forget
  /\ UNCHANGED kernVars

\* A signal that is not masked unwinds _shutdown too.
CutShort ==
  /\ pc \in {"quit", "stopping"}
  /\ ~masked
  /\ pc' = "cut"
  /\ Forget
  /\ UNCHANGED <<kernVars, file>>

\* SIGKILL, or the power of the terminal's host: no code of the TUI runs.
Crash ==
  /\ pc \notin Ended
  /\ pc' = "crashed"
  /\ Forget
  /\ UNCHANGED <<kernVars, file>>

Ours(g) == kern[g] \in {"ours", "killed"}

\* App.__init__: orphans are what the file lists and still lives.
Start ==
  /\ pc \in Ended
  /\ pc' = "first"
  /\ orphans' = Surviving(file)
  /\ missed' = missed \union {g \in Groups : Ours(g) /\ orphans'[owner[g]] # g}
  /\ UNCHANGED <<kern, owner, newVars, masked, waited, job, last, file>>

-----------------------------------------------------------------------------
(* The escalators, which end with the session, and the system.             *)

EscalatorSees(k) ==
  /\ pc \notin Ended
  /\ job[k].stage \in Escalating
  /\ ~JobAlive(job[k])
  /\ job' = [job EXCEPT ![k] = NoJob]
  /\ kern' = Released({job[k].pgid})
  /\ UNCHANGED <<owner, missed, pc, newVars, masked, waited, diskVars>>

\* As Escalate, ending after SIGTERM.
EscalateNoKill(k) ==
  /\ pc \notin Ended
  /\ job[k].stage \in Escalating /\ job[k].left = 0
  /\ JobAlive(job[k])
  /\ job' = [job EXCEPT ![k].stage = IF @ = "int" THEN "term" ELSE "over",
                        ![k].left = IF job[k].stage = "int"
                                    THEN KillWindow[job[k].windows] ELSE 0]
  /\ UNCHANGED <<kernVars, pc, newVars, masked, waited, diskVars>>

\* The window is over and the group still there: the next signal; after
\* SIGKILL the thread waits one more second and ends.
Escalate(k) ==
  /\ pc \notin Ended
  /\ job[k].stage \in Escalating /\ job[k].left = 0
  /\ JobAlive(job[k])
  /\ \/ /\ job[k].stage = "int"
        /\ job' = [job EXCEPT ![k].stage = "term",
                              ![k].left = KillWindow[job[k].windows]]
        /\ UNCHANGED kern
     \/ /\ job[k].stage = "term"
        /\ job' = [job EXCEPT ![k].stage = "kill", ![k].left = 1]
        /\ kern' = [kern EXCEPT ![job[k].pgid] = IF @ = "ours" THEN "killed"
                                                               ELSE @]
     \/ /\ job[k].stage = "kill"
        /\ job' = [job EXCEPT ![k].stage = "over"]
        /\ UNCHANGED kern
  /\ UNCHANGED <<owner, missed, pc, newVars, masked, waited, diskVars>>

\* As Tick, with escalators that may be late.
TickPastWindow ==
  /\ pc \notin Ended
  /\ pc = "stopping" => waited < ExitTotal
  /\ pc = "stopping" \/ \E k \in Keys : job[k].stage \in Escalating
  /\ waited' = IF pc = "stopping" THEN waited + 1 ELSE waited
  /\ job' = [k \in Keys |-> IF job[k].stage \in Escalating
                            THEN [job[k] EXCEPT !.left = @ - 1] ELSE job[k]]
  /\ UNCHANGED <<kernVars, pc, newVars, masked, diskVars>>

\* An escalator polls every 50 ms, so that it acts within the tick.
Tick ==
  /\ pc \notin Ended
  /\ pc = "stopping" => waited < ExitTotal
  /\ \A k \in Keys : job[k].stage \in Escalating => job[k].left > 0
  /\ pc = "stopping" \/ \E k \in Keys : job[k].stage \in Escalating
  /\ waited' = IF pc = "stopping" THEN waited + 1 ELSE waited
  /\ job' = [k \in Keys |-> IF job[k].stage \in Escalating
                            THEN [job[k] EXCEPT !.left = @ - 1] ELSE job[k]]
  /\ UNCHANGED <<kernVars, pc, newVars, masked, diskVars>>

\* Any signal but SIGKILL may be ignored; a group may also end by itself.
GroupEnds(g) ==
  /\ Alive(g)
  /\ kern' = [kern EXCEPT ![g] = "ended"]
  /\ missed' = missed \ {g}
  /\ owner' = [owner EXCEPT ![g] = NoKey]
  /\ UNCHANGED <<pc, newVars, masked, waited, job, diskVars>>

Reuse(g) ==
  /\ kern[g] = "free" \/ (kern[g] = "ended" /\ pc \in Ended)
  /\ kern' = [kern EXCEPT ![g] = "foreign"]
  /\ UNCHANGED <<owner, missed, pc, newVars, masked, waited, job, diskVars>>

-----------------------------------------------------------------------------
Init ==
  /\ kern = [g \in Groups |-> "free"]
  /\ owner = [g \in Groups |-> NoKey]
  /\ missed = {}
  /\ pc = "first"
  /\ starting = NoKey
  /\ fresh = NoGroup
  /\ masked = FALSE
  /\ waited = 0
  /\ job = [k \in Keys |-> NoJob]
  /\ orphans = [k \in Keys |-> NoGroup]
  /\ last = [k \in Keys |-> NoGroup]
  /\ file = [k \in Keys |-> NoGroup]

Key     == \E k \in Keys : Launch(k) \/ StopKey(k)
Session == Loop \/ OtherKey \/ Key \/ ClearFinished \/ Register
Ending  == Quit \/ Interrupt \/ StopAll \/ Exit \/ CutShort \/ Crash
Threads == \E k \in Keys : EscalatorSees(k) \/ Escalate(k)
System  == Tick \/ (\E g \in Groups : GroupEnds(g) \/ Reuse(g))
Next    == Session \/ Ending \/ Start \/ Threads \/ System

Safety == Init /\ [][Next]_vars

\* The escalator threads and the waiting loop of stop_all run, time passes,
\* and a group that was sent SIGKILL ends.
Fairness ==
  /\ \A k \in Keys : WF_vars(EscalatorSees(k)) /\ WF_vars(Escalate(k))
  /\ WF_vars(Exit)
  /\ WF_vars(Tick)
  /\ \A g \in Groups : WF_vars(kern[g] = "killed" /\ GroupEnds(g))

Spec == Safety /\ Fairness

-----------------------------------------------------------------------------
(* Properties.                                                             *)

\* Two groups that hold the same resource never live at the same time, be
\* they jobs, stragglers of a job whose leader is gone or orphans of earlier
\* sessions; unless a session ended before it could record one of them.
Exclusive ==
  \A g, h \in Groups \ missed :
    g # h /\ Ours(g) /\ Ours(h)
      => Resource[owner[g]] \intersect Resource[owner[h]] = {}

\* While the TUI waits for a key, and its last write succeeded, the file
\* lists every living group that holds a resource: a crash now loses none.
RecordCovers ==
  pc = "key" /\ file = last =>
    \A g \in Groups \ missed :
      Ours(g) /\ Resource[owner[g]] # {} => file[owner[g]] = g

\* A signal is only ever sent to a group the TUI made, though ids are used
\* again and both the curses thread and the escalators send signals.
OnlyOwnGroupsSignalled ==
  [][\A k \in Keys :
       job'[k].stage \in Escalating \ {job[k].stage} => Ours(job[k].pgid)]_vars

\* stop_all returns within its time, and what it began to stop by then is
\* gone or was sent SIGKILL.
ExitKills ==
  [][pc' = "exited" =>
       \A k \in Keys : job[k].windows = "exit" /\ JobAlive(job[k])
                        => kern[job[k].pgid] = "killed"]_vars

\* The group of a job that is being stopped ends, whatever signals it
\* ignores and whatever the user does next, while the session lasts.
StoppedGroupDies ==
  \A k \in Keys : job[k].stage \in Escalating ~> ~JobAlive(job[k])

\* What run() promises, "on any exit stop every job": when the TUI ends by
\* itself or at a signal, the group of every job is gone or was sent SIGKILL.
ExitStopsEveryJob ==
  [][pc' \in {"exited", "cut"} \ {pc} =>
       \A k \in Keys : JobAlive(job[k]) => kern[job[k].pgid] = "killed"]_vars

=============================================================================
