--------------------- MODULE MissionOrchestrator_proofs ---------------------
(***************************************************************************)
(* Proofs about MissionOrchestrator for any mission and any timeouts.      *)
(*                                                                         *)
(* The lemmas of the first part say what the operators of ProcessGroup do  *)
(* to a process; the rest uses them and never expands Poll.  The inductive *)
(* invariant ties the three layers together: a process that is not held    *)
(* has no group, a restart waits only for a process that is held, the      *)
(* reference parameters are not about to be replaced (all in StackOK), and *)
(* reports were accepted in order (OrderInv); ShutdownInv adds how far the *)
(* escalation has got by the time the shutdown has waited, and             *)
(* PendingWaitsForStop what a pending restart waits for.                   *)
(***************************************************************************)
EXTENDS MissionOrchestrator, TLAPS

-----------------------------------------------------------------------------
(* What the operators do to a process.                                     *)

LEMMA MaxElapsedType == MaxElapsed \in Nat /\ Deadline \in Nat
  BY TimeoutAssumption DEF MaxElapsed, Deadline

LEMMA NewProcessType ==
  ASSUME NEW M \in Nat
  PROVE  NewProcess \in Process(M) /\ ~NewProcess.held /\ ~GroupAlive(NewProcess)
  BY DEF NewProcess, Process, Signal, Unset, GroupAlive

LEMMA ElapsedRange ==
  ASSUME NEW M \in Nat
  PROVE  Unset \in Unset..M /\ 0 \in Unset..M /\ 0 # Unset
  BY DEF Unset

\* A started process is held and not yet being stopped.
LEMMA StartFacts ==
  ASSUME NEW M \in Nat, NEW p \in Process(M), NEW ok \in BOOLEAN, ~p.held
  PROVE  /\ StartProcess(p, ok) \in Process(M)
         /\ StartProcess(p, ok).held <=> ok
         /\ ok => /\ StartProcess(p, ok).elapsed = Unset
                  /\ StartProcess(p, ok).leader = "alive"
         /\ ~ok => /\ StartProcess(p, ok).leader = p.leader
                   /\ StartProcess(p, ok).node <=> p.node
  <1>0. Unset \in Unset..M
    BY ElapsedRange
  <1>1. CASE ok
    BY <1>0, <1>1 DEF StartProcess, Process, Signal
  <1>2. CASE ~ok
    BY <1>0, <1>2 DEF StartProcess, Process, Signal
  <1> QED
    BY <1>1, <1>2

\* A stop request leaves the group as it is.
LEMMA RequestStopFacts ==
  ASSUME NEW M \in Nat, NEW p \in Process(M)
  PROVE  /\ RequestStop(p) \in Process(M)
         /\ RequestStop(p).held <=> p.held
         /\ RequestStop(p).leader = p.leader
         /\ RequestStop(p).node <=> p.node
         /\ p.held => RequestStop(p).elapsed # Unset
         /\ p.elapsed # Unset => RequestStop(p) = p
         /\ p.elapsed = Unset /\ p.held =>
              RequestStop(p).elapsed = 0 /\ RequestStop(p).sent = "SIGINT"
  <1>0. 0 \in Unset..M /\ 0 # Unset
    BY ElapsedRange
  <1>1. CASE p.held /\ p.elapsed = Unset
    BY <1>0, <1>1 DEF RequestStop, Process, Signal
  <1>2. CASE ~(p.held /\ p.elapsed = Unset)
    BY <1>2 DEF RequestStop, Process
  <1> QED
    BY <1>1, <1>2

LEMMA EscalateFacts ==
  ASSUME NEW M \in Nat, NEW p \in Process(M), NEW a \in Nat, NEW b \in Nat
  PROVE  /\ Escalate(p, a, b) \in Process(M)
         /\ Escalate(p, a, b).held <=> p.held
         /\ Escalate(p, a, b).leader = p.leader
         /\ Escalate(p, a, b).node <=> p.node
         /\ Escalate(p, a, b).elapsed = p.elapsed
  BY DEF Escalate, Process, Signal

LEMMA ReapFacts ==
  ASSUME NEW M \in Nat, NEW p \in Process(M)
  PROVE  /\ Reap(p) \in Process(M)
         /\ Reap(p).held <=> p.held
         /\ Reap(p).node <=> p.node
         /\ Reap(p).elapsed = p.elapsed
         /\ Reap(p).sent = p.sent
         /\ Reap(p).leader \in {"none", "alive"}
         /\ Reap(p).leader = "alive" <=> p.leader = "alive"
  BY DEF Reap, Process

LEMMA ForgetFacts ==
  ASSUME NEW M \in Nat, NEW p \in Process(M)
  PROVE  /\ Forget(p) \in Process(M)
         /\ ~Forget(p).held
         /\ Forget(p).leader = p.leader
         /\ Forget(p).node <=> p.node
  <1>1. Unset \in Unset..M
    BY ElapsedRange
  <1> QED
    BY <1>1 DEF Forget, Process

\* Polling ends no member; what is forgotten was empty; and what is still
\* held is either untouched or being stopped.
LEMMA PollFacts ==
  ASSUME NEW M \in Nat, NEW p \in Process(M), NEW a \in Nat, NEW b \in Nat
  PROVE  /\ Poll(p, a, b) \in Process(M)
         /\ Alive(Poll(p, a, b)) <=> Alive(p)
         /\ ~p.held => Poll(p, a, b) = p
         /\ p.held /\ ~Poll(p, a, b).held => ~GroupAlive(Poll(p, a, b))
         /\ Poll(p, a, b).held => \/ Poll(p, a, b) = p
                                  \/ Poll(p, a, b).elapsed # Unset
  <1> DEFINE q == Reap(p)
             r == RequestStop(q)
             e == Escalate(r, a, b)
  <1>1. CASE ~p.held \/ (p.elapsed = Unset /\ q.leader = "alive")
    <2>1. Poll(p, a, b) = p
      BY <1>1 DEF Poll
    <2> QED
      BY <2>1
  <1>2. CASE ~(~p.held \/ (p.elapsed = Unset /\ q.leader = "alive"))
    <2>1. CASE ~GroupAlive(q)
      <3>1. Poll(p, a, b) = Forget(q)
        BY <1>2, <2>1 DEF Poll
      <3>2. q \in Process(M)
        BY ReapFacts
      <3>3. /\ Forget(q) \in Process(M) /\ ~Forget(q).held
            /\ Forget(q).leader = q.leader /\ (Forget(q).node <=> q.node)
        BY <3>2, ForgetFacts
      <3>4. ~GroupAlive(Forget(q)) /\ ~Alive(Forget(q)) /\ ~Alive(p)
        BY <2>1, <3>3, ReapFacts DEF GroupAlive, Alive
      <3> HIDE DEF q
      <3> QED
        BY <1>2, <3>1, <3>3, <3>4
    <2>2. CASE GroupAlive(q)
      <3>1. Poll(p, a, b) = e
        BY <1>2, <2>2 DEF Poll
      <3>2. q \in Process(M) /\ q.held
        BY <1>2, ReapFacts
      <3>3. /\ r \in Process(M) /\ r.elapsed # Unset /\ r.held
            /\ r.leader = q.leader /\ (r.node <=> q.node)
        BY <3>2, RequestStopFacts
      <3>4. /\ e \in Process(M) /\ e.elapsed # Unset /\ e.held
            /\ e.leader = q.leader /\ (e.node <=> q.node)
        <4>1. \A x \in Process(M) :
                /\ Escalate(x, a, b) \in Process(M)
                /\ Escalate(x, a, b).held <=> x.held
                /\ Escalate(x, a, b).leader = x.leader
                /\ Escalate(x, a, b).node <=> x.node
                /\ Escalate(x, a, b).elapsed = x.elapsed
          BY EscalateFacts
        <4> HIDE DEF r
        <4> QED
          BY <3>3, <4>1
      <3>5. Alive(e) <=> Alive(p)
        <4>1. e.leader = "alive" <=> p.leader = "alive"
          BY <3>4, ReapFacts
        <4>2. e.node <=> p.node
          BY <3>4, ReapFacts
        <4> HIDE DEF e
        <4> QED
          BY <4>1, <4>2 DEF Alive
      <3> HIDE DEF e
      <3> QED
        BY <1>2, <3>1, <3>4, <3>5
    <2> QED
      BY <2>1, <2>2
  <1> QED
    BY <1>1, <1>2
-----------------------------------------------------------------------------
(* The inductive invariant.                                                *)

\* The state of one stack: a process that is not held has no group, a restart
\* waits for a process that is held, and the reference parameters stay.
StackOK(s) ==
  /\ proc[s] \in Process(MaxElapsed)
  /\ pending[s] \in Params \union {None}
  /\ stopping[s] \in BOOLEAN
  /\ params[s] \in Params \union {None}
  /\ ~proc[s].held => ~GroupAlive(proc[s])
  /\ pending[s] # None => proc[s].held /\ s # phase
  /\ params[s] = "reference" => pending[s] # "initial"

StackDomain ==
  /\ proc = [s \in Stack |-> proc[s]]
  /\ pending = [s \in Stack |-> pending[s]]
  /\ stopping = [s \in Stack |-> stopping[s]]
  /\ params = [s \in Stack |-> params[s]]

StackInv == StackDomain /\ \A s \in Stack : StackOK(s)

\* Reports are accepted in order: what was fixed or passed has only passed
\* challenges before it, and what was restarted was fixed or passed.
OrderInv ==
  /\ \A c \in Challenge : fixed[c] => c \in HasParamsCheck
  /\ \A c \in Challenge : done[c] \/ fixed[c] => \A d \in 1..(c - 1) : done[d]
  /\ \A i \in 1..Len(restarts) : done[restarts[i]] \/ fixed[restarts[i]]

IInv == TypeOK /\ StackInv /\ OrderInv /\ RestartsInMissionOrder
        /\ NoChallengeSkipped

LEMMA TypeIsStackInv ==
  ASSUME TypeOK, \A s \in Stack : StackOK(s)
  PROVE  StackInv
  BY DEF TypeOK, StackInv, StackDomain

LEMMA StackInvTypes ==
  ASSUME StackInv
  PROVE  /\ proc \in [Stack -> Process(MaxElapsed)]
         /\ pending \in [Stack -> Params \union {None}]
         /\ stopping \in [Stack -> BOOLEAN]
         /\ params \in [Stack -> Params \union {None}]
  <1>1. \A s \in Stack : /\ proc[s] \in Process(MaxElapsed)
                          /\ pending[s] \in Params \union {None}
                          /\ stopping[s] \in BOOLEAN
                          /\ params[s] \in Params \union {None}
    BY DEF StackInv, StackOK
  <1> QED
    BY <1>1 DEF StackInv, StackDomain

-----------------------------------------------------------------------------
(* What an action may do to a stack.                                       *)

Wish(s) == IF pending[s] # None THEN pending[s]
           ELSE IF State(proc[s]) = "running" THEN params[s] ELSE None
Run(s)  == IF Alive(proc[s]) THEN params[s] ELSE None

\* A step of StackService, for one stack.
ServiceStep(s) ==
  \/ Wish(s)' \in Params /\ (Run(s)' = Run(s) \/ (Run(s) = None /\ Run(s)' = Wish(s)'))
  \/ Run(s) = None /\ Run(s)' = Wish(s) /\ Wish(s)' = Wish(s)
  \/ Run(s)' = None /\ Wish(s)' = Wish(s)
  \/ Wish(s)' = None /\ Run(s)' = Run(s)
  \/ Wish(s)' = Wish(s) /\ Run(s)' = Run(s)

StackStep(s) ==
  /\ StackOK(s)'
  /\ params[s] = "reference" => params'[s] = "reference"
  /\ ServiceStep(s)

LEMMA RunningState ==
  ASSUME NEW M \in Nat, NEW p \in Process(M)
  PROVE  State(p) = "running" <=> p.held /\ p.elapsed = Unset
  BY DEF State, Process

\* The stack is not touched.
LEMMA FrameStep ==
  ASSUME NEW s \in Stack, StackOK(s),
         proc'[s] = proc[s], pending'[s] = pending[s],
         stopping'[s] = stopping[s], params'[s] = params[s],
         pending[s] # None => s # phase'
  PROVE  StackStep(s)
  <1>1. Wish(s)' = Wish(s) /\ Run(s)' = Run(s)
    BY DEF Wish, Run
  <1>2. StackOK(s)'
    BY DEF StackOK
  <1> QED
    BY <1>1, <1>2 DEF StackStep, ServiceStep

\* Members of its group end, or time passes.
LEMMA GroupStep ==
  ASSUME NEW s \in Stack, StackOK(s),
         proc'[s] \in Process(MaxElapsed),
         proc'[s].held <=> proc[s].held,
         proc'[s].elapsed = Unset <=> proc[s].elapsed = Unset,
         Alive(proc'[s]) => Alive(proc[s]),
         GroupAlive(proc'[s]) => GroupAlive(proc[s]),
         pending'[s] = pending[s], stopping'[s] = stopping[s],
         params'[s] = params[s], phase' = phase
  PROVE  StackStep(s)
  <1>1. State(proc'[s]) = "running" <=> State(proc[s]) = "running"
    BY MaxElapsedType, RunningState DEF StackOK
  <1>2. Wish(s)' = Wish(s)
    BY <1>1 DEF Wish
  <1>3. Run(s)' \in {None, Run(s)}
    BY DEF Run
  <1>4. StackOK(s)'
    BY DEF StackOK
  <1> QED
    BY <1>2, <1>3, <1>4 DEF StackStep, ServiceStep

\* The shutdown begins to stop it.
LEMMA StopStep ==
  ASSUME NEW s \in Stack, StackOK(s),
         proc'[s] = RequestStop(proc[s]), pending'[s] = None,
         stopping'[s] = stopping[s], params'[s] = params[s]
  PROVE  StackStep(s)
  <1>0. proc[s] \in Process(MaxElapsed) /\ MaxElapsed \in Nat
    BY MaxElapsedType DEF StackOK
  <1>1. /\ proc'[s] \in Process(MaxElapsed)
        /\ proc'[s].held <=> proc[s].held
        /\ proc'[s].leader = proc[s].leader
        /\ proc'[s].node <=> proc[s].node
        /\ proc'[s].held => proc'[s].elapsed # Unset
    BY <1>0, RequestStopFacts
  <1>2. /\ Alive(proc'[s]) <=> Alive(proc[s])
        /\ GroupAlive(proc'[s]) <=> GroupAlive(proc[s])
    BY <1>1 DEF Alive, GroupAlive
  <1>3. State(proc'[s]) # "running"
    BY <1>0, <1>1, RunningState
  <1>4. Wish(s)' = None /\ Run(s)' = Run(s)
    BY <1>2, <1>3 DEF Wish, Run
  <1>5. StackOK(s)'
    BY <1>1, <1>2 DEF StackOK, Params, None
  <1> QED
    BY <1>4, <1>5 DEF StackStep, ServiceStep

\* It is polled, and no restart of it is pending that the poll would release.
LEMMA PollStep ==
  ASSUME NEW s \in Stack, StackOK(s), NEW a \in Nat, NEW b \in Nat,
         proc'[s] = Poll(proc[s], a, b),
         pending[s] # None => proc'[s].held /\ s # phase',
         pending'[s] = pending[s], params'[s] = params[s],
         stopping'[s] \in BOOLEAN
  PROVE  StackStep(s)
  <1>0. proc[s] \in Process(MaxElapsed) /\ MaxElapsed \in Nat
    BY MaxElapsedType DEF StackOK
  <1>1. /\ proc'[s] \in Process(MaxElapsed)
        /\ Alive(proc'[s]) <=> Alive(proc[s])
        /\ ~proc[s].held => proc'[s] = proc[s]
        /\ proc[s].held /\ ~proc'[s].held => ~GroupAlive(proc'[s])
        /\ proc'[s].held => proc'[s] = proc[s] \/ proc'[s].elapsed # Unset
    BY <1>0, PollFacts
  <1>2. State(proc'[s]) = "running" => State(proc[s]) = "running"
    BY <1>0, <1>1, RunningState
  <1>3. Wish(s)' \in {None, Wish(s)} /\ Run(s)' = Run(s)
    BY <1>1, <1>2 DEF Wish, Run
  <1>4. StackOK(s)'
    <2>1. ~proc'[s].held => ~GroupAlive(proc'[s])
      BY <1>1 DEF StackOK
    <2> QED
      BY <1>1, <2>1 DEF StackOK
  <1> QED
    BY <1>3, <1>4 DEF StackStep, ServiceStep
\* start() for one stack, asked for the reference parameters, or for the first
\* parameters of a stack that has none.
LEMMA StartStackStep ==
  ASSUME StackInv, phase = "up", phase' = phase,
         NEW s \in Stack, NEW file \in Params, NEW ok \in BOOLEAN,
         file = "initial" => params[s] = None,
         StartStack(s, file, ok)
  PROVE  \A t \in Stack : StackStep(t)
  <1> SUFFICES ASSUME NEW t \in Stack PROVE StackStep(t)
    OBVIOUS
  <1> USE StackInvTypes
  <1>0. /\ StackOK(t) /\ StackOK(s) /\ phase' \notin Stack
        /\ proc[s] \in Process(MaxElapsed) /\ MaxElapsed \in Nat
    BY MaxElapsedType DEF StackInv, StackOK, Stack
  <1>1. CASE t # s
    <2>1. /\ proc'[t] = proc[t] /\ pending'[t] = pending[t]
          /\ stopping'[t] = stopping[t] /\ params'[t] = params[t]
      <3>1. CASE proc[s].held
        BY <1>1, <3>1 DEF StartStack
      <3>2. CASE ~proc[s].held
        BY <1>1, <3>2 DEF StartStack
      <3> QED
        BY <3>1, <3>2
    <2> QED
      BY <1>0, <2>1, FrameStep
  <1>2. CASE t = s /\ proc[s].held
    <2>1. /\ pending'[s] = file /\ stopping'[s] = TRUE /\ params'[s] = params[s]
          /\ proc'[s] = proc[s] \/ proc'[s] = RequestStop(proc[s])
      BY <1>2 DEF StartStack
    <2>2. /\ proc'[s] \in Process(MaxElapsed) /\ proc'[s].held
          /\ Alive(proc'[s]) <=> Alive(proc[s])
      <3>1. CASE proc'[s] = proc[s]
        BY <1>0, <1>2, <3>1
      <3>2. CASE proc'[s] = RequestStop(proc[s])
        BY <1>0, <1>2, <3>2, RequestStopFacts DEF Alive
      <3> QED
        BY <2>1, <3>1, <3>2
    <2>3. Wish(s)' = file /\ Run(s)' = Run(s)
      BY <2>1, <2>2 DEF Wish, Run, Params, None
    <2>4. params[s] = "reference" => file # "initial"
      BY DEF None
    <2>5. StackOK(s)'
      BY <1>0, <2>1, <2>2, <2>4 DEF StackOK
    <2> QED
      BY <1>2, <2>1, <2>3, <2>5 DEF StackStep, ServiceStep
  <1>3. CASE t = s /\ ~proc[s].held
    <2>1. /\ proc'[s] = StartProcess(proc[s], ok)
          /\ params'[s] = IF ok THEN file ELSE params[s]
          /\ pending'[s] = pending[s] /\ stopping'[s] = stopping[s]
      BY <1>3 DEF StartStack
    <2>2. /\ pending[s] = None /\ ~Alive(proc[s]) /\ ~GroupAlive(proc[s])
      BY <1>0, <1>3 DEF StackOK, Alive, GroupAlive
    <2>3. /\ proc'[s] \in Process(MaxElapsed)
          /\ proc'[s].held <=> ok
          /\ ok => proc'[s].elapsed = Unset /\ proc'[s].leader = "alive"
          /\ ~ok => /\ proc'[s].leader = proc[s].leader
                    /\ proc'[s].node <=> proc[s].node
      BY <1>0, <1>3, <2>1, StartFacts
    <2>4. /\ State(proc[s]) # "running"
          /\ State(proc'[s]) = "running" <=> ok
          /\ Alive(proc'[s]) <=> ok
          /\ ~ok => ~GroupAlive(proc'[s])
      <3>1. State(proc[s]) # "running" /\ (State(proc'[s]) = "running" <=> ok)
        BY <1>0, <1>3, <2>3, RunningState
      <3>2. (Alive(proc'[s]) <=> ok) /\ (~ok => ~GroupAlive(proc'[s]))
        BY <2>2, <2>3 DEF Alive, GroupAlive
      <3> QED
        BY <3>1, <3>2
    <2>5. Wish(s) = None /\ Run(s) = None
      BY <2>2, <2>4 DEF Wish, Run
    <2>6. StackOK(s)'
      BY <1>0, <2>1, <2>2, <2>3, <2>4 DEF StackOK, None
    <2>7. params[s] = "reference" => params'[s] = "reference"
      BY <2>1 DEF Params, None
    <2>8. CASE ok
      <3>1. Wish(s)' = file /\ Run(s)' = file
        BY <2>1, <2>2, <2>4, <2>8 DEF Wish, Run
      <3> QED
        BY <1>3, <2>5, <2>6, <2>7, <3>1 DEF StackStep, ServiceStep
    <2>9. CASE ~ok
      <3>1. Wish(s)' = None /\ Run(s)' = None
        BY <2>1, <2>2, <2>4, <2>9 DEF Wish, Run
      <3> QED
        BY <1>3, <2>5, <2>6, <2>7, <3>1 DEF StackStep, ServiceStep
    <2> QED
      BY <2>8, <2>9
  <1> QED
    BY <1>1, <1>2, <1>3

\* _supervise, for each stack.
LEMMA SuperviseStep ==
  ASSUME StackInv, Supervise
  PROVE  \A t \in Stack : StackStep(t)
  <1> SUFFICES ASSUME NEW t \in Stack PROVE StackStep(t)
    OBVIOUS
  <1> DEFINE next == Poll(proc[t], SigintTimeout, SigtermTimeout)
  <1>0. /\ StackOK(t) /\ phase' \notin Stack
        /\ SigintTimeout \in Nat /\ SigtermTimeout \in Nat
        /\ proc[t] \in Process(MaxElapsed) /\ MaxElapsed \in Nat
    BY MaxElapsedType, TimeoutAssumption
    DEF StackInv, StackOK, Stack, Supervise, shutdownVars
  <1>1. PICK ok \in [Stack -> BOOLEAN] :
          /\ proc'[t] = IF (proc[t].held /\ ~next.held) /\ pending[t] # None
                        THEN StartProcess(next, ok[t]) ELSE next
          /\ params'[t] = IF (proc[t].held /\ ~next.held) /\ pending[t] # None
                             /\ ok[t]
                          THEN pending[t] ELSE params[t]
    BY DEF Supervise
  <1>2. /\ stopping'[t] = (stopping[t] /\ ~(proc[t].held /\ ~next.held))
        /\ pending'[t] = IF proc[t].held /\ ~next.held THEN None ELSE pending[t]
    BY DEF Supervise
  <1>3. stopping'[t] \in BOOLEAN
    BY <1>2
  <1>4. CASE ~(proc[t].held /\ ~next.held)
    <2>1. /\ proc'[t] = next /\ params'[t] = params[t]
          /\ pending'[t] = pending[t]
      BY <1>1, <1>2, <1>4
    <2>2. pending[t] # None => proc'[t].held /\ t # phase'
      BY <1>0, <1>4, <2>1 DEF StackOK
    <2> QED
      BY <1>0, <1>3, <2>1, <2>2, PollStep
  <1>5. CASE (proc[t].held /\ ~next.held) /\ pending[t] = None
    <2>1. /\ proc'[t] = next /\ params'[t] = params[t]
          /\ pending'[t] = pending[t]
      BY <1>1, <1>2, <1>5
    <2> QED
      BY <1>0, <1>3, <1>5, <2>1, PollStep
  <1>6. CASE (proc[t].held /\ ~next.held) /\ pending[t] # None
    <2>1. /\ next \in Process(MaxElapsed) /\ ~next.held
          /\ ~GroupAlive(next)
          /\ Alive(next) <=> Alive(proc[t])
      BY <1>0, <1>6, PollFacts
    <2>2. /\ proc'[t] = StartProcess(next, ok[t]) /\ pending'[t] = None
          /\ params'[t] = IF ok[t] THEN pending[t] ELSE params[t]
      BY <1>1, <1>2, <1>6
    <2>3. ok[t] \in BOOLEAN
      BY <1>1
    <2> HIDE DEF next
    <2>4. /\ proc'[t] \in Process(MaxElapsed)
          /\ proc'[t].held <=> ok[t]
          /\ ok[t] => proc'[t].elapsed = Unset /\ proc'[t].leader = "alive"
          /\ ~ok[t] => /\ proc'[t].leader = next.leader
                       /\ proc'[t].node <=> next.node
      BY <1>0, <2>1, <2>2, <2>3, StartFacts
    <2>5. State(proc'[t]) = "running" <=> ok[t]
      BY <1>0, <2>4, RunningState
    <2>6. (Alive(proc'[t]) <=> ok[t]) /\ (~ok[t] => ~GroupAlive(proc'[t]))
      BY <2>1, <2>4 DEF Alive, GroupAlive
    <2>7. Run(t) = None /\ Wish(t) = pending[t]
      BY <1>6, <2>1 DEF Run, Wish, Alive, GroupAlive
    <2>8. StackOK(t)'
      BY <1>0, <1>3, <2>2, <2>4, <2>6 DEF StackOK, None
    <2>9. params[t] = "reference" => params'[t] = "reference"
      BY <1>0, <1>6, <2>2 DEF StackOK, Params
    <2>10. CASE ok[t]
      <3>1. Wish(t)' = pending[t] /\ Run(t)' = pending[t]
        BY <2>2, <2>5, <2>6, <2>10 DEF Wish, Run
      <3> QED
        BY <2>7, <2>8, <2>9, <3>1 DEF StackStep, ServiceStep
    <2>11. CASE ~ok[t]
      <3>1. Wish(t)' = None /\ Run(t)' = None
        BY <2>2, <2>5, <2>6, <2>11 DEF Wish, Run
      <3> QED
        BY <2>7, <2>8, <2>9, <3>1 DEF StackStep, ServiceStep
    <2> QED
      BY <2>10, <2>11
  <1> QED
    BY <1>4, <1>5, <1>6
\* The loop of stop_blocking, for both stacks.
LEMMA ShutdownPollStep ==
  ASSUME StackInv, ShutdownPoll
  PROVE  \A t \in Stack : StackStep(t)
  <1> SUFFICES ASSUME NEW t \in Stack PROVE StackStep(t)
    OBVIOUS
  <1> USE StackInvTypes
  <1>0. /\ StackOK(t) /\ phase \in Stack
        /\ ShutdownSigint \in Nat /\ ShutdownSigterm \in Nat
        /\ UNCHANGED <<stopping, params>>
    BY TimeoutAssumption DEF StackInv, ShutdownPoll
  <1>1. pending[phase] = None /\ stopping[t] \in BOOLEAN
    BY <1>0 DEF StackInv, StackOK
  <1>2. /\ proc'[phase] = Poll(proc[phase], ShutdownSigint, ShutdownSigterm)
        /\ \/ /\ phase' = phase /\ pending' = pending
              /\ \A s \in Stack : s # phase => proc'[s] = proc[s]
           \/ /\ phase = "slam" /\ phase' = "nav2"
              /\ proc'["nav2"] = RequestStop(proc["nav2"])
              /\ pending' = [pending EXCEPT !["nav2"] = None]
           \/ /\ phase = "nav2" /\ phase' = "over" /\ pending' = pending
              /\ \A s \in Stack : s # phase => proc'[s] = proc[s]
    BY <1>0 DEF ShutdownPoll, Stack
  <1>3. CASE t = phase
    <2>1. pending'[t] = pending[t]
      BY <1>1, <1>2, <1>3
    <2> QED
      BY <1>0, <1>1, <1>2, <1>3, <2>1, PollStep
  <1>4. CASE t # phase /\ proc'[t] = proc[t] /\ pending' = pending /\ t # phase'
    BY <1>0, <1>4, FrameStep
  <1>5. CASE t # phase /\ t = "nav2" /\ phase' = "nav2"
             /\ proc'["nav2"] = RequestStop(proc["nav2"])
             /\ pending' = [pending EXCEPT !["nav2"] = None]
    <2>1. pending'[t] = None
      BY <1>5
    <2> QED
      BY <1>0, <1>5, <2>1, StopStep
  <1> QED
    BY <1>2, <1>3, <1>4, <1>5 DEF Stack

LEMMA TickStep ==
  ASSUME StackInv, Tick
  PROVE  \A t \in Stack : StackStep(t)
  <1> SUFFICES ASSUME NEW t \in Stack PROVE StackStep(t)
    OBVIOUS
  <1>0. /\ StackOK(t) /\ proc[t] \in Process(MaxElapsed) /\ MaxElapsed \in Nat
        /\ UNCHANGED <<pending, stopping, params, phase>>
        /\ proc'[t] = IF proc[t].elapsed \in 0..(MaxElapsed - 1)
                      THEN [proc[t] EXCEPT !.elapsed = @ + 1] ELSE proc[t]
    BY MaxElapsedType DEF StackInv, StackOK, Tick
  <1>1. CASE proc[t].elapsed \in 0..(MaxElapsed - 1)
    <2>1. /\ proc[t].elapsed + 1 \in Unset..MaxElapsed
          /\ proc[t].elapsed + 1 # Unset /\ proc[t].elapsed # Unset
      BY <1>0, <1>1 DEF Unset
    <2>2. proc'[t] = [proc[t] EXCEPT !.elapsed = proc[t].elapsed + 1]
      BY <1>0, <1>1
    <2>3. /\ proc'[t] \in Process(MaxElapsed)
          /\ proc'[t].held <=> proc[t].held
          /\ proc'[t].elapsed = proc[t].elapsed + 1
          /\ proc'[t].leader = proc[t].leader
          /\ proc'[t].node <=> proc[t].node
      BY <1>0, <2>1, <2>2 DEF Process
    <2>4. /\ proc'[t].elapsed = Unset <=> proc[t].elapsed = Unset
          /\ Alive(proc'[t]) => Alive(proc[t])
          /\ GroupAlive(proc'[t]) => GroupAlive(proc[t])
      BY <2>1, <2>3 DEF Alive, GroupAlive
    <2> QED
      BY <1>0, <2>3, <2>4, GroupStep
  <1>2. CASE ~(proc[t].elapsed \in 0..(MaxElapsed - 1))
    BY <1>0, <1>2, GroupStep
  <1> QED
    BY <1>1, <1>2

LEMMA MemberStep ==
  ASSUME StackInv, NEW s \in Stack, Group(s)
  PROVE  \A t \in Stack : StackStep(t)
  <1> SUFFICES ASSUME NEW t \in Stack PROVE StackStep(t)
    OBVIOUS
  <1> USE StackInvTypes
  <1>0. /\ StackOK(t) /\ StackOK(s)
        /\ proc[s] \in Process(MaxElapsed)
        /\ UNCHANGED <<pending, stopping, params, phase>>
    BY DEF StackInv, StackOK, Group, LeaderEnds, NodesEnd, Spawn, shutdownVars
  <1>1. CASE t # s
    <2>1. proc'[t] = proc[t]
      BY <1>1 DEF Group, LeaderEnds, NodesEnd, Spawn
    <2>2. pending[t] # None => t # phase'
      BY <1>0 DEF StackOK
    <2> QED
      BY <1>0, <2>1, <2>2, FrameStep
  <1>2. CASE t = s
    <2>1. \/ proc[s].leader = "alive" /\ proc'[s] = [proc[s] EXCEPT !.leader = "zombie"]
          \/ proc[s].node /\ proc'[s] = [proc[s] EXCEPT !.node = FALSE]
          \/ proc[s].leader = "alive" /\ proc'[s] = [proc[s] EXCEPT !.node = TRUE]
      BY DEF Group, LeaderEnds, NodesEnd, Spawn
    <2>2. /\ proc'[s] \in Process(MaxElapsed)
          /\ proc'[s].held <=> proc[s].held
          /\ proc'[s].elapsed = proc[s].elapsed
      <3>1. CASE proc'[s] = [proc[s] EXCEPT !.leader = "zombie"]
        BY <1>0, <3>1 DEF Process
      <3>2. CASE proc'[s] = [proc[s] EXCEPT !.node = FALSE]
        BY <1>0, <3>2 DEF Process
      <3>3. CASE proc'[s] = [proc[s] EXCEPT !.node = TRUE]
        BY <1>0, <3>3 DEF Process
      <3> QED
        BY <2>1, <3>1, <3>2, <3>3
    <2>3. /\ Alive(proc'[s]) => Alive(proc[s])
          /\ GroupAlive(proc'[s]) => GroupAlive(proc[s])
      BY <1>0, <2>1 DEF Process, Alive, GroupAlive
    <2> QED
      BY <1>0, <1>2, <2>2, <2>3, GroupStep
  <1> QED
    BY <1>1, <1>2

LEMMA UntouchedStep ==
  ASSUME StackInv, UNCHANGED <<stackVars, phase>>
  PROVE  \A t \in Stack : StackStep(t)
  <1> SUFFICES ASSUME NEW t \in Stack PROVE StackStep(t)
    OBVIOUS
  <1>1. /\ StackOK(t) /\ proc'[t] = proc[t] /\ pending'[t] = pending[t]
        /\ stopping'[t] = stopping[t] /\ params'[t] = params[t]
        /\ pending[t] # None => t # phase'
    BY DEF stackVars, StackInv, StackOK
  <1> QED
    BY <1>1, FrameStep

LEMMA RestartForStep ==
  ASSUME StackInv, phase = "up", phase' = phase,
         NEW c \in Challenge, RestartFor(c)
  PROVE  \A t \in Stack : StackStep(t)
  <1>1. CASE UNCHANGED stackVars
    BY <1>1, UntouchedStep
  <1>2. ASSUME RestartStack[c] # None, NEW ok \in BOOLEAN,
               StartStack(RestartStack[c], "reference", ok)
        PROVE  \A t \in Stack : StackStep(t)
    <2>1. RestartStack[c] \in Stack /\ "reference" \in Params
      BY <1>2, MissionAssumption DEF Params
    <2> QED
      BY <1>2, <2>1, StartStackStep
  <1> QED
    BY <1>1, <1>2 DEF RestartFor

\* Every step of the orchestrator is a step for each stack.
LEMMA NextStackStep ==
  ASSUME StackInv, [Next]_vars
  PROVE  \A t \in Stack : StackStep(t)
  <1>1. ASSUME NEW c \in Challenge, Report(c)
        PROVE  \A t \in Stack : StackStep(t)
    <2>1. phase = "up" /\ phase' = phase
      BY <1>1 DEF Report, OnParamsFixed, OnChallengePassed, shutdownVars
    <2>2. RestartFor(c) \/ UNCHANGED stackVars
      BY <1>1 DEF Report, OnParamsFixed, OnChallengePassed
    <2> QED
      BY <2>1, <2>2, RestartForStep, UntouchedStep
  <1>2. CASE StartNav2
    <2>1. phase = "up" /\ phase' = phase
      BY <1>2 DEF StartNav2, shutdownVars
    <2>2. CASE params["nav2"] = None
      <3>1. PICK ok \in BOOLEAN : StartStack("nav2", "initial", ok)
        BY <1>2, <2>2 DEF StartNav2
      <3>2. "nav2" \in Stack /\ "initial" \in Params
        BY DEF Stack, Params
      <3> QED
        BY <2>1, <2>2, <3>1, <3>2, StartStackStep
    <2>3. CASE params["nav2"] # None
      BY <1>2, <2>1, <2>3, UntouchedStep DEF StartNav2
    <2> QED
      BY <2>2, <2>3
  <1>3. CASE BeginShutdown
    <2> SUFFICES ASSUME NEW t \in Stack PROVE StackStep(t)
      OBVIOUS
    <2> USE StackInvTypes
    <2>1. /\ StackOK(t) /\ phase' = "slam"
          /\ UNCHANGED <<stopping, params>>
          /\ pending' = [pending EXCEPT !["slam"] = None]
          /\ proc' = [proc EXCEPT !["slam"] = RequestStop(@)]
      BY <1>3 DEF StackInv, BeginShutdown, StopStack
    <2>2. CASE t = "slam"
      <3>1. pending'[t] = None /\ proc'[t] = RequestStop(proc[t])
        BY <2>1, <2>2
      <3> QED
        BY <2>1, <3>1, StopStep
    <2>3. CASE t # "slam"
      <3>1. pending'[t] = pending[t] /\ proc'[t] = proc[t]
        BY <2>1, <2>3
      <3> QED
        BY <2>1, <2>3, <3>1, FrameStep
    <2> QED
      BY <2>2, <2>3
  <1>4. CASE UNCHANGED vars
    BY <1>4, UntouchedStep DEF vars, stackVars
  <1> QED
    BY <1>1, <1>2, <1>3, <1>4, SuperviseStep, ShutdownPollStep, TickStep, MemberStep
    DEF Next
-----------------------------------------------------------------------------
(* The rest of the state.                                                  *)

LEMMA InitInv == Init => IInv
  <1> SUFFICES ASSUME Init PROVE IInv
    OBVIOUS
  <1>1. PICK ok \in BOOLEAN :
          /\ proc = [s \in Stack |-> IF s = "slam" THEN StartProcess(NewProcess, ok)
                                                   ELSE NewProcess]
          /\ params = [s \in Stack |-> IF s = "slam" /\ ok THEN "initial" ELSE None]
    BY DEF Init
  <1>2. /\ NewProcess \in Process(MaxElapsed) /\ ~NewProcess.held
        /\ ~GroupAlive(NewProcess) /\ MaxElapsed \in Nat
    BY MaxElapsedType, NewProcessType
  <1>3. /\ StartProcess(NewProcess, ok) \in Process(MaxElapsed)
        /\ ~StartProcess(NewProcess, ok).held
             => ~GroupAlive(StartProcess(NewProcess, ok))
    <2>1. /\ StartProcess(NewProcess, ok) \in Process(MaxElapsed)
          /\ StartProcess(NewProcess, ok).held <=> ok
          /\ ~ok => /\ StartProcess(NewProcess, ok).leader = NewProcess.leader
                    /\ StartProcess(NewProcess, ok).node <=> NewProcess.node
      BY <1>1, <1>2, StartFacts
    <2> QED
      BY <1>2, <2>1 DEF GroupAlive
  <1>4. ASSUME NEW s \in Stack PROVE StackOK(s)
    <2>1. /\ pending[s] = None /\ stopping[s] = FALSE
          /\ params[s] \in {"initial", None}
      BY <1>1 DEF Init
    <2>2. proc[s] \in {NewProcess, StartProcess(NewProcess, ok)}
      BY <1>1
    <2>3. proc[s] \in Process(MaxElapsed) /\ (~proc[s].held => ~GroupAlive(proc[s]))
      BY <1>2, <1>3, <2>2
    <2> QED
      BY <2>1, <2>3 DEF StackOK, Params, None
  <1>5. TypeOK
    <2>1. proc \in [Stack -> Process(MaxElapsed)]
      BY <1>1, <1>2, <1>3
    <2>2. params \in [Stack -> Params \union {None}]
      BY <1>1 DEF Params
    <2>3. segment \in 0..LastSegment /\ waited \in 0..Deadline
      BY MissionAssumption, MaxElapsedType DEF Init
    <2>4. /\ done \in [Challenge -> BOOLEAN] /\ fixed \in [Challenge -> BOOLEAN]
          /\ startTimer \in BOOLEAN /\ stopping \in [Stack -> BOOLEAN]
          /\ polled \in BOOLEAN
      BY DEF Init
    <2>5. /\ pending \in [Stack -> Params \union {None}]
          /\ phase \in Stack \union {"up", "over"}
          /\ restarts \in Seq(Challenge)
      BY DEF Init
    <2> QED
      BY <2>1, <2>2, <2>3, <2>4, <2>5 DEF TypeOK
  <1>6. NoChallengeSkipped
    BY MissionAssumption DEF Init, NoChallengeSkipped
  <1>7. Len(restarts) = 0
    BY DEF Init
  <1>8. OrderInv /\ RestartsInMissionOrder
    BY <1>7 DEF Init, OrderInv, RestartsInMissionOrder
  <1> QED
    BY <1>4, <1>5, <1>6, <1>8, TypeIsStackInv DEF IInv

LEMMA StartStackDomain ==
  ASSUME StackDomain, NEW s \in Stack, NEW file, NEW ok, StartStack(s, file, ok)
  PROVE  StackDomain'
  <1>1. CASE proc[s].held
    BY <1>1 DEF StartStack, StackDomain
  <1>2. CASE ~proc[s].held
    BY <1>2 DEF StartStack, StackDomain
  <1> QED
    BY <1>1, <1>2

\* The variables of the stacks remain functions on the stacks.
LEMMA DomainStep ==
  ASSUME StackDomain, [Next]_vars
  PROVE  StackDomain'
  <1>1. ASSUME UNCHANGED stackVars PROVE StackDomain'
    BY <1>1 DEF stackVars, StackDomain
  <1>2. ASSUME NEW c \in Challenge, Report(c) PROVE StackDomain'
    <2>1. ASSUME RestartFor(c) PROVE StackDomain'
      BY <1>1, <2>1, MissionAssumption, StartStackDomain DEF RestartFor
    <2> QED
      BY <1>1, <1>2, <2>1 DEF Report, OnParamsFixed, OnChallengePassed
  <1>3. CASE StartNav2
    <2>1. "nav2" \in Stack
      BY DEF Stack
    <2> QED
      BY <1>1, <1>3, <2>1, StartStackDomain DEF StartNav2
  <1>4. CASE Supervise
    BY <1>4 DEF Supervise, StackDomain
  <1>5. CASE BeginShutdown
    BY <1>5 DEF BeginShutdown, StopStack, StackDomain
  <1>6. CASE ShutdownPoll
    <2>1. CASE State(Poll(proc[phase], ShutdownSigint, ShutdownSigterm)) = "stopping"
               /\ waited < Deadline
      BY <1>6, <2>1 DEF ShutdownPoll, StackDomain
    <2>2. CASE ~(State(Poll(proc[phase], ShutdownSigint, ShutdownSigterm)) = "stopping"
                 /\ waited < Deadline)
      BY <1>6, <2>2 DEF ShutdownPoll, StackDomain
    <2> QED
      BY <2>1, <2>2
  <1>7. CASE Tick
    BY <1>7 DEF Tick, StackDomain
  <1>8. ASSUME NEW s \in Stack, Group(s) PROVE StackDomain'
    <2>1. CASE LeaderEnds(s)
      BY <2>1 DEF LeaderEnds, StackDomain
    <2>2. CASE NodesEnd(s)
      BY <2>2 DEF NodesEnd, StackDomain
    <2>3. CASE Spawn(s)
      BY <2>3 DEF Spawn, StackDomain
    <2> QED
      BY <1>8, <2>1, <2>2, <2>3 DEF Group
  <1>9. CASE UNCHANGED vars
    BY <1>1, <1>9 DEF vars, stackVars
  <1> QED
    BY <1>2, <1>3, <1>4, <1>5, <1>6, <1>7, <1>8, <1>9 DEF Next

LEMMA StackInvStep ==
  ASSUME StackInv, [Next]_vars
  PROVE  StackInv'
  <1>1. \A s \in Stack : StackOK(s)'
    BY NextStackStep DEF StackStep
  <1>2. StackDomain'
    BY DomainStep DEF StackInv
  <1> QED
    BY <1>1, <1>2 DEF StackInv
-----------------------------------------------------------------------------
(* The mission.                                                            *)

\* What an accepted report changes.
LEMMA ReportFacts ==
  ASSUME TypeOK, OrderInv, NEW c \in Challenge, Report(c)
  PROVE  /\ ~done[c] /\ \A d \in 1..(c - 1) : done[d]
         /\ fixed' = fixed \/ (c \in HasParamsCheck /\ fixed' = [fixed EXCEPT ![c] = TRUE])
         /\ \/ done' = done /\ segment' = segment
            \/ /\ done' = [done EXCEPT ![c] = TRUE]
               /\ segment' = IF EditSegment[c] < LastSegment
                             THEN EditSegment[c] + 1 ELSE LastSegment
         /\ \/ restarts' = restarts
            \/ /\ restarts' = Append(restarts, c) /\ ~fixed[c]
               /\ done'[c] \/ fixed'[c]
  <1>1. CASE OnParamsFixed(c)
    <2>1. /\ ~done[c] /\ \A d \in 1..(c - 1) : done[d]
          /\ ~fixed[c] /\ c \in HasParamsCheck
          /\ fixed' = [fixed EXCEPT ![c] = TRUE] /\ done' = done
          /\ segment' = segment
      BY <1>1 DEF OnParamsFixed, Gate
    <2>2. restarts' = restarts \/ restarts' = Append(restarts, c)
      BY <1>1 DEF OnParamsFixed, RestartFor
    <2>3. fixed'[c]
      BY <2>1 DEF TypeOK
    <2> QED
      BY <2>1, <2>2, <2>3
  <1>2. CASE OnChallengePassed(c)
    <2>1. /\ ~done[c] /\ \A d \in 1..(c - 1) : done[d]
          /\ done' = [done EXCEPT ![c] = TRUE] /\ fixed' = fixed
          /\ segment' = IF EditSegment[c] < LastSegment
                        THEN EditSegment[c] + 1 ELSE LastSegment
      BY <1>2 DEF OnChallengePassed, Gate
    <2>2. CASE c \in HasParamsCheck
      <3>1. restarts' = restarts
        BY <1>2, <2>2 DEF OnChallengePassed
      <3> QED
        BY <2>1, <3>1
    <2>3. CASE c \notin HasParamsCheck
      <3>1. restarts' = restarts \/ restarts' = Append(restarts, c)
        BY <1>2, <2>3 DEF OnChallengePassed, RestartFor
      <3>2. ~fixed[c]
        BY <2>3 DEF OrderInv
      <3>3. done'[c]
        BY <2>1 DEF TypeOK
      <3> QED
        BY <2>1, <3>1, <3>2, <3>3
    <2> QED
      BY <2>2, <2>3
  <1> QED
    BY <1>1, <1>2 DEF Report

\* The other actions leave the mission alone.
LEMMA MissionFrame ==
  ASSUME [Next]_vars
  PROVE  \/ \E c \in Challenge : Report(c)
         \/ UNCHANGED <<done, fixed, segment, restarts>>
  <1>1. StartNav2 \/ Supervise => UNCHANGED <<done, fixed, segment, restarts>>
    BY DEF StartNav2, Supervise, missionVars
  <1>2. BeginShutdown \/ ShutdownPoll \/ Tick
          => UNCHANGED <<done, fixed, segment, restarts>>
    BY DEF BeginShutdown, ShutdownPoll, Tick, missionVars
  <1>3. \A s \in Stack : Group(s) => UNCHANGED <<done, fixed, segment, restarts>>
    BY DEF Group, LeaderEnds, NodesEnd, Spawn, missionVars
  <1> QED
    BY <1>1, <1>2, <1>3 DEF Next, vars

LEMMA SegmentStep ==
  ASSUME TypeOK, OrderInv, NoChallengeSkipped, [Next]_vars
  PROVE  NoChallengeSkipped'
  <1>1. CASE UNCHANGED <<done, fixed, segment, restarts>>
    BY <1>1 DEF NoChallengeSkipped
  <1>2. ASSUME NEW c \in Challenge, Report(c) PROVE NoChallengeSkipped'
    <2>1. CASE done' = done /\ segment' = segment
      BY <2>1 DEF NoChallengeSkipped
    <2>2. CASE /\ done' = [done EXCEPT ![c] = TRUE]
               /\ segment' = IF EditSegment[c] < LastSegment
                             THEN EditSegment[c] + 1 ELSE LastSegment
      <3> SUFFICES ASSUME NEW d \in Challenge, segment' > EditSegment[d]
                   PROVE  done'[d]
        BY DEF NoChallengeSkipped
      <3>1. EditSegment[c] \in Nat /\ EditSegment[d] \in Nat /\ LastSegment \in Nat
            /\ EditSegment[c] <= LastSegment /\ c \in Nat /\ d \in Nat /\ d >= 1
        BY MissionAssumption DEF Challenge
      <3>2. segment' <= EditSegment[c] + 1
        BY <2>2, <3>1
      <3>3. segment' \in Nat
        BY <2>2, <3>1
      <3>4. ~(EditSegment[c] < EditSegment[d])
        BY <3>1, <3>2, <3>3
      <3>5. ~(c < d)
        BY <3>4, MissionAssumption
      <3>6. CASE d = c
        BY <2>2, <3>6 DEF TypeOK
      <3>7. CASE d # c
        <4>1. d \in 1..(c - 1)
          BY <3>1, <3>5, <3>7
        <4>2. done[d]
          BY <1>2, <4>1, ReportFacts
        <4> QED
          BY <2>2, <3>7, <4>2 DEF TypeOK
      <3> QED
        BY <3>6, <3>7
    <2> QED
      BY <1>2, <2>1, <2>2, ReportFacts
  <1> QED
    BY <1>1, <1>2, MissionFrame

LEMMA OrderStep ==
  ASSUME TypeOK, OrderInv, RestartsInMissionOrder, [Next]_vars
  PROVE  OrderInv' /\ RestartsInMissionOrder'
  <1>1. CASE UNCHANGED <<done, fixed, segment, restarts>>
    BY <1>1 DEF OrderInv, RestartsInMissionOrder
  <1>2. ASSUME NEW c \in Challenge, Report(c)
        PROVE  OrderInv' /\ RestartsInMissionOrder'
    <2>0. /\ restarts \in Seq(Challenge) /\ Len(restarts) \in Nat
          /\ \A i \in 1..Len(restarts) : restarts[i] \in Challenge
          /\ \A d \in Challenge : d \in Nat /\ d >= 1
      <3>1. \A d \in Challenge : d \in Nat /\ d >= 1
        BY MissionAssumption DEF Challenge
      <3> QED
        BY <3>1 DEF TypeOK
    <2>1. /\ ~done[c] /\ \A d \in 1..(c - 1) : done[d]
          /\ fixed' = fixed \/ (c \in HasParamsCheck /\ fixed' = [fixed EXCEPT ![c] = TRUE])
          /\ done' = done \/ done' = [done EXCEPT ![c] = TRUE]
          /\ \/ restarts' = restarts
             \/ /\ restarts' = Append(restarts, c) /\ ~fixed[c]
                /\ done'[c] \/ fixed'[c]
      BY <1>2, ReportFacts
    <2>2. \A d \in Challenge : done[d] => done'[d]
      BY <2>1 DEF TypeOK
    <2>3. \A d \in Challenge : fixed[d] => fixed'[d]
      BY <2>1 DEF TypeOK
    <2>4. \A d \in Challenge : (done'[d] \/ fixed'[d]) => d = c \/ done[d] \/ fixed[d]
      BY <2>1 DEF TypeOK
    <2>5. \A d \in Challenge : fixed'[d] => d \in HasParamsCheck
      BY <2>1 DEF OrderInv, TypeOK
    <2>6. ASSUME NEW d \in Challenge, done'[d] \/ fixed'[d], NEW b \in 1..(d - 1)
          PROVE  done'[b]
      <3>1. d \in Nat /\ b \in Challenge
        BY MissionAssumption DEF Challenge
      <3>2. done[b]
        BY <2>1, <2>4, <2>6 DEF OrderInv
      <3> QED
        BY <2>2, <3>1, <3>2
    <2>7. \A i \in 1..Len(restarts) : done'[restarts[i]] \/ fixed'[restarts[i]]
      BY <2>0, <2>2, <2>3 DEF OrderInv
    <2>8. CASE restarts' = restarts
      BY <2>5, <2>6, <2>7, <2>8 DEF OrderInv, RestartsInMissionOrder
    <2>9. CASE restarts' = Append(restarts, c) /\ ~fixed[c] /\ (done'[c] \/ fixed'[c])
      <3>1. /\ Len(restarts') = Len(restarts) + 1
            /\ \A i \in 1..Len(restarts) : restarts'[i] = restarts[i]
            /\ restarts'[Len(restarts) + 1] = c
        BY <2>0, <2>9
      <3>2. ASSUME NEW i \in 1..Len(restarts) PROVE restarts[i] < c
        <4>1. restarts[i] \in Challenge /\ (done[restarts[i]] \/ fixed[restarts[i]])
          BY <2>0 DEF OrderInv
        <4>2. restarts[i] # c
          BY <2>1, <2>9, <4>1
        <4>3. ~(c < restarts[i])
          <5> SUFFICES ASSUME c < restarts[i] PROVE FALSE
            OBVIOUS
          <5>1. c \in 1..(restarts[i] - 1)
            BY <2>0, <4>1
          <5> QED
            BY <2>1, <4>1, <5>1 DEF OrderInv
        <4> QED
          BY <2>0, <4>1, <4>2, <4>3
      <3>3. \A i \in 1..Len(restarts') : done'[restarts'[i]] \/ fixed'[restarts'[i]]
        BY <2>0, <2>7, <2>9, <3>1
      <3>4. RestartsInMissionOrder'
        <4> SUFFICES ASSUME NEW i \in 1..Len(restarts'), NEW j \in 1..Len(restarts'),
                            i < j
                     PROVE  restarts'[i] < restarts'[j]
          BY DEF RestartsInMissionOrder
        <4>1. i \in 1..Len(restarts)
          BY <2>0, <3>1
        <4>2. CASE j = Len(restarts) + 1
          BY <3>1, <3>2, <4>1, <4>2
        <4>3. CASE j # Len(restarts) + 1
          <5>0. j \in Nat /\ j >= 1 /\ j <= Len(restarts) + 1
            BY <2>0, <3>1
          <5>1. j \in 1..Len(restarts)
            BY <2>0, <4>3, <5>0
          <5> QED
            BY <3>1, <4>1, <5>1 DEF RestartsInMissionOrder
        <4> QED
          BY <4>2, <4>3
      <3> QED
        BY <2>5, <2>6, <3>3, <3>4 DEF OrderInv
    <2> QED
      BY <2>1, <2>8, <2>9
  <1> QED
    BY <1>1, <1>2, MissionFrame

-----------------------------------------------------------------------------
(* Types.                                                                  *)

LEMMA TypeStep ==
  ASSUME TypeOK, OrderInv, StackInv', [Next]_vars
  PROVE  TypeOK'
  <1>1. /\ proc' \in [Stack -> Process(MaxElapsed)]
        /\ pending' \in [Stack -> Params \union {None}]
        /\ stopping' \in [Stack -> BOOLEAN]
        /\ params' \in [Stack -> Params \union {None}]
    <2>1. \A s \in Stack : /\ proc'[s] \in Process(MaxElapsed)
                           /\ pending'[s] \in Params \union {None}
                           /\ stopping'[s] \in BOOLEAN
                           /\ params'[s] \in Params \union {None}
      BY DEF StackInv, StackOK
    <2> QED
      BY <2>1 DEF StackInv, StackDomain
  <1>2. /\ done' \in [Challenge -> BOOLEAN] /\ fixed' \in [Challenge -> BOOLEAN]
        /\ segment' \in 0..LastSegment /\ restarts' \in Seq(Challenge)
    <2>1. CASE UNCHANGED <<done, fixed, segment, restarts>>
      BY <2>1 DEF TypeOK
    <2>2. ASSUME NEW c \in Challenge, Report(c)
          PROVE  /\ done' \in [Challenge -> BOOLEAN]
                 /\ fixed' \in [Challenge -> BOOLEAN]
                 /\ segment' \in 0..LastSegment /\ restarts' \in Seq(Challenge)
      <3>1. /\ EditSegment[c] \in Nat /\ LastSegment \in Nat
            /\ EditSegment[c] <= LastSegment
        BY MissionAssumption
      <3>2. done' \in [Challenge -> BOOLEAN] /\ fixed' \in [Challenge -> BOOLEAN]
        BY <2>2, ReportFacts DEF TypeOK
      <3>3. segment' \in 0..LastSegment
        BY <2>2, <3>1, ReportFacts DEF TypeOK
      <3>4. restarts' \in Seq(Challenge)
        BY <2>2, ReportFacts DEF TypeOK
      <3> QED
        BY <3>2, <3>3, <3>4
    <2> QED
      BY <2>1, <2>2, MissionFrame
  <1>3. startTimer' \in BOOLEAN
    <2>1. startTimer' \in {startTimer, FALSE}
      BY DEF Next, vars, Report, OnParamsFixed, OnChallengePassed, StartNav2,
             Supervise, BeginShutdown, ShutdownPoll, Tick, Group, LeaderEnds,
             NodesEnd, Spawn
    <2> QED
      BY <2>1 DEF TypeOK
  <1>4. /\ phase' \in Stack \union {"up", "over"}
        /\ waited' \in 0..Deadline /\ polled' \in BOOLEAN
    <2>0. waited \in Nat /\ waited <= Deadline /\ Deadline \in Nat
      BY MaxElapsedType DEF TypeOK
    <2>1. CASE BeginShutdown
      <3>1. phase' = "slam" /\ waited' = 0 /\ polled' = FALSE
        BY <2>1 DEF BeginShutdown, StopStack
      <3>2. waited' \in 0..Deadline
        BY <2>0, <3>1
      <3> QED
        BY <3>1, <3>2 DEF Stack
    <2>2. CASE ShutdownPoll
      <3>1. /\ phase' \in {phase, "nav2", "over"} /\ phase \in Stack
            /\ waited' = waited \/ waited' = 0
            /\ polled' \in {polled, TRUE, FALSE}
        BY <2>2 DEF ShutdownPoll
      <3>2. waited' \in 0..Deadline
        BY <2>0, <3>1
      <3>3. phase' \in Stack \union {"up", "over"}
        BY <3>1 DEF Stack
      <3>4. polled' \in BOOLEAN
        BY <3>1 DEF TypeOK
      <3> QED
        BY <3>2, <3>3, <3>4
    <2>3. CASE Tick
      <3>1. /\ phase' = phase /\ polled' = FALSE
            /\ waited' = waited \/ (waited < Deadline /\ waited' = waited + 1)
        BY <2>3 DEF Tick
      <3>2. waited' \in 0..Deadline
        BY <2>0, <3>1
      <3> QED
        BY <3>1, <3>2 DEF TypeOK
    <2>4. CASE UNCHANGED shutdownVars
      BY <2>4 DEF shutdownVars, TypeOK
    <2>5. StartNav2 \/ Supervise => UNCHANGED shutdownVars
      BY DEF StartNav2, Supervise
    <2>6. \A c \in Challenge : Report(c) => UNCHANGED shutdownVars
      BY DEF Report, OnParamsFixed, OnChallengePassed
    <2>7. \A s \in Stack : Group(s) => UNCHANGED shutdownVars
      BY DEF Group, LeaderEnds, NodesEnd, Spawn
    <2>8. UNCHANGED vars => UNCHANGED shutdownVars
      BY DEF vars, shutdownVars
    <2> QED
      BY <2>1, <2>2, <2>3, <2>4, <2>5, <2>6, <2>7, <2>8 DEF Next
  <1> QED
    BY <1>1, <1>2, <1>3, <1>4 DEF TypeOK
-----------------------------------------------------------------------------
(* The theorems.                                                           *)

LEMMA InvStep == IInv /\ [Next]_vars => IInv'
  <1> SUFFICES ASSUME IInv, [Next]_vars PROVE IInv'
    OBVIOUS
  <1>1. StackInv'
    BY StackInvStep DEF IInv
  <1>2. TypeOK'
    BY <1>1, TypeStep DEF IInv
  <1>3. OrderInv' /\ RestartsInMissionOrder' /\ NoChallengeSkipped'
    BY OrderStep, SegmentStep DEF IInv
  <1> QED
    BY <1>1, <1>2, <1>3 DEF IInv

LEMMA InvHolds == Safety => []IInv
  BY InitInv, InvStep, PTL DEF Safety

\* Type correctness, for any mission and any timeouts.
THEOREM TypeCorrect == Safety => []TypeOK
  BY InvHolds, PTL DEF IInv

\* Stacks are restarted in the order of the mission, once per challenge.
THEOREM RestartsInMissionOrderHolds == Safety => []RestartsInMissionOrder
  BY InvHolds, PTL DEF IInv

\* No segment behind a challenge that has not passed is shown.
THEOREM NoChallengeSkippedHolds == Safety => []NoChallengeSkipped
  BY InvHolds, PTL DEF IInv

\* The reference parameters, once launched, are not replaced.
THEOREM ReferenceSticksHolds == Safety => ReferenceSticks
  <1> DEFINE A == \A s \in Stack : params[s] = "reference" => params'[s] = "reference"
  <1>1. IInv /\ [Next]_vars => A
    BY NextStackStep DEF IInv, StackStep
  <1>2. []IInv /\ [][Next]_vars => [][A]_vars
    BY <1>1, PTL
  <1> QED
    BY InvHolds, <1>2, PTL DEF Safety, ReferenceSticks

-----------------------------------------------------------------------------
(* The orchestrator implements StackService.                               *)

LEMMA WishRunTypes ==
  ASSUME NEW s \in Stack, StackOK(s)
  PROVE  Wish(s) \in Params \union {None} /\ Run(s) \in Params \union {None}
  BY DEF StackOK, Wish, Run

LEMMA ServiceInit == Init => Service!Init
  <1> SUFFICES ASSUME Init PROVE Service!Init
    OBVIOUS
  <1>1. IInv
    BY InitInv
  <1>2. \A s \in Stack : Wish(s) \in Params \union {None}
    BY <1>1, WishRunTypes DEF IInv, StackInv
  <1>3. ASSUME NEW s \in Stack PROVE Run(s) = Wish(s)
    <2>1. PICK ok \in BOOLEAN :
            /\ proc = [t \in Stack |-> IF t = "slam" THEN StartProcess(NewProcess, ok)
                                                     ELSE NewProcess]
            /\ params = [t \in Stack |-> IF t = "slam" /\ ok THEN "initial" ELSE None]
      BY DEF Init
    <2>2. /\ NewProcess \in Process(MaxElapsed) /\ MaxElapsed \in Nat
          /\ ~NewProcess.held /\ ~GroupAlive(NewProcess)
      BY MaxElapsedType, NewProcessType
    <2>3. pending[s] = None
      BY DEF Init
    <2>4. CASE s = "slam" /\ ok
      <3>1. proc[s] = StartProcess(NewProcess, ok)
        BY <2>1, <2>4
      <3>2. LET p == StartProcess(NewProcess, ok)
            IN  /\ p \in Process(MaxElapsed) /\ p.held
                /\ p.elapsed = Unset /\ p.leader = "alive"
        BY <2>1, <2>2, <2>4, StartFacts
      <3>3. State(proc[s]) = "running" /\ Alive(proc[s])
        BY <2>2, <3>1, <3>2, RunningState DEF Alive
      <3> QED
        BY <2>3, <3>3 DEF Wish, Run
    <2>5. CASE ~(s = "slam" /\ ok)
      <3>1. params[s] = None
        BY <2>1, <2>5
      <3> QED
        BY <2>3, <3>1 DEF Wish, Run
    <2> QED
      BY <2>4, <2>5
  <1> QED
    BY <1>2, <1>3 DEF Service!Init, Service!Choice, Wish, Run

LEMMA ServiceNext == IInv /\ [Next]_vars => [Service!Next]_(Service!vars)
  <1> SUFFICES ASSUME IInv, [Next]_vars PROVE Service!Next
    OBVIOUS
  <1>1. \A s \in Stack : ServiceStep(s) /\ StackOK(s)'
    BY NextStackStep DEF IInv, StackStep
  <1>2. \A s \in Stack : /\ Wish(s)' \in Params \union {None}
                         /\ Run(s)' \in Params \union {None}
    <2>1. ASSUME NEW s \in Stack
          PROVE  Wish(s)' \in Params \union {None} /\ Run(s)' \in Params \union {None}
      BY <1>1 DEF StackOK, Wish, Run
    <2> QED
      BY <2>1
  <1> QED
    BY <1>1, <1>2
    DEF Service!Next, Service!Choice, Service!Ask, Service!Begin, Service!End,
        Service!Forget, ServiceStep, Wish, Run

\* No process of a launch is left when the next one starts, and that one has
\* the parameters asked for last.
THEOREM OrchestratorImplementsService == Safety => ImplementsService
  BY InvHolds, ServiceInit, ServiceNext, PTL
  DEF Safety, ImplementsService, Service!Spec
-----------------------------------------------------------------------------
(* The shutdown.                                                           *)

\* A stop that was begun was begun with a signal.
Signalled(p) == p.held /\ p.elapsed # Unset => p.sent # "none"

\* The loop has polled when it had run for t ticks or more: w ticks have passed,
\* and b if it has polled since the last one.
Past(w, b, t) == w > t \/ (w = t /\ b)

\* Where the loop of stop_blocking is with the stack p that it stops.  Time and polls
\* alternate, so that every signal is sent before the next one is due.
Progress(p, w, b) ==
  p.held =>
    /\ p.elapsed # Unset
    /\ p.elapsed >= w \/ p.elapsed >= MaxElapsed
    /\ Past(w, b, ShutdownSigint) => p.sent \in {"SIGTERM", "SIGKILL"}
    /\ Past(w, b, ShutdownSigint + ShutdownSigterm) => p.sent = "SIGKILL"

\* A stack the shutdown is done with.
Finished(p) == Alive(p) => p.sent = "SIGKILL"

ShutdownInv ==
  /\ \A s \in Stack : Signalled(proc[s])
  /\ phase \in Stack => Progress(proc[phase], waited, polled)
  /\ phase \in {"nav2", "over"} => Finished(proc["slam"])
  /\ phase = "over" => Finished(proc["nav2"])

LEMMA EscalateSignals ==
  ASSUME NEW M \in Nat, NEW p \in Process(M), NEW a \in Nat, NEW b \in Nat
  PROVE  /\ p.sent # "none" => Escalate(p, a, b).sent # "none"
         /\ p.sent = "SIGKILL" => Escalate(p, a, b).sent = "SIGKILL"
         /\ p.sent \in {"SIGTERM", "SIGKILL"}
              => Escalate(p, a, b).sent \in {"SIGTERM", "SIGKILL"}
         /\ p.sent # "none" /\ p.elapsed >= a
              => Escalate(p, a, b).sent \in {"SIGTERM", "SIGKILL"}
         /\ p.sent \in {"SIGTERM", "SIGKILL"} /\ p.elapsed >= a + b
              => Escalate(p, a, b).sent = "SIGKILL"
  BY DEF Escalate, Process, Signal

LEMMA RequestSignals ==
  ASSUME NEW M \in Nat, NEW p \in Process(M), Signalled(p)
  PROVE  Signalled(RequestStop(p))
  <1>1. CASE p.held /\ p.elapsed = Unset
    BY <1>1, RequestStopFacts DEF Signalled
  <1>2. CASE ~(p.held /\ p.elapsed = Unset)
    <2>1. RequestStop(p) = p
      BY <1>2 DEF RequestStop
    <2> QED
      BY <2>1
  <1> QED
    BY <1>1, <1>2

LEMMA PollSignals ==
  ASSUME NEW M \in Nat, NEW p \in Process(M), NEW a \in Nat, NEW b \in Nat,
         Signalled(p)
  PROVE  LET n == Poll(p, a, b) IN
         /\ Signalled(n)
         /\ p.held /\ n.held /\ p.elapsed # Unset =>
              /\ n.elapsed = p.elapsed
              /\ p.sent = "SIGKILL" => n.sent = "SIGKILL"
              /\ p.sent \in {"SIGTERM", "SIGKILL"} => n.sent \in {"SIGTERM", "SIGKILL"}
              /\ p.elapsed >= a => n.sent \in {"SIGTERM", "SIGKILL"}
              /\ p.sent \in {"SIGTERM", "SIGKILL"} /\ p.elapsed >= a + b
                   => n.sent = "SIGKILL"
  <1> DEFINE q == Reap(p)
             r == RequestStop(q)
  <1>1. /\ q \in Process(M) /\ (q.held <=> p.held)
        /\ q.elapsed = p.elapsed /\ q.sent = p.sent
    BY ReapFacts
  <1>2. Signalled(q)
    BY <1>1 DEF Signalled
  <1> HIDE DEF q
  <1>3. CASE ~p.held \/ (p.elapsed = Unset /\ q.leader = "alive")
    <2>1. Poll(p, a, b) = p
      BY <1>3 DEF Poll, q
    <2> QED
      BY <1>3, <2>1
  <1>4. CASE ~(~p.held \/ (p.elapsed = Unset /\ q.leader = "alive")) /\ ~GroupAlive(q)
    <2>1. Poll(p, a, b) = Forget(q)
      BY <1>4 DEF Poll, q
    <2>2. ~Poll(p, a, b).held
      BY <1>1, <2>1, ForgetFacts
    <2> QED
      BY <2>2 DEF Signalled
  <1>5. CASE ~(~p.held \/ (p.elapsed = Unset /\ q.leader = "alive")) /\ GroupAlive(q)
    <2>1. Poll(p, a, b) = Escalate(r, a, b)
      BY <1>5 DEF Poll, q
    <2>2. /\ r \in Process(M) /\ r.held /\ r.elapsed # Unset /\ Signalled(r)
          /\ p.elapsed # Unset => r = q
      BY <1>1, <1>2, <1>5, RequestStopFacts, RequestSignals
    <2> HIDE DEF r
    <2>3. r.sent # "none"
      BY <2>2 DEF Signalled
    <2>4. Signalled(Escalate(r, a, b))
      BY <2>2, <2>3, EscalateSignals DEF Signalled
    <2>5. ASSUME p.elapsed # Unset
          PROVE  LET n == Escalate(r, a, b) IN
                 /\ n.elapsed = p.elapsed
                 /\ p.sent = "SIGKILL" => n.sent = "SIGKILL"
                 /\ p.sent \in {"SIGTERM", "SIGKILL"} => n.sent \in {"SIGTERM", "SIGKILL"}
                 /\ p.elapsed >= a => n.sent \in {"SIGTERM", "SIGKILL"}
                 /\ p.sent \in {"SIGTERM", "SIGKILL"} /\ p.elapsed >= a + b
                      => n.sent = "SIGKILL"
      <3>1. r.sent = p.sent /\ r.elapsed = p.elapsed
        BY <1>1, <2>2, <2>5
      <3>2. Escalate(r, a, b).elapsed = r.elapsed
        BY <2>2, EscalateFacts
      <3> QED
        BY <2>2, <2>3, <3>1, <3>2, EscalateSignals
    <2> QED
      BY <2>1, <2>4, <2>5
  <1> QED
    BY <1>3, <1>4, <1>5
LEMMA StartSignals ==
  ASSUME NEW M \in Nat, NEW p \in Process(M), NEW ok \in BOOLEAN, ~p.held
  PROVE  Signalled(StartProcess(p, ok))
  BY StartFacts DEF Signalled

LEMMA StartStackSignals ==
  ASSUME StackInv, \A s \in Stack : Signalled(proc[s]),
         NEW s \in Stack, NEW file \in Params, NEW ok \in BOOLEAN,
         StartStack(s, file, ok)
  PROVE  \A t \in Stack : Signalled(proc'[t])
  <1> SUFFICES ASSUME NEW t \in Stack PROVE Signalled(proc'[t])
    OBVIOUS
  <1>0. proc \in [Stack -> Process(MaxElapsed)] /\ MaxElapsed \in Nat
    BY StackInvTypes, MaxElapsedType
  <1>1. \/ proc'[t] = proc[t]
        \/ proc'[t] = RequestStop(proc[t])
        \/ ~proc[t].held /\ proc'[t] = StartProcess(proc[t], ok)
    <2>1. CASE proc[s].held
      BY <1>0, <2>1 DEF StartStack
    <2>2. CASE ~proc[s].held
      BY <1>0, <2>2 DEF StartStack
    <2> QED
      BY <2>1, <2>2
  <1>2. CASE proc'[t] = proc[t]
    BY <1>2
  <1>3. CASE proc'[t] = RequestStop(proc[t])
    <2>1. Signalled(RequestStop(proc[t]))
      BY <1>0, RequestSignals
    <2> QED
      BY <1>3, <2>1
  <1>4. CASE ~proc[t].held /\ proc'[t] = StartProcess(proc[t], ok)
    <2>1. Signalled(StartProcess(proc[t], ok))
      BY <1>0, <1>4, StartSignals
    <2> QED
      BY <1>4, <2>1
  <1> QED
    BY <1>1, <1>2, <1>3, <1>4

\* While the node is up, stops are begun with a signal.
LEMMA UpSignals ==
  ASSUME StackInv, \A s \in Stack : Signalled(proc[s]),
         StartNav2 \/ Supervise \/ \E c \in Challenge : Report(c)
  PROVE  \A t \in Stack : Signalled(proc'[t])
  <1>0. proc \in [Stack -> Process(MaxElapsed)] /\ MaxElapsed \in Nat
    BY StackInvTypes, MaxElapsedType
  <1>1. ASSUME UNCHANGED stackVars PROVE \A t \in Stack : Signalled(proc'[t])
    BY <1>1 DEF stackVars
  <1>2. ASSUME NEW c \in Challenge, Report(c)
        PROVE  \A t \in Stack : Signalled(proc'[t])
    <2>1. ASSUME RestartFor(c) PROVE \A t \in Stack : Signalled(proc'[t])
      <3>1. RestartStack[c] # None => RestartStack[c] \in Stack
        BY MissionAssumption
      <3>2. "reference" \in Params
        BY DEF Params
      <3> QED
        BY <1>1, <2>1, <3>1, <3>2, StartStackSignals DEF RestartFor
    <2> QED
      BY <1>1, <1>2, <2>1 DEF Report, OnParamsFixed, OnChallengePassed
  <1>3. CASE StartNav2
    <2>1. "nav2" \in Stack /\ "initial" \in Params
      BY DEF Stack, Params
    <2> QED
      BY <1>1, <1>3, <2>1, StartStackSignals DEF StartNav2
  <1>4. CASE Supervise
    <2> SUFFICES ASSUME NEW t \in Stack PROVE Signalled(proc'[t])
      OBVIOUS
    <2> DEFINE next == Poll(proc[t], SigintTimeout, SigtermTimeout)
    <2>1. PICK ok \in [Stack -> BOOLEAN] :
            proc'[t] = IF (proc[t].held /\ ~next.held) /\ pending[t] # None
                       THEN StartProcess(next, ok[t]) ELSE next
      BY <1>4 DEF Supervise
    <2>2. next \in Process(MaxElapsed) /\ Signalled(next)
      <3>1. proc[t] \in Process(MaxElapsed) /\ SigintTimeout \in Nat
            /\ SigtermTimeout \in Nat /\ Signalled(proc[t])
        BY <1>0, TimeoutAssumption
      <3>2. next \in Process(MaxElapsed)
        BY <1>0, <3>1, PollFacts
      <3>3. Signalled(next)
        BY <1>0, <3>1, PollSignals
      <3> QED
        BY <3>2, <3>3
    <2>3. ok[t] \in BOOLEAN
      BY <2>1
    <2> HIDE DEF next
    <2>4. ~next.held => Signalled(StartProcess(next, ok[t]))
      BY <1>0, <2>2, <2>3, StartSignals
    <2> QED
      BY <2>1, <2>2, <2>4
  <1> QED
    BY <1>2, <1>3, <1>4

\* The stop of a stack begins: no time has passed, the first signal is sent.
LEMMA StopProgress ==
  ASSUME NEW p \in Process(MaxElapsed), NEW b
  PROVE  Progress(RequestStop(p), 0, b)
  <1> DEFINE n == RequestStop(p)
  <1>1. MaxElapsed \in Nat
    BY MaxElapsedType
  <1>2. n.held => n.elapsed # Unset /\ n.elapsed >= 0
    BY <1>1, RequestStopFacts DEF Process, Unset
  <1>3. /\ ShutdownSigint > 0 /\ ShutdownSigint \in Nat
        /\ ShutdownSigterm > 0 /\ ShutdownSigterm \in Nat
    BY TimeoutAssumption
  <1> SUFFICES Progress(n, 0, b)
    OBVIOUS
  <1> HIDE DEF n
  <1>4. /\ ~Past(0, b, ShutdownSigint)
        /\ ~Past(0, b, ShutdownSigint + ShutdownSigterm)
    BY <1>3 DEF Past
  <1> QED
    BY <1>2, <1>4 DEF Progress

\* A poll sends the signal that is due.
LEMMA PollProgress ==
  ASSUME NEW p \in Process(MaxElapsed), NEW w \in Nat, NEW b,
         Signalled(p), Progress(p, w, b)
  PROVE  Progress(Poll(p, ShutdownSigint, ShutdownSigterm), w, TRUE)
  <1> DEFINE n == Poll(p, ShutdownSigint, ShutdownSigterm)
  <1>0. /\ ShutdownSigint \in Nat /\ ShutdownSigterm \in Nat
        /\ ShutdownSigterm > 0 /\ MaxElapsed \in Nat
        /\ ShutdownSigint + ShutdownSigterm <= MaxElapsed
    BY TimeoutAssumption, MaxElapsedType DEF MaxElapsed
  <1> SUFFICES ASSUME n.held PROVE Progress(n, w, TRUE)
    BY DEF Progress
  <1>1. p.held /\ p.elapsed # Unset /\ p.elapsed \in Nat
    <2>1. p.held
      BY <1>0, PollFacts
    <2> QED
      BY <2>1 DEF Progress, Process, Unset
  <1>2. /\ n.elapsed = p.elapsed
        /\ p.sent = "SIGKILL" => n.sent = "SIGKILL"
        /\ p.sent \in {"SIGTERM", "SIGKILL"} => n.sent \in {"SIGTERM", "SIGKILL"}
        /\ p.elapsed >= ShutdownSigint => n.sent \in {"SIGTERM", "SIGKILL"}
        /\ p.sent \in {"SIGTERM", "SIGKILL"}
             /\ p.elapsed >= ShutdownSigint + ShutdownSigterm
             => n.sent = "SIGKILL"
    BY <1>0, <1>1, PollSignals
  <1> HIDE DEF n
  <1>3. p.elapsed >= w \/ p.elapsed >= MaxElapsed
    BY <1>1 DEF Progress
  <1>4. w >= ShutdownSigint => n.sent \in {"SIGTERM", "SIGKILL"}
    BY <1>0, <1>1, <1>2, <1>3
  <1>5. w >= ShutdownSigint + ShutdownSigterm => n.sent = "SIGKILL"
    <2> SUFFICES ASSUME w >= ShutdownSigint + ShutdownSigterm
                 PROVE  n.sent = "SIGKILL"
      OBVIOUS
    <2>1. w > ShutdownSigint /\ p.elapsed >= ShutdownSigint + ShutdownSigterm
      BY <1>0, <1>1, <1>3
    <2>2. p.sent \in {"SIGTERM", "SIGKILL"}
      BY <1>1, <2>1 DEF Progress, Past
    <2> QED
      BY <1>2, <2>1, <2>2
  <1>6. /\ Past(w, TRUE, ShutdownSigint) => w >= ShutdownSigint
        /\ Past(w, TRUE, ShutdownSigint + ShutdownSigterm)
             => w >= ShutdownSigint + ShutdownSigterm
    BY <1>0 DEF Past
  <1>7. n.elapsed # Unset /\ (n.elapsed >= w \/ n.elapsed >= MaxElapsed)
    BY <1>1, <1>2, <1>3
  <1> QED
    BY <1>4, <1>5, <1>6, <1>7 DEF Progress

\* When the loop of stop_blocking ends, the stack is finished.
LEMMA PollFinished ==
  ASSUME NEW p \in Process(MaxElapsed), NEW w \in Nat, NEW b,
         Signalled(p), Progress(p, w, b), ~p.held => ~GroupAlive(p),
         LET n == Poll(p, ShutdownSigint, ShutdownSigterm)
         IN  State(n) # "stopping" \/ w >= Deadline
  PROVE  Finished(Poll(p, ShutdownSigint, ShutdownSigterm))
  <1> DEFINE n == Poll(p, ShutdownSigint, ShutdownSigterm)
  <1>0. /\ ShutdownSigint \in Nat /\ ShutdownSigterm \in Nat
        /\ ShutdownGuard \in Nat /\ ShutdownGuard > 0 /\ MaxElapsed \in Nat
        /\ Deadline = ShutdownSigint + ShutdownSigterm + ShutdownGuard
    BY TimeoutAssumption, MaxElapsedType DEF Deadline
  <1>1. Progress(n, w, TRUE)
    BY PollProgress
  <1>2. /\ n \in Process(MaxElapsed)
        /\ p.held /\ ~n.held => ~GroupAlive(n)
        /\ ~p.held => n = p
    BY <1>0, PollFacts
  <1>3. State(n) # "stopping" \/ w >= Deadline
    OBVIOUS
  <1> SUFFICES Finished(n)
    OBVIOUS
  <1> HIDE DEF n
  <1>4. CASE ~n.held
    <2>1. ~GroupAlive(n)
      BY <1>2, <1>4
    <2> QED
      BY <2>1 DEF Finished, Alive, GroupAlive
  <1>5. CASE n.held
    <2>1. n.elapsed # Unset
      BY <1>1, <1>5 DEF Progress
    <2>2. State(n) = "stopping"
      BY <1>5, <2>1 DEF State
    <2>3. w > ShutdownSigint + ShutdownSigterm
      BY <1>0, <1>3, <2>2
    <2>4. Past(w, TRUE, ShutdownSigint + ShutdownSigterm)
      BY <2>3 DEF Past
    <2> QED
      BY <1>1, <1>5, <2>4 DEF Progress, Finished
  <1> QED
    BY <1>4, <1>5
LEMMA ShutdownStep ==
  ASSUME IInv, ShutdownInv, [Next]_vars
  PROVE  ShutdownInv'
  <1>0. /\ StackInv /\ TypeOK /\ proc \in [Stack -> Process(MaxElapsed)]
        /\ MaxElapsed \in Nat /\ waited \in Nat
        /\ \A s \in Stack : /\ proc[s] \in Process(MaxElapsed)
                            /\ ~proc[s].held => ~GroupAlive(proc[s])
                            /\ Signalled(proc[s])
    <2>1. StackInv /\ TypeOK
      BY DEF IInv
    <2>2. \A s \in Stack : Signalled(proc[s])
      BY DEF ShutdownInv
    <2> QED
      BY <2>1, <2>2, StackInvTypes, MaxElapsedType DEF StackInv, StackOK, TypeOK
  <1>1. ASSUME StartNav2 \/ Supervise \/ \E c \in Challenge : Report(c)
        PROVE  ShutdownInv'
    <2>1. phase' = "up"
      BY <1>1 DEF StartNav2, Supervise, Report, OnParamsFixed, OnChallengePassed,
                  shutdownVars
    <2>2. \A s \in Stack : Signalled(proc'[s])
      BY <1>0, <1>1, UpSignals
    <2> QED
      BY <2>1, <2>2 DEF ShutdownInv, Stack
  <1>2. CASE BeginShutdown
    <2>1. /\ phase' = "slam" /\ waited' = 0
          /\ proc' = [proc EXCEPT !["slam"] = RequestStop(@)]
      BY <1>2 DEF BeginShutdown, StopStack
    <2>2. \A s \in Stack : Signalled(RequestStop(proc[s]))
      BY <1>0, RequestSignals
    <2>3. \A s \in Stack : Signalled(proc'[s])
      BY <1>0, <2>1, <2>2
    <2>4. Progress(proc'["slam"], 0, polled')
      <3>1. "slam" \in Stack
        BY DEF Stack
      <3>2. proc'["slam"] = RequestStop(proc["slam"])
        BY <1>0, <2>1, <3>1
      <3> QED
        BY <1>0, <3>1, <3>2, StopProgress
    <2> QED
      BY <2>1, <2>3, <2>4 DEF ShutdownInv
  <1>3. CASE ShutdownPoll
    <2> DEFINE next == Poll(proc[phase], ShutdownSigint, ShutdownSigterm)
    <2>0. /\ phase \in Stack /\ ShutdownSigint \in Nat /\ ShutdownSigterm \in Nat
          /\ Progress(proc[phase], waited, polled)
      BY <1>3, TimeoutAssumption DEF ShutdownPoll, ShutdownInv
    <2>1. Signalled(next)
      BY <1>0, <2>0, PollSignals
    <2>2. \A s \in Stack : Signalled(RequestStop(proc[s]))
      BY <1>0, RequestSignals
    <2>3. CASE State(next) = "stopping" /\ waited < Deadline
      <3>1. /\ proc' = [proc EXCEPT ![phase] = next] /\ polled' = TRUE
            /\ phase' = phase /\ waited' = waited
        BY <1>3, <2>3 DEF ShutdownPoll
      <3>2. Progress(next, waited, TRUE)
        BY <1>0, <2>0, PollProgress
      <3> HIDE DEF next
      <3>3. \A s \in Stack : Signalled(proc'[s])
        BY <1>0, <2>1, <3>1
      <3>4. Progress(proc'[phase'], waited', polled')
        BY <1>0, <2>0, <3>1, <3>2
      <3>5. phase # "slam" => proc'["slam"] = proc["slam"]
        BY <1>0, <3>1
      <3> QED
        BY <2>0, <3>1, <3>3, <3>4, <3>5 DEF ShutdownInv, Stack
    <2>4. CASE ~(State(next) = "stopping" /\ waited < Deadline)
      <3>1. Finished(next)
        <4>1. State(next) # "stopping" \/ waited >= Deadline
          BY <1>0, <2>4, MaxElapsedType
        <4> QED
          BY <1>0, <2>0, <4>1, PollFinished
      <3>2. CASE phase = "slam"
        <4>1. /\ proc' = [proc EXCEPT !["slam"] = next, !["nav2"] = RequestStop(@)]
              /\ phase' = "nav2" /\ waited' = 0
          BY <1>3, <2>4, <3>2 DEF ShutdownPoll
        <4> HIDE DEF next
        <4>2. /\ proc'["slam"] = next
              /\ proc'["nav2"] = RequestStop(proc["nav2"])
              /\ "nav2" \in Stack
          BY <1>0, <4>1 DEF Stack
        <4>3. Progress(proc'["nav2"], 0, polled')
          BY <1>0, <4>2, StopProgress
        <4>4. \A s \in Stack : Signalled(proc'[s])
          BY <2>1, <2>2, <4>2 DEF Stack
        <4> QED
          BY <3>1, <4>1, <4>2, <4>3, <4>4 DEF ShutdownInv
      <3>3. CASE phase = "nav2"
        <4>1. proc' = [proc EXCEPT !["nav2"] = next] /\ phase' = "over"
          BY <1>3, <2>4, <3>3 DEF ShutdownPoll
        <4> HIDE DEF next
        <4>2. proc'["slam"] = proc["slam"] /\ proc'["nav2"] = next
          BY <1>0, <4>1 DEF Stack
        <4>3. \A s \in Stack : Signalled(proc'[s])
          BY <1>0, <2>1, <4>2 DEF Stack
        <4> QED
          BY <3>1, <3>3, <4>1, <4>2, <4>3 DEF ShutdownInv, Stack
      <3> QED
        BY <2>0, <3>2, <3>3 DEF Stack
    <2> QED
      BY <2>3, <2>4
  <1>4. CASE Tick
    <2>0. phase' = phase /\ polled' = FALSE
      BY <1>4 DEF Tick
    <2>1. ASSUME NEW s \in Stack
          PROVE  /\ proc'[s].held <=> proc[s].held
                 /\ proc'[s].elapsed = IF proc[s].elapsed \in 0..(MaxElapsed - 1)
                                       THEN proc[s].elapsed + 1 ELSE proc[s].elapsed
                 /\ proc'[s].sent = proc[s].sent
                 /\ Alive(proc'[s]) <=> Alive(proc[s])
      BY <1>0, <1>4 DEF Tick, Process, Alive
    <2>2. ASSUME NEW s \in Stack PROVE proc'[s].elapsed # Unset <=> proc[s].elapsed # Unset
      BY <1>0, <2>1 DEF Process, Unset
    <2>3. \A s \in Stack : Signalled(proc'[s])
      BY <1>0, <2>1, <2>2 DEF Signalled
    <2>4. \A s \in Stack : Finished(proc[s]) => Finished(proc'[s])
      BY <2>1 DEF Finished
    <2>5. ASSUME phase \in Stack PROVE Progress(proc'[phase], waited', FALSE)
      <3>1. /\ polled /\ Progress(proc[phase], waited, polled)
            /\ waited' = IF waited < Deadline THEN waited + 1 ELSE waited
        BY <1>4, <2>5 DEF Tick, ShutdownInv, Stack
      <3> SUFFICES ASSUME proc'[phase].held PROVE Progress(proc'[phase], waited', FALSE)
        BY DEF Progress
      <3>2. /\ proc[phase].held /\ proc[phase].elapsed # Unset
            /\ proc[phase].elapsed \in 0..MaxElapsed
            /\ proc[phase].elapsed >= waited \/ proc[phase].elapsed >= MaxElapsed
        <4>1. proc[phase].held
          BY <2>1, <2>5
        <4>2. /\ proc[phase].elapsed # Unset
              /\ proc[phase].elapsed >= waited \/ proc[phase].elapsed >= MaxElapsed
          BY <3>1, <4>1 DEF Progress
        <4>3. proc[phase].elapsed \in 0..MaxElapsed
          BY <1>0, <2>5, <4>2 DEF Process, Unset
        <4> QED
          BY <4>1, <4>2, <4>3
      <3>3. /\ waited' \in Nat /\ (waited' = waited + 1 \/ waited' = waited)
            /\ waited' = waited => waited >= Deadline
        BY <1>0, <3>1, MaxElapsedType
      <3>4. /\ proc'[phase].elapsed # Unset
            /\ proc'[phase].elapsed >= waited' \/ proc'[phase].elapsed >= MaxElapsed
        <4>1. proc'[phase].elapsed # Unset
          BY <2>2, <2>5, <3>2
        <4>2. proc'[phase].elapsed = IF proc[phase].elapsed \in 0..(MaxElapsed - 1)
                                     THEN proc[phase].elapsed + 1
                                     ELSE proc[phase].elapsed
          BY <2>1, <2>5
        <4>3. proc'[phase].elapsed >= waited' \/ proc'[phase].elapsed >= MaxElapsed
          BY <1>0, <3>2, <3>3, <4>2
        <4> QED
          BY <4>1, <4>3
      <3>5. /\ ShutdownSigint \in Nat /\ ShutdownSigterm \in Nat
            /\ Deadline > ShutdownSigint /\ Deadline > ShutdownSigint + ShutdownSigterm
            /\ Deadline \in Nat
        BY TimeoutAssumption DEF Deadline
      <3>6. /\ Past(waited', FALSE, ShutdownSigint)
                 => Past(waited, TRUE, ShutdownSigint)
            /\ Past(waited', FALSE, ShutdownSigint + ShutdownSigterm)
                 => Past(waited, TRUE, ShutdownSigint + ShutdownSigterm)
        BY <1>0, <3>3, <3>5 DEF Past
      <3>7. proc'[phase].sent = proc[phase].sent /\ polled = TRUE
        BY <1>0, <2>1, <2>5, <3>1 DEF TypeOK
      <3> QED
        BY <3>1, <3>2, <3>4, <3>6, <3>7 DEF Progress
    <2> QED
      BY <2>0, <2>3, <2>4, <2>5 DEF ShutdownInv, Stack
  <1>5. ASSUME NEW s \in Stack, Group(s) PROVE ShutdownInv'
    <2>1. UNCHANGED shutdownVars
      BY <1>5 DEF Group, LeaderEnds, NodesEnd, Spawn
    <2>2. \A t \in Stack : t # s => proc'[t] = proc[t]
      BY <1>0, <1>5 DEF Group, LeaderEnds, NodesEnd, Spawn
    <2>3. \/ proc[s].leader = "alive" /\ proc'[s] = [proc[s] EXCEPT !.leader = "zombie"]
          \/ proc[s].node /\ proc'[s] = [proc[s] EXCEPT !.node = FALSE]
          \/ /\ proc[s].leader = "alive" /\ proc[s].sent # "SIGKILL"
             /\ proc'[s] = [proc[s] EXCEPT !.node = TRUE]
      BY <1>0, <1>5 DEF Group, LeaderEnds, NodesEnd, Spawn
    <2>4. /\ proc'[s].held <=> proc[s].held
          /\ proc'[s].elapsed = proc[s].elapsed /\ proc'[s].sent = proc[s].sent
      BY <1>0, <2>3 DEF Process
    <2>5. Finished(proc[s]) => Finished(proc'[s])
      BY <1>0, <2>3, <2>4 DEF Process, Finished, Alive
    <2>6. \A t \in Stack : Signalled(proc'[t])
      BY <1>0, <2>2, <2>4 DEF Signalled
    <2>7. \A t \in Stack : Finished(proc[t]) => Finished(proc'[t])
      BY <2>2, <2>5
    <2>8. phase \in Stack => Progress(proc'[phase], waited, polled)
      <3>1. CASE phase = s
        BY <2>4, <3>1 DEF ShutdownInv, Progress
      <3>2. CASE phase # s
        BY <2>2, <3>2 DEF ShutdownInv
      <3> QED
        BY <3>1, <3>2
    <2> QED
      BY <2>1, <2>6, <2>7, <2>8 DEF shutdownVars, ShutdownInv, Stack
  <1>6. CASE UNCHANGED vars
    BY <1>6 DEF vars, ShutdownInv
  <1> QED
    BY <1>1, <1>2, <1>3, <1>4, <1>5, <1>6 DEF Next

LEMMA ShutdownInit == Init => ShutdownInv
  <1> SUFFICES ASSUME Init PROVE ShutdownInv
    OBVIOUS
  <1>1. PICK ok \in BOOLEAN :
          proc = [s \in Stack |-> IF s = "slam" THEN StartProcess(NewProcess, ok)
                                                ELSE NewProcess]
    BY DEF Init
  <1>2. NewProcess \in Process(MaxElapsed) /\ ~NewProcess.held /\ MaxElapsed \in Nat
    BY MaxElapsedType, NewProcessType
  <1>3. Signalled(NewProcess) /\ Signalled(StartProcess(NewProcess, ok))
    BY <1>1, <1>2, StartSignals DEF Signalled
  <1>4. phase = "up"
    BY DEF Init
  <1> QED
    BY <1>1, <1>3, <1>4 DEF ShutdownInv, Stack

\* What is left of a stack after the shutdown was sent SIGKILL, for any
\* timeouts that leave SIGTERM and the final wait some time.
THEOREM NothingOutlivesShutdownHolds == Safety => []NothingOutlivesShutdown
  <1>1. ShutdownInv => NothingOutlivesShutdown
    BY DEF ShutdownInv, NothingOutlivesShutdown, Finished, Stack
  <1>2. IInv /\ ShutdownInv /\ [Next]_vars => ShutdownInv'
    BY ShutdownStep
  <1> QED
    BY InvHolds, ShutdownInit, <1>1, <1>2, PTL DEF Safety
-----------------------------------------------------------------------------
(* A stop ends, and with it the restart that waits for it: the part of     *)
(* RestartCompletes that is about states and steps.  What is left for the  *)
(* runs is that time passes, timers fire and SIGKILL takes effect.         *)

\* A stop is under way.
Escalating(p) == p.held /\ p.elapsed # Unset

Count(b) == IF b THEN 1 ELSE 0

\* How far a stop is from its end, at most: in ticks and signals until SIGKILL
\* is sent, and then in processes.
StopLeft(p) ==
  IF p.sent = "SIGKILL"
  THEN Count(p.leader = "alive") + Count(p.node)
  ELSE (MaxElapsed - p.elapsed) + 3 + Count(p.sent = "SIGINT")

\* The steps a stop waits for: time until both timeouts are over, then a poll,
\* then the end of a process that was sent SIGKILL.
StopAdvances(s) ==
  \/ Tick /\ proc[s].elapsed < MaxElapsed /\ proc[s].sent # "SIGKILL"
  \/ Supervise /\ proc[s].elapsed = MaxElapsed /\ proc[s].sent # "SIGKILL"
  \/ (LeaderEnds(s) \/ NodesEnd(s)) /\ proc[s].sent = "SIGKILL"

\* It is still under way, and no further from its end.
StopGoesOn(s) ==
  Escalating(proc'[s]) /\ StopLeft(proc'[s]) <= StopLeft(proc[s])

\* It is over: nothing of the stack was left, and no restart waits any more.
StopEnds(s) ==
  ~Escalating(proc'[s]) /\ ~Alive(proc[s]) /\ pending'[s] = None

LEMMA StopLeftRange ==
  ASSUME NEW p \in Process(MaxElapsed), Escalating(p)
  PROVE  StopLeft(p) \in 0..(MaxElapsed + 4)
  <1>1. MaxElapsed \in Nat /\ p.elapsed \in 0..MaxElapsed
    BY MaxElapsedType DEF Process, Escalating, Unset
  <1> QED
    BY <1>1 DEF StopLeft, Count

\* A poll of a stop under way.
LEMMA PollLowers ==
  ASSUME NEW p \in Process(MaxElapsed), Escalating(p), Signalled(p),
         NEW a \in Nat, NEW b \in Nat, a + b <= MaxElapsed
  PROVE  LET n == Poll(p, a, b) IN
         /\ Alive(p) => /\ Escalating(n) /\ StopLeft(n) <= StopLeft(p)
                        /\ p.elapsed = MaxElapsed /\ p.sent # "SIGKILL"
                             => StopLeft(n) < StopLeft(p)
         /\ ~Alive(p) => ~n.held
  <1> DEFINE q == Reap(p)
             e == Escalate(q, a, b)
  <1>0. /\ MaxElapsed \in Nat /\ p.elapsed \in 0..MaxElapsed /\ p.held
        /\ p.sent \in {"SIGINT", "SIGTERM", "SIGKILL"}
    BY MaxElapsedType DEF Process, Escalating, Signalled, Signal, Unset
  <1>1. /\ q \in Process(MaxElapsed) /\ q.held
        /\ q.elapsed = p.elapsed /\ q.sent = p.sent
        /\ q.node <=> p.node
        /\ q.leader \in {"none", "alive"}
        /\ q.leader = "alive" <=> p.leader = "alive"
    BY <1>0, ReapFacts
  <1>2. Poll(p, a, b) = IF GroupAlive(q) THEN Escalate(RequestStop(q), a, b)
                                         ELSE Forget(q)
    BY <1>0 DEF Poll, Escalating
  <1> HIDE DEF q
  <1>3. GroupAlive(q) <=> Alive(p)
    BY <1>1 DEF GroupAlive, Alive
  <1>4. RequestStop(q) = q
    BY <1>1 DEF RequestStop, Escalating
  <1>5. CASE ~Alive(p)
    <2>1. ~Forget(q).held
      BY <1>0, <1>1, ForgetFacts
    <2> QED
      BY <1>2, <1>3, <1>5, <2>1
  <1>6. CASE Alive(p)
    <2>1. Poll(p, a, b) = e
      BY <1>2, <1>3, <1>4, <1>6
    <2>2. /\ e.held /\ e.elapsed = p.elapsed
          /\ e.leader = "alive" <=> p.leader = "alive"
          /\ e.node <=> p.node
      <3>1. /\ e.held <=> q.held
            /\ e.elapsed = q.elapsed /\ e.leader = q.leader
            /\ e.node <=> q.node
        <4>1. \A x \in Process(MaxElapsed) :
                /\ Escalate(x, a, b) \in Process(MaxElapsed)
                /\ Escalate(x, a, b).held <=> x.held
                /\ Escalate(x, a, b).leader = x.leader
                /\ Escalate(x, a, b).node <=> x.node
                /\ Escalate(x, a, b).elapsed = x.elapsed
          BY MaxElapsedType, EscalateFacts
        <4> QED
          BY <1>1, <4>1
      <3> HIDE DEF e
      <3> QED
        BY <1>0, <1>1, <3>1
    <2>3. /\ \/ e.sent = p.sent
             \/ p.sent = "SIGINT" /\ e.sent = "SIGTERM"
             \/ p.sent = "SIGTERM" /\ e.sent = "SIGKILL"
          /\ p.elapsed = MaxElapsed /\ p.sent # "SIGKILL" => e.sent # p.sent
      BY <1>0, <1>1 DEF Escalate, Process, Signal
    <2> HIDE DEF e
    <2>4. /\ Count(e.leader = "alive") = Count(p.leader = "alive")
          /\ Count(e.node) = Count(p.node)
          /\ Count(p.leader = "alive") + Count(p.node) \in 0..2
      BY <2>2 DEF Count
    <2>5. Escalating(e)
      BY <2>2 DEF Escalating
    <2>6. CASE e.sent = p.sent
      <3>1. StopLeft(e) = StopLeft(p) /\ StopLeft(p) \in Int
        BY <1>0, <2>2, <2>4, <2>6 DEF StopLeft, Count
      <3> QED
        BY <1>6, <2>1, <2>3, <2>5, <2>6, <3>1
    <2>7. CASE p.sent = "SIGINT" /\ e.sent = "SIGTERM"
      <3>1. StopLeft(p) = MaxElapsed - p.elapsed + 4
            /\ StopLeft(e) = MaxElapsed - p.elapsed + 3
        BY <1>0, <2>2, <2>7 DEF StopLeft, Count
      <3> QED
        BY <1>0, <1>6, <2>1, <2>5, <3>1
    <2>8. CASE p.sent = "SIGTERM" /\ e.sent = "SIGKILL"
      <3>1. StopLeft(p) = MaxElapsed - p.elapsed + 3
            /\ StopLeft(e) \in 0..2
        BY <1>0, <2>2, <2>4, <2>8 DEF StopLeft, Count
      <3> QED
        BY <1>0, <1>6, <2>1, <2>5, <3>1
    <2> QED
      BY <2>3, <2>6, <2>7, <2>8
  <1> QED
    BY <1>5, <1>6
LEMMA StartStackKeeps ==
  ASSUME StackInv, NEW t \in Stack, NEW file \in Params, NEW ok \in BOOLEAN,
         StartStack(t, file, ok), NEW s \in Stack, Escalating(proc[s])
  PROVE  proc'[s] = proc[s]
  <1>1. proc \in [Stack -> Process(MaxElapsed)]
    BY StackInvTypes
  <1>2. RequestStop(proc[s]) = proc[s]
    BY DEF RequestStop, Escalating
  <1>3. CASE t = s
    BY <1>1, <1>2, <1>3 DEF StartStack, Escalating
  <1>4. CASE t # s
    BY <1>1, <1>4 DEF StartStack
  <1> QED
    BY <1>3, <1>4

\* A step of the orchestrator other than a poll leaves a stop under way alone.
LEMMA StopKeeps ==
  ASSUME StackInv, NEW s \in Stack, Escalating(proc[s]),
         \/ \E c \in Challenge : Report(c)
         \/ StartNav2 \/ BeginShutdown \/ UNCHANGED vars
  PROVE  proc'[s] = proc[s]
  <1>0. proc \in [Stack -> Process(MaxElapsed)]
    BY StackInvTypes
  <1>1. ASSUME UNCHANGED stackVars PROVE proc'[s] = proc[s]
    BY <1>1 DEF stackVars
  <1>2. ASSUME NEW c \in Challenge, Report(c) PROVE proc'[s] = proc[s]
    <2>1. ASSUME RestartFor(c) PROVE proc'[s] = proc[s]
      <3>1. RestartStack[c] # None => RestartStack[c] \in Stack
        BY MissionAssumption
      <3>2. "reference" \in Params
        BY DEF Params
      <3> QED
        BY <1>1, <2>1, <3>1, <3>2, StartStackKeeps DEF RestartFor
    <2> QED
      BY <1>1, <1>2, <2>1 DEF Report, OnParamsFixed, OnChallengePassed
  <1>3. CASE StartNav2
    <2>1. "nav2" \in Stack /\ "initial" \in Params
      BY DEF Stack, Params
    <2> QED
      BY <1>1, <1>3, <2>1, StartStackKeeps DEF StartNav2
  <1>4. CASE BeginShutdown
    <2>1. RequestStop(proc[s]) = proc[s]
      BY DEF RequestStop, Escalating
    <2> QED
      BY <1>0, <1>4, <2>1 DEF BeginShutdown, StopStack
  <1>5. CASE UNCHANGED vars
    BY <1>1, <1>5 DEF vars, stackVars
  <1> QED
    BY <1>2, <1>3, <1>4, <1>5

LEMMA TickLowers ==
  ASSUME StackInv, ShutdownInv, Tick, NEW s \in Stack, Escalating(proc[s])
  PROVE  /\ StopGoesOn(s)
         /\ proc[s].elapsed < MaxElapsed /\ proc[s].sent # "SIGKILL"
              => StopLeft(proc'[s]) < StopLeft(proc[s])
  <1> DEFINE p == proc[s]
  <1>1. /\ p \in Process(MaxElapsed) /\ MaxElapsed \in Nat
        /\ p.elapsed \in 0..MaxElapsed /\ p.held
    BY StackInvTypes, MaxElapsedType DEF Escalating, Process, Unset
  <1>2. proc'[s] = IF p.elapsed \in 0..(MaxElapsed - 1)
                   THEN [p EXCEPT !.elapsed = p.elapsed + 1] ELSE p
    BY DEF Tick
  <1>3. StopLeft(p) \in Int
    BY <1>1, StopLeftRange
  <1> HIDE DEF p
  <1>4. CASE p.elapsed = MaxElapsed
    <2>1. proc'[s] = p
      BY <1>1, <1>2, <1>4
    <2> QED
      BY <1>1, <1>3, <1>4, <2>1 DEF StopGoesOn, p
  <1>5. CASE p.elapsed # MaxElapsed
    <2>1. proc'[s] = [p EXCEPT !.elapsed = p.elapsed + 1]
      BY <1>1, <1>2, <1>5
    <2>2. /\ proc'[s].held /\ proc'[s].elapsed = p.elapsed + 1
          /\ proc'[s].sent = p.sent /\ proc'[s].leader = p.leader
          /\ proc'[s].node = p.node
      BY <1>1, <2>1 DEF Process
    <2>3. Escalating(proc'[s])
      BY <1>1, <2>2 DEF Escalating, Unset
    <2>4. CASE p.sent = "SIGKILL"
      <3>1. StopLeft(proc'[s]) = StopLeft(p)
        BY <2>2, <2>4 DEF StopLeft
      <3> QED
        BY <1>3, <2>3, <2>4, <3>1 DEF StopGoesOn, p
    <2>5. CASE p.sent # "SIGKILL"
      <3>1. Count(p.sent = "SIGINT") \in 0..1
        BY DEF Count
      <3>2. StopLeft(proc'[s]) = StopLeft(p) - 1
        BY <1>1, <2>2, <2>5, <3>1 DEF StopLeft
      <3> QED
        BY <1>3, <2>3, <3>2 DEF StopGoesOn, p
    <2> QED
      BY <2>4, <2>5
  <1> QED
    BY <1>4, <1>5

LEMMA MemberLowers ==
  ASSUME StackInv, ShutdownInv, NEW t \in Stack, Group(t),
         NEW s \in Stack, Escalating(proc[s])
  PROVE  /\ StopGoesOn(s)
         /\ t = s /\ ~Spawn(s) /\ proc[s].sent = "SIGKILL"
              => StopLeft(proc'[s]) < StopLeft(proc[s])
  <1> DEFINE p == proc[s]
  <1>1. /\ p \in Process(MaxElapsed) /\ MaxElapsed \in Nat
        /\ p.elapsed \in 0..MaxElapsed /\ p.held
        /\ proc \in [Stack -> Process(MaxElapsed)]
    BY StackInvTypes, MaxElapsedType DEF Escalating, Process, Unset
  <1>2. StopLeft(p) \in Int
    BY <1>1, StopLeftRange
  <1>3. CASE t # s
    <2>1. proc'[s] = p
      BY <1>1, <1>3 DEF Group, LeaderEnds, NodesEnd, Spawn
    <2> QED
      BY <1>2, <1>3, <2>1 DEF StopGoesOn
  <1>4. CASE t = s
    <2>1. /\ \/ p.leader = "alive" /\ proc'[s] = [p EXCEPT !.leader = "zombie"]
             \/ p.node /\ proc'[s] = [p EXCEPT !.node = FALSE]
             \/ /\ p.leader = "alive" /\ ~p.node /\ p.sent # "SIGKILL"
                /\ proc'[s] = [p EXCEPT !.node = TRUE]
      BY <1>1, <1>4 DEF Group, LeaderEnds, NodesEnd, Spawn
    <2> HIDE DEF p
    <2>2. /\ proc'[s].held /\ proc'[s].elapsed = p.elapsed
          /\ proc'[s].sent = p.sent
      BY <1>1, <2>1 DEF Process
    <2>3. Escalating(proc'[s])
      BY <1>1, <2>2 DEF Escalating, Unset
    <2>4. CASE p.sent # "SIGKILL"
      <3>1. StopLeft(proc'[s]) = StopLeft(p)
        BY <2>2, <2>4 DEF StopLeft
      <3> QED
        BY <1>2, <2>3, <2>4, <3>1 DEF StopGoesOn, p
    <2>5. CASE p.sent = "SIGKILL"
      <3>1. \/ /\ p.leader = "alive" /\ proc'[s].leader = "zombie"
               /\ proc'[s].node = p.node
            \/ p.node /\ ~proc'[s].node /\ proc'[s].leader = p.leader
        BY <1>1, <2>1, <2>5 DEF Process
      <3>2. StopLeft(proc'[s]) = StopLeft(p) - 1
        BY <2>2, <2>5, <3>1 DEF StopLeft, Count
      <3> QED
        BY <1>2, <2>3, <3>2 DEF StopGoesOn, p
    <2> QED
      BY <2>4, <2>5
  <1> QED
    BY <1>3, <1>4
\* A poll goes on with the stop, or finds nothing left and ends it.
LEMMA PollAdvances ==
  ASSUME IInv, ShutdownInv, [Next]_vars, NEW s \in Stack, Escalating(proc[s]),
         Supervise \/ ShutdownPoll
  PROVE  /\ StopGoesOn(s) \/ StopEnds(s)
         /\ Supervise /\ proc[s].elapsed = MaxElapsed /\ proc[s].sent # "SIGKILL"
            /\ Escalating(proc'[s]) => StopLeft(proc'[s]) < StopLeft(proc[s])
         /\ Supervise /\ ~Alive(proc[s]) => StopEnds(s)
  <1> DEFINE p == proc[s]
             n(a, b) == Poll(p, a, b)
  <1>0. StackInv
    BY DEF IInv
  <1>1. /\ p \in Process(MaxElapsed) /\ p.held /\ StackOK(s)
        /\ proc \in [Stack -> Process(MaxElapsed)]
        /\ Signalled(p) /\ MaxElapsed \in Nat
    BY <1>0, StackInvTypes, MaxElapsedType
    DEF Escalating, ShutdownInv, StackInv
  <1>2. StopLeft(p) \in Int
    BY <1>1, StopLeftRange
  <1>3. ASSUME NEW a \in Nat, NEW b \in Nat, a + b <= MaxElapsed
        PROVE  /\ Alive(p) => /\ Escalating(n(a, b))
                              /\ StopLeft(n(a, b)) <= StopLeft(p)
                              /\ p.elapsed = MaxElapsed /\ p.sent # "SIGKILL"
                                   => StopLeft(n(a, b)) < StopLeft(p)
               /\ ~Alive(p) => ~n(a, b).held
               /\ n(a, b) \in Process(MaxElapsed)
    <2>1. n(a, b) \in Process(MaxElapsed)
      BY <1>1, PollFacts
    <2> QED
      BY <1>1, <1>3, <2>1, PollLowers
  <1>4. /\ SigintTimeout \in Nat /\ SigtermTimeout \in Nat
        /\ ShutdownSigint \in Nat /\ ShutdownSigterm \in Nat
        /\ SigintTimeout + SigtermTimeout <= MaxElapsed
        /\ ShutdownSigint + ShutdownSigterm <= MaxElapsed
    BY TimeoutAssumption DEF MaxElapsed
  <1> DEFINE m == n(SigintTimeout, SigtermTimeout)
             d == n(ShutdownSigint, ShutdownSigterm)
  <1>5. /\ Alive(p) => /\ Escalating(m) /\ StopLeft(m) <= StopLeft(p)
                       /\ p.elapsed = MaxElapsed /\ p.sent # "SIGKILL"
                            => StopLeft(m) < StopLeft(p)
        /\ ~Alive(p) => ~m.held
        /\ m \in Process(MaxElapsed)
    BY <1>3, <1>4
  <1>6. /\ Alive(p) => Escalating(d) /\ StopLeft(d) <= StopLeft(p)
        /\ ~Alive(p) => ~d.held
    BY <1>3, <1>4
  <1> HIDE DEF n
  <1>7. CASE Supervise
    <2>1. PICK ok \in [Stack -> BOOLEAN] :
            /\ proc'[s] = IF (p.held /\ ~m.held) /\ pending[s] # None
                          THEN StartProcess(m, ok[s]) ELSE m
            /\ pending'[s] = IF p.held /\ ~m.held THEN None ELSE pending[s]
      BY <1>7 DEF Supervise, n
    <2>2. CASE Alive(p)
      <3>1. proc'[s] = m
        BY <1>5, <2>1, <2>2 DEF Escalating
      <3> HIDE DEF m
      <3> QED
        BY <1>5, <2>2, <3>1 DEF StopGoesOn
    <2>3. CASE ~Alive(p)
      <3>1. pending'[s] = None /\ ~m.held
        BY <1>1, <1>5, <2>1, <2>3
      <3>2. proc'[s] = m \/ proc'[s] = StartProcess(m, ok[s])
        BY <2>1
      <3>3. ok[s] \in BOOLEAN
        BY <2>1
      <3> HIDE DEF m
      <3>4. ~Escalating(StartProcess(m, ok[s]))
        BY <1>1, <1>5, <3>1, <3>3, StartFacts DEF Escalating
      <3>5. ~Escalating(proc'[s])
        BY <3>1, <3>2, <3>4 DEF Escalating
      <3> QED
        BY <2>3, <3>1, <3>5 DEF StopEnds
    <2> QED
      BY <2>2, <2>3
  <1>8. CASE ShutdownPoll
    <2>0. ~Supervise
      BY <1>8 DEF ShutdownPoll, Supervise, Stack
    <2>1. \/ s # phase /\ proc'[s] = p
          \/ s # phase /\ proc'[s] = RequestStop(p)
          \/ /\ s = phase /\ proc'[s] = d
             /\ pending'[s] = pending[s] \/ pending'[s] = None
      <3>1. /\ phase \in Stack
            /\ proc'[phase] = Poll(proc[phase], ShutdownSigint, ShutdownSigterm)
            /\ \/ /\ \A t \in Stack : t # phase => proc'[t] = proc[t]
                  /\ pending' = pending
               \/ /\ phase = "slam" /\ proc'["nav2"] = RequestStop(proc["nav2"])
                  /\ pending' = [pending EXCEPT !["nav2"] = None]
        BY <1>1, <1>8 DEF ShutdownPoll, Stack
      <3>2. s # phase => s = "nav2" \/ phase # "slam"
        BY DEF Stack
      <3>3. pending'[s] \in {pending[s], None}
        BY <1>0, <3>1, StackInvTypes DEF Stack
      <3> QED
        BY <3>1, <3>2, <3>3 DEF n
    <2>2. CASE s # phase
      <3>1. RequestStop(p) = p
        BY DEF RequestStop, Escalating
      <3>2. proc'[s] = p
        BY <2>1, <2>2, <3>1
      <3> QED
        BY <1>2, <2>0, <3>2 DEF StopGoesOn
    <2>3. CASE s = phase
      <3>1. proc'[s] = d /\ pending'[s] = None
        BY <1>1, <2>1, <2>3 DEF StackOK
      <3> HIDE DEF d
      <3> QED
        BY <1>6, <2>0, <3>1 DEF StopGoesOn, StopEnds, Escalating
    <2> QED
      BY <2>2, <2>3
  <1> QED
    BY <1>7, <1>8
-----------------------------------------------------------------------------
\* A restart never waits for nothing: whenever one is pending, the stack is
\* marked as stopping and its processes are being stopped; and what is marked
\* while the node is up is being stopped, so that a second request, which
\* sends no signal, can rely on the first.
PendingWaitsForStop ==
  /\ \A s \in Stack : pending[s] # None => stopping[s] /\ Escalating(proc[s])
  /\ phase = "up" => \A s \in Stack : stopping[s] => Escalating(proc[s])

LEMMA StartStackWaits ==
  ASSUME StackInv, PendingWaitsForStop, phase = "up", phase' = phase,
         NEW t \in Stack, NEW file \in Params, NEW ok \in BOOLEAN,
         StartStack(t, file, ok)
  PROVE  PendingWaitsForStop'
  <1> SUFFICES ASSUME NEW s \in Stack
               PROVE  /\ pending'[s] # None => stopping'[s] /\ Escalating(proc'[s])
                      /\ stopping'[s] => Escalating(proc'[s])
    BY DEF PendingWaitsForStop
  <1>0. /\ proc \in [Stack -> Process(MaxElapsed)] /\ StackOK(s)
        /\ pending \in [Stack -> Params \union {None}]
        /\ stopping \in [Stack -> BOOLEAN] /\ MaxElapsed \in Nat
    BY StackInvTypes, MaxElapsedType DEF StackInv
  <1>1. CASE t # s
    <2>1. /\ proc'[s] = proc[s] /\ pending'[s] = pending[s]
          /\ stopping'[s] = stopping[s]
      BY <1>0, <1>1 DEF StartStack
    <2> QED
      BY <2>1 DEF PendingWaitsForStop
  <1>2. CASE t = s /\ proc[s].held
    <2>1. stopping'[s] /\ (proc'[s] = IF stopping[s] THEN proc[s]
                                      ELSE RequestStop(proc[s]))
      BY <1>0, <1>2 DEF StartStack
    <2>2. stopping[s] => Escalating(proc[s])
      BY DEF PendingWaitsForStop
    <2>3. Escalating(RequestStop(proc[s]))
      BY <1>0, <1>2, RequestStopFacts DEF Escalating
    <2> QED
      BY <2>1, <2>2, <2>3
  <1>3. CASE t = s /\ ~proc[s].held
    <2>1. pending'[s] = pending[s] /\ stopping'[s] = stopping[s]
      BY <1>3 DEF StartStack
    <2>2. pending[s] = None /\ ~stopping[s]
      BY <1>0, <1>3 DEF PendingWaitsForStop, Escalating, StackOK
    <2> QED
      BY <2>1, <2>2
  <1> QED
    BY <1>1, <1>2, <1>3

LEMMA SuperviseWaits ==
  ASSUME StackInv, PendingWaitsForStop, Supervise
  PROVE  PendingWaitsForStop'
  <1> SUFFICES ASSUME NEW s \in Stack
               PROVE  /\ pending'[s] # None => stopping'[s] /\ Escalating(proc'[s])
                      /\ stopping'[s] => Escalating(proc'[s])
    BY DEF PendingWaitsForStop
  <1> DEFINE next == Poll(proc[s], SigintTimeout, SigtermTimeout)
             gone == proc[s].held /\ ~next.held
  <1>0. /\ proc[s] \in Process(MaxElapsed) /\ MaxElapsed \in Nat
        /\ SigintTimeout \in Nat /\ SigtermTimeout \in Nat
    BY StackInvTypes, MaxElapsedType, TimeoutAssumption
  <1>1. /\ ~gone => proc'[s] = next
        /\ stopping'[s] = (stopping[s] /\ ~gone)
        /\ pending'[s] = IF gone THEN None ELSE pending[s]
    BY DEF Supervise
  <1>2. next.held => next = proc[s] \/ next.elapsed # Unset
    BY <1>0, PollFacts
  <1> HIDE DEF next
  <1>3. CASE gone
    BY <1>1, <1>3
  <1>4. CASE ~gone
    <2>1. Escalating(proc[s]) => Escalating(proc'[s])
      BY <1>1, <1>2, <1>4 DEF Escalating
    <2>2. phase = "up"
      BY DEF Supervise
    <2> QED
      BY <1>1, <1>4, <2>1, <2>2 DEF PendingWaitsForStop
  <1> QED
    BY <1>3, <1>4

LEMMA WaitsStep ==
  ASSUME IInv, ShutdownInv, PendingWaitsForStop, [Next]_vars
  PROVE  PendingWaitsForStop'
  <1>0. /\ StackInv /\ proc \in [Stack -> Process(MaxElapsed)]
        /\ pending \in [Stack -> Params \union {None}]
    BY StackInvTypes DEF IInv
  <1>1. ASSUME UNCHANGED <<stackVars, phase>> PROVE PendingWaitsForStop'
    BY <1>1 DEF stackVars, PendingWaitsForStop
  <1>2. ASSUME NEW c \in Challenge, Report(c) PROVE PendingWaitsForStop'
    <2>1. phase = "up" /\ phase' = phase
      BY <1>2 DEF Report, OnParamsFixed, OnChallengePassed, shutdownVars
    <2>2. ASSUME RestartFor(c) PROVE PendingWaitsForStop'
      <3>1. RestartStack[c] # None => RestartStack[c] \in Stack
        BY MissionAssumption
      <3>2. "reference" \in Params
        BY DEF Params
      <3> QED
        BY <1>0, <1>1, <2>1, <2>2, <3>1, <3>2, StartStackWaits DEF RestartFor
    <2> QED
      BY <1>1, <1>2, <2>1, <2>2 DEF Report, OnParamsFixed, OnChallengePassed
  <1>3. CASE StartNav2
    <2>1. phase = "up" /\ phase' = phase
      BY <1>3 DEF StartNav2, shutdownVars
    <2>2. "nav2" \in Stack /\ "initial" \in Params
      BY DEF Stack, Params
    <2> QED
      BY <1>0, <1>1, <1>3, <2>1, <2>2, StartStackWaits DEF StartNav2
  <1>4. CASE Supervise
    BY <1>0, <1>4, SuperviseWaits
  <1>5. CASE BeginShutdown
    <2> SUFFICES ASSUME NEW s \in Stack, pending'[s] # None
                 PROVE  stopping'[s] /\ Escalating(proc'[s])
      BY <1>5 DEF PendingWaitsForStop, BeginShutdown, StopStack
    <2>1. s # "slam" /\ pending'[s] = pending[s] /\ proc'[s] = proc[s]
          /\ stopping'[s] = stopping[s]
      BY <1>0, <1>5 DEF BeginShutdown, StopStack
    <2> QED
      BY <2>1 DEF PendingWaitsForStop
  <1>6. CASE ShutdownPoll
    <2>0. phase' # "up"
      BY <1>6 DEF ShutdownPoll, Stack
    <2> SUFFICES ASSUME NEW s \in Stack, pending'[s] # None
                 PROVE  stopping'[s] /\ Escalating(proc'[s])
      BY <2>0 DEF PendingWaitsForStop
    <2>1. pending[s] # None /\ (phase' = "nav2" /\ phase = "slam" => s # "nav2")
      BY <1>0, <1>6 DEF ShutdownPoll, Stack
    <2>2. s # phase
      BY <1>0, <2>1 DEF StackInv, StackOK
    <2>3. proc'[s] = proc[s] /\ stopping'[s] = stopping[s]
      BY <1>0, <1>6, <2>1, <2>2 DEF ShutdownPoll, Stack
    <2> QED
      BY <2>1, <2>3 DEF PendingWaitsForStop
  <1>7. ASSUME Tick \/ \E t \in Stack : Group(t)
        PROVE  PendingWaitsForStop'
    <2>1. UNCHANGED <<pending, stopping, phase>>
      BY <1>7 DEF Tick, Group, LeaderEnds, NodesEnd, Spawn, shutdownVars
    <2>2. \A s \in Stack : Escalating(proc[s]) => Escalating(proc'[s])
      BY <1>0, <1>7, TickLowers, MemberLowers DEF StopGoesOn
    <2> QED
      BY <2>1, <2>2 DEF PendingWaitsForStop
  <1>8. CASE UNCHANGED vars
    BY <1>1, <1>8 DEF vars, stackVars
  <1> QED
    BY <1>2, <1>3, <1>4, <1>5, <1>6, <1>7, <1>8 DEF Next

LEMMA SafetyInv == Safety => [](IInv /\ ShutdownInv /\ PendingWaitsForStop)
  <1>1. Init => PendingWaitsForStop
    BY DEF Init, PendingWaitsForStop, None
  <1>2. IInv /\ ShutdownInv /\ [Next]_vars => ShutdownInv'
    BY ShutdownStep
  <1>3. IInv /\ ShutdownInv /\ PendingWaitsForStop /\ [Next]_vars
          => PendingWaitsForStop'
    BY WaitsStep
  <1> QED
    BY InvHolds, ShutdownInit, <1>1, <1>2, <1>3, PTL DEF Safety

\* A pending restart always has a stop under way that it waits for.
THEOREM PendingWaitsForStopHolds == Safety => []PendingWaitsForStop
  BY SafetyInv, PTL

\* Every stop that is under way, for a restart, a shutdown or a leader that
\* ended, is at most MaxElapsed + 4 advances from its end.  No step of anyone,
\* another request or the shutdown included, takes it further from it; time
\* before the timeouts are over, a poll after them and the end of a process
\* that was sent SIGKILL bring it nearer; and it ends only when nothing of the
\* stack is left, at the next poll of the timer, and then no restart waits.
StopsEndInTime ==
  [][\A s \in Stack : Escalating(proc[s]) =>
       /\ StopLeft(proc[s]) \in 0..(MaxElapsed + 4)
       /\ StopGoesOn(s) \/ StopEnds(s)
       /\ StopAdvances(s) /\ Escalating(proc'[s])
            => StopLeft(proc'[s]) < StopLeft(proc[s])
       /\ Supervise /\ ~Alive(proc[s]) => StopEnds(s)]_vars

\* Every stop ends in time, for any timeouts and any mission.
THEOREM StopsEndInTimeHolds == Safety => StopsEndInTime
  <1> DEFINE A == \A s \in Stack : Escalating(proc[s]) =>
                    /\ StopLeft(proc[s]) \in 0..(MaxElapsed + 4)
                    /\ StopGoesOn(s) \/ StopEnds(s)
                    /\ StopAdvances(s) /\ Escalating(proc'[s])
                         => StopLeft(proc'[s]) < StopLeft(proc[s])
                    /\ Supervise /\ ~Alive(proc[s]) => StopEnds(s)
  <1>1. IInv /\ ShutdownInv /\ [Next]_vars => A
    <2> SUFFICES ASSUME IInv, ShutdownInv, [Next]_vars,
                        NEW s \in Stack, Escalating(proc[s])
                 PROVE  /\ StopLeft(proc[s]) \in 0..(MaxElapsed + 4)
                        /\ StopGoesOn(s) \/ StopEnds(s)
                        /\ StopAdvances(s) /\ Escalating(proc'[s])
                             => StopLeft(proc'[s]) < StopLeft(proc[s])
                        /\ Supervise /\ ~Alive(proc[s]) => StopEnds(s)
      OBVIOUS
    <2>0. StackInv /\ proc[s] \in Process(MaxElapsed)
      BY StackInvTypes DEF IInv
    <2>1. StopLeft(proc[s]) \in 0..(MaxElapsed + 4)
      BY <2>0, StopLeftRange
    <2>2. StopGoesOn(s) \/ StopEnds(s)
      <3>1. StopLeft(proc[s]) \in Int
        BY <2>1
      <3>2. proc'[s] = proc[s] => StopGoesOn(s)
        BY <3>1 DEF StopGoesOn
      <3> QED
        BY <2>0, <3>2, StopKeeps, PollAdvances, TickLowers, MemberLowers DEF Next
    <2>3. StopAdvances(s) /\ Escalating(proc'[s])
            => StopLeft(proc'[s]) < StopLeft(proc[s])
      <3>1. CASE Tick /\ proc[s].elapsed < MaxElapsed /\ proc[s].sent # "SIGKILL"
        BY <2>0, <3>1, TickLowers
      <3>2. CASE Supervise /\ proc[s].elapsed = MaxElapsed
                 /\ proc[s].sent # "SIGKILL"
        BY <3>2, PollAdvances
      <3>3. CASE (LeaderEnds(s) \/ NodesEnd(s)) /\ proc[s].sent = "SIGKILL"
        <4>1. Group(s) /\ ~Spawn(s)
          <5>1. proc \in [Stack -> Process(MaxElapsed)]
            BY <2>0, StackInvTypes
          <5> QED
            BY <3>3, <5>1 DEF Group, Spawn
        <4> QED
          BY <2>0, <3>3, <4>1, MemberLowers
      <3> QED
        BY <3>1, <3>2, <3>3 DEF StopAdvances
    <2>4. Supervise /\ ~Alive(proc[s]) => StopEnds(s)
      BY PollAdvances
    <2> QED
      BY <2>1, <2>2, <2>3, <2>4
  <1>2. [](IInv /\ ShutdownInv) /\ [][Next]_vars => [][A]_vars
    BY <1>1, PTL
  <1>3. Safety => [](IInv /\ ShutdownInv)
    BY SafetyInv, PTL
  <1> QED
    BY <1>2, <1>3, PTL DEF Safety, StopsEndInTime
-----------------------------------------------------------------------------
\* How far the shutdown is from its end, at most, in ticks and in the polls
\* that separate them.
ShutdownLeft ==
  IF phase \in Stack
  THEN 2 * (Deadline - waited) + 2 - Count(polled)
       + (IF phase = "slam" THEN 2 * Deadline + 2 ELSE 0)
  ELSE 0

\* The loop waits for a tick only before its deadline.
PollsOnTime == phase \in Stack /\ polled => waited < Deadline

LEMMA PollsOnTimeStep ==
  ASSUME TypeOK, PollsOnTime, [Next]_vars
  PROVE  PollsOnTime'
  <1>1. CASE ShutdownPoll
    <2>1. Deadline \in Nat /\ waited \in 0..Deadline
      BY MaxElapsedType DEF TypeOK
    <2> QED
      BY <1>1, <2>1 DEF ShutdownPoll, PollsOnTime, Stack
  <1>2. CASE Tick \/ BeginShutdown
    BY <1>2 DEF Tick, BeginShutdown, StopStack, PollsOnTime
  <1>3. ASSUME UNCHANGED shutdownVars PROVE PollsOnTime'
    BY <1>3 DEF shutdownVars, PollsOnTime
  <1>4. UNCHANGED shutdownVars \/ ShutdownPoll \/ Tick \/ BeginShutdown
    BY DEF Next, vars, shutdownVars, Report, OnParamsFixed, OnChallengePassed,
           StartNav2, Supervise, Group, LeaderEnds, NodesEnd, Spawn
  <1> QED
    BY <1>1, <1>2, <1>3, <1>4

\* The shutdown ends whatever the processes do: it is at most 4 * Deadline + 4
\* ticks and polls from its end, never taken further from it, and brought
\* nearer by every tick and by the first poll after it; it never goes back to
\* running, and what it is done with it does not stop again.
ShutdownNearsEnd ==
  /\ ShutdownLeft \in 1..(4 * Deadline + 4)
  /\ \/ phase' = phase
     \/ phase = "slam" /\ phase' = "nav2"
     \/ phase = "nav2" /\ phase' = "over"
  /\ ShutdownLeft' <= ShutdownLeft
  /\ Tick \/ (ShutdownPoll /\ ~polled) => ShutdownLeft' < ShutdownLeft

ShuttingDown == phase \in Stack

ShutdownEndsInTime == [][ShuttingDown => ShutdownNearsEnd]_vars

\* The shutdown ends in time, for any timeouts and whatever the processes do.
THEOREM ShutdownEndsInTimeHolds == Safety => ShutdownEndsInTime
  <1>1. TypeOK /\ PollsOnTime /\ [Next]_vars => (ShuttingDown => ShutdownNearsEnd)
    <2> SUFFICES ASSUME TypeOK, PollsOnTime, [Next]_vars, ShuttingDown
                 PROVE  ShutdownNearsEnd
      OBVIOUS
    <2>0. /\ Deadline \in Nat /\ waited \in 0..Deadline /\ polled \in BOOLEAN
          /\ phase \in {"slam", "nav2"}
      BY MaxElapsedType DEF TypeOK, ShuttingDown, Stack
    <2>1. ShutdownLeft \in 1..(4 * Deadline + 4)
      BY <2>0 DEF ShutdownLeft, Stack, Count
    <2>2. ASSUME UNCHANGED shutdownVars, ~Tick, ~ShutdownPoll PROVE ShutdownNearsEnd
      <3>1. phase' = phase /\ ShutdownLeft' = ShutdownLeft
        BY <2>2 DEF shutdownVars, ShutdownLeft
      <3> QED
        BY <2>1, <2>2, <3>1 DEF ShutdownNearsEnd
    <2>3. CASE Tick
      <3>1. polled /\ waited < Deadline /\ phase' = phase
        BY <2>0, <2>3 DEF Tick, PollsOnTime, Stack
      <3>2. waited' = waited + 1 /\ ~polled'
        BY <2>0, <2>3, <3>1 DEF Tick, Stack
      <3>3. ShutdownLeft' = ShutdownLeft - 1
        BY <2>0, <3>1, <3>2 DEF ShutdownLeft, Stack, Count
      <3> QED
        BY <2>1, <3>1, <3>3 DEF ShutdownNearsEnd
    <2>4. CASE ShutdownPoll
      <3>1. CASE phase' = phase /\ polled' /\ waited' = waited
        <4>1. ShutdownLeft' = ShutdownLeft - (1 - Count(polled))
          BY <2>0, <3>1 DEF ShutdownLeft, Stack, Count
        <4>2. Count(polled) \in 0..1 /\ (~polled => Count(polled) = 0)
          BY DEF Count
        <4> QED
          BY <2>1, <2>3, <3>1, <4>1, <4>2 DEF ShutdownNearsEnd
      <3>2. CASE phase = "slam" /\ phase' = "nav2" /\ waited' = 0 /\ ~polled'
        <4>1. ShutdownLeft' = 2 * Deadline + 2
          BY <2>0, <3>2 DEF ShutdownLeft, Stack, Count
        <4>2. ShutdownLeft > 2 * Deadline + 2
          BY <2>0, <3>2 DEF ShutdownLeft, Stack, Count
        <4> QED
          BY <2>0, <2>1, <3>2, <4>1, <4>2 DEF ShutdownNearsEnd
      <3>3. CASE phase = "nav2" /\ phase' = "over"
        <4>1. ShutdownLeft' = 0
          BY <3>3 DEF ShutdownLeft, Stack
        <4> QED
          BY <2>1, <3>3, <4>1 DEF ShutdownNearsEnd
      <3> QED
        BY <2>0, <2>4, <3>1, <3>2, <3>3 DEF ShutdownPoll, Stack
    <2>5. UNCHANGED shutdownVars \/ ShutdownPoll \/ Tick
      <3>1. ~BeginShutdown
        BY <2>0 DEF BeginShutdown
      <3> QED
        BY <3>1
        DEF Next, vars, shutdownVars, Report, OnParamsFixed, OnChallengePassed,
            StartNav2, Supervise, Group, LeaderEnds, NodesEnd, Spawn
    <2> QED
      BY <2>2, <2>3, <2>4, <2>5
  <1>2. Init => PollsOnTime
    BY DEF Init, PollsOnTime, Stack
  <1>3. TypeOK /\ PollsOnTime /\ [Next]_vars => PollsOnTime'
    BY PollsOnTimeStep
  <1> QED
    BY TypeCorrect, <1>1, <1>2, <1>3, PTL DEF Safety, ShutdownEndsInTime

-----------------------------------------------------------------------------
(* Launches.                                                               *)

\* The step launches stack s.
Launched(s) == State(proc'[s]) = "running" /\ State(proc[s]) # "running"

\* How a launch may come about.
LaunchOK(s) ==
  /\ phase = "up"
  /\ ~Alive(proc[s])
  /\ pending'[s] = None
  /\ pending[s] # None => params'[s] = pending[s]

\* A stack is launched only while the node is up and nothing of the stack runs;
\* if a restart was pending, the launch is that restart, with its parameters,
\* and it is done once.
LaunchesAlone == [][\A s \in Stack : Launched(s) => LaunchOK(s)]_vars

LEMMA StartStackLaunches ==
  ASSUME IInv, phase = "up", NEW t \in Stack, NEW file \in Params,
         NEW ok \in BOOLEAN, StartStack(t, file, ok)
  PROVE  \A s \in Stack : Launched(s) => LaunchOK(s)
  <1> SUFFICES ASSUME NEW s \in Stack, Launched(s) PROVE LaunchOK(s)
    OBVIOUS
  <1>0. /\ proc \in [Stack -> Process(MaxElapsed)] /\ StackOK(s)
        /\ MaxElapsed \in Nat
    BY StackInvTypes, MaxElapsedType DEF IInv, StackInv
  <1>1. proc'[s] # proc[s]
    BY DEF Launched
  <1>2. t = s
    BY <1>0, <1>1 DEF StartStack
  <1>3. ~proc[s].held
    <2> SUFFICES ASSUME proc[s].held PROVE FALSE
      OBVIOUS
    <2>1. proc'[s] = RequestStop(proc[s])
      BY <1>0, <1>1, <1>2 DEF StartStack
    <2>2. /\ proc'[s] \in Process(MaxElapsed) /\ proc'[s].held
          /\ proc'[s].elapsed # Unset
      BY <1>0, <2>1, RequestStopFacts
    <2> QED
      BY <1>0, <2>2, RunningState DEF Launched
  <1>4. pending[s] = None /\ pending' = pending
    BY <1>0, <1>2, <1>3 DEF StackOK, StartStack
  <1> QED
    BY <1>0, <1>3, <1>4 DEF LaunchOK, StackOK, Alive, GroupAlive

LEMMA SuperviseLaunches ==
  ASSUME IInv, Supervise
  PROVE  \A s \in Stack : Launched(s) => LaunchOK(s)
  <1> SUFFICES ASSUME NEW s \in Stack, Launched(s) PROVE LaunchOK(s)
    OBVIOUS
  <1> DEFINE next == Poll(proc[s], SigintTimeout, SigtermTimeout)
             gone == proc[s].held /\ ~next.held
  <1>0. /\ proc[s] \in Process(MaxElapsed) /\ MaxElapsed \in Nat
        /\ SigintTimeout \in Nat /\ SigtermTimeout \in Nat
    BY StackInvTypes, MaxElapsedType, TimeoutAssumption DEF IInv
  <1>1. PICK ok \in [Stack -> BOOLEAN] :
          /\ proc'[s] = IF gone /\ pending[s] # None
                        THEN StartProcess(next, ok[s]) ELSE next
          /\ params'[s] = IF gone /\ pending[s] # None /\ ok[s]
                          THEN pending[s] ELSE params[s]
    BY DEF Supervise
  <1>2. pending'[s] = (IF gone THEN None ELSE pending[s]) /\ phase = "up"
    BY DEF Supervise
  <1>3. /\ next \in Process(MaxElapsed)
        /\ Alive(next) <=> Alive(proc[s])
        /\ ~proc[s].held => next = proc[s]
        /\ gone => ~GroupAlive(next)
        /\ next.held => next = proc[s] \/ next.elapsed # Unset
    BY <1>0, PollFacts
  <1>4. State(next) = "running" => next = proc[s]
    BY <1>0, <1>3, RunningState
  <1> HIDE DEF next
  <1>5. gone /\ pending[s] # None
    BY <1>1, <1>4 DEF Launched
  <1>6. ~Alive(proc[s])
    BY <1>3, <1>5 DEF Alive, GroupAlive
  <1>7. ok[s] \in BOOLEAN /\ proc'[s] = StartProcess(next, ok[s])
    BY <1>1, <1>5
  <1>8. ok[s]
    <2>1. /\ proc'[s] \in Process(MaxElapsed)
          /\ proc'[s].held <=> ok[s]
      BY <1>0, <1>3, <1>5, <1>7, StartFacts
    <2> QED
      BY <1>0, <2>1, RunningState DEF Launched
  <1> QED
    BY <1>1, <1>2, <1>5, <1>6, <1>8 DEF LaunchOK

\* Every other step leaves a stack that does not run as it is, or stops it.
LEMMA ShutdownLaunchesNothing ==
  ASSUME IInv, BeginShutdown \/ ShutdownPoll, NEW s \in Stack
  PROVE  ~Launched(s)
  <1>0. /\ proc \in [Stack -> Process(MaxElapsed)] /\ MaxElapsed \in Nat
        /\ ShutdownSigint \in Nat /\ ShutdownSigterm \in Nat
    BY StackInvTypes, MaxElapsedType, TimeoutAssumption DEF IInv
  <1>1. \/ proc'[s] = proc[s]
        \/ proc'[s] = RequestStop(proc[s])
        \/ proc'[s] = Poll(proc[s], ShutdownSigint, ShutdownSigterm)
    BY <1>0 DEF BeginShutdown, StopStack, ShutdownPoll, Stack
  <1>2. State(RequestStop(proc[s])) # "running"
    <2>1. /\ RequestStop(proc[s]) \in Process(MaxElapsed)
          /\ RequestStop(proc[s]).held => RequestStop(proc[s]).elapsed # Unset
      BY <1>0, RequestStopFacts
    <2> QED
      BY <1>0, <2>1, RunningState
  <1>3. LET p == Poll(proc[s], ShutdownSigint, ShutdownSigterm)
        IN  State(p) = "running" => p = proc[s]
    <2> DEFINE p == Poll(proc[s], ShutdownSigint, ShutdownSigterm)
    <2>1. p \in Process(MaxElapsed) /\ (p.held => p = proc[s] \/ p.elapsed # Unset)
      BY <1>0, PollFacts
    <2> HIDE DEF p
    <2>2. State(p) = "running" => p = proc[s]
      BY <1>0, <2>1, RunningState
    <2> QED
      BY <2>2 DEF p
  <1> QED
    BY <1>1, <1>2, <1>3 DEF Launched

LEMMA WorldLaunchesNothing ==
  ASSUME IInv, Tick \/ \E t \in Stack : Group(t), NEW s \in Stack
  PROVE  ~Launched(s)
  <1>0. /\ proc \in [Stack -> Process(MaxElapsed)] /\ MaxElapsed \in Nat
    BY StackInvTypes, MaxElapsedType DEF IInv
  <1>1. /\ proc'[s].held <=> proc[s].held
        /\ proc'[s].elapsed = Unset <=> proc[s].elapsed = Unset
        /\ proc'[s].code <=> proc[s].code
    <2>1. CASE Tick
      <3>1. CASE proc[s].elapsed \in 0..(MaxElapsed - 1)
        <4>1. proc'[s] = [proc[s] EXCEPT !.elapsed = @ + 1]
          BY <2>1, <3>1 DEF Tick
        <4>2. proc[s].elapsed + 1 # Unset /\ proc[s].elapsed # Unset
          BY <1>0, <3>1 DEF Unset
        <4> QED
          BY <1>0, <4>1, <4>2 DEF Process
      <3>2. CASE proc[s].elapsed \notin 0..(MaxElapsed - 1)
        BY <2>1, <3>2 DEF Tick
      <3> QED
        BY <3>1, <3>2
    <2>2. ASSUME NEW t \in Stack, Group(t)
          PROVE  /\ proc'[s].held <=> proc[s].held
                 /\ proc'[s].elapsed = proc[s].elapsed
                 /\ proc'[s].code <=> proc[s].code
      BY <1>0, <2>2 DEF Group, LeaderEnds, NodesEnd, Spawn, Process
    <2> QED
      BY <2>1, <2>2
  <1> QED
    BY <1>1 DEF Launched, State

\* No launch ever finds anything of its stack alive, and none is made once the
\* shutdown has begun, whatever the timeouts and whoever dies when.
THEOREM LaunchesAloneHolds == Safety => LaunchesAlone
  <1>1. IInv /\ [Next]_vars => \A s \in Stack : Launched(s) => LaunchOK(s)
    <2> SUFFICES ASSUME IInv, [Next]_vars
                 PROVE  \A s \in Stack : Launched(s) => LaunchOK(s)
      OBVIOUS
    <2>1. ASSUME UNCHANGED proc
          PROVE  \A s \in Stack : Launched(s) => LaunchOK(s)
      BY <2>1 DEF Launched
    <2>2. ASSUME NEW c \in Challenge, Report(c)
          PROVE  \A s \in Stack : Launched(s) => LaunchOK(s)
      <3>1. phase = "up" /\ (RestartFor(c) \/ UNCHANGED proc)
        BY <2>2
        DEF Report, OnParamsFixed, OnChallengePassed, stackVars
      <3>2. ASSUME RestartFor(c)
            PROVE  \A s \in Stack : Launched(s) => LaunchOK(s)
        <4>1. RestartStack[c] # None => RestartStack[c] \in Stack
          BY MissionAssumption
        <4>2. "reference" \in Params
          BY DEF Params
        <4> QED
          BY <2>1, <3>1, <3>2, <4>1, <4>2, StartStackLaunches
          DEF RestartFor, stackVars
      <3> QED
        BY <2>1, <3>1, <3>2
    <2>3. CASE StartNav2
      <3>1. "nav2" \in Stack /\ "initial" \in Params
        BY DEF Stack, Params
      <3> QED
        BY <2>1, <2>3, <3>1, StartStackLaunches DEF StartNav2, stackVars
    <2>4. CASE Supervise
      BY <2>4, SuperviseLaunches
    <2>5. CASE BeginShutdown \/ ShutdownPoll
      BY <2>5, ShutdownLaunchesNothing
    <2>6. CASE Tick \/ \E t \in Stack : Group(t)
      BY <2>6, WorldLaunchesNothing
    <2>7. CASE UNCHANGED vars
      BY <2>1, <2>7 DEF vars
    <2> QED
      BY <2>2, <2>3, <2>4, <2>5, <2>6, <2>7 DEF Next
  <1>2. IInv /\ [Next]_vars =>
          [\A s \in Stack : Launched(s) => LaunchOK(s)]_vars
    BY <1>1
  <1> QED
    BY <1>2, InvHolds, PTL DEF Safety, LaunchesAlone
=============================================================================
