---------------------------- MODULE ProcessGroup ----------------------------
(***************************************************************************)
(* ManagedProcess: a command run as the leader of a process group, stopped *)
(* as a group by signals that escalate.  The operators take the state of   *)
(* one ManagedProcess together with that of its group.                     *)
(*                                                                         *)
(* A signal is recorded as the one sent last.  Members may ignore SIGINT   *)
(* and SIGTERM, or end at any time; only SIGKILL must end them.  A member  *)
(* that ends between two statements of poll() might as well have ended     *)
(* before or after it, since poll() looks at leader and group once each.   *)
(***************************************************************************)
EXTENDS Integers

Unset == -1                       \* _stop_started is None

Signal == {"none", "SIGINT", "SIGTERM", "SIGKILL"}

\* held: _proc is not None.  code: returncode is not None.  elapsed: ticks
\* since _stop_started.  sent: _sent.  leader, node: the group's leader, and
\* whether it has other members; an ended leader is a zombie until reaped.
Process(MaxElapsed) ==
  [held : BOOLEAN, code : BOOLEAN, elapsed : Unset..MaxElapsed, sent : Signal,
   leader : {"none", "alive", "zombie"}, node : BOOLEAN]

NewProcess ==
  [held |-> FALSE, code |-> FALSE, elapsed |-> Unset, sent |-> "none",
   leader |-> "none", node |-> FALSE]

State(p) ==
  IF p.held THEN IF p.elapsed # Unset THEN "stopping" ELSE "running"
            ELSE IF p.code THEN "exited" ELSE "idle"

Alive(p)      == p.leader = "alive" \/ p.node     \* something of it runs
GroupAlive(p) == p.leader # "none" \/ p.node      \* killpg(pgid, 0) succeeds

\* Popen may fail; start() has forgotten the return code by then.
StartProcess(p, ok) ==
  IF ok
  THEN [p EXCEPT !.held = TRUE, !.code = FALSE, !.elapsed = Unset,
                 !.sent = "none", !.leader = "alive"]
  ELSE [p EXCEPT !.code = FALSE, !.elapsed = Unset, !.sent = "none"]

RequestStop(p) ==
  IF p.held /\ p.elapsed = Unset
  THEN [p EXCEPT !.elapsed = 0, !.sent = "SIGINT"]
  ELSE p

\* As Escalate, but never more than SIGTERM.
EscalateToTerm(p, intTimeout, termTimeout) ==
  IF p.sent = "SIGINT" /\ p.elapsed >= intTimeout
  THEN [p EXCEPT !.sent = "SIGTERM"]
  ELSE p

Escalate(p, intTimeout, termTimeout) ==
  IF p.sent = "SIGINT" /\ p.elapsed >= intTimeout
  THEN [p EXCEPT !.sent = "SIGTERM"]
  ELSE IF p.sent = "SIGTERM" /\ p.elapsed >= intTimeout + termTimeout
  THEN [p EXCEPT !.sent = "SIGKILL"]
  ELSE p

\* _proc.poll() collects the leader if it has ended; poll() keeps the code of
\* one that ended by itself.
Reap(p) ==
  IF p.leader = "zombie"
  THEN [p EXCEPT !.leader = "none", !.code = @ \/ p.elapsed = Unset]
  ELSE p

Forget(p) == [p EXCEPT !.held = FALSE, !.code = TRUE, !.elapsed = Unset]

\* As Poll, with a group that counts as gone once its leader is reaped.
PollLeaderOnly(p, intTimeout, termTimeout) ==
  LET q == Reap(p) IN
  IF ~p.held \/ (p.elapsed = Unset /\ q.leader = "alive") THEN p
  ELSE IF q.leader = "none" THEN Forget(q)
  ELSE Escalate(q, intTimeout, termTimeout)

\* poll(): a group whose leader ended by itself is stopped; one that is being
\* stopped is forgotten once it is empty, and signalled harder until then.
Poll(p, intTimeout, termTimeout) ==
  LET q == Reap(p) IN
  IF ~p.held \/ (p.elapsed = Unset /\ q.leader = "alive") THEN p
  ELSE IF ~GroupAlive(q) THEN Forget(q)
  ELSE Escalate(RequestStop(q), intTimeout, termTimeout)
=============================================================================
