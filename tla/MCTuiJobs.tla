----------------------------- MODULE MCTuiJobs -----------------------------
\* Two profiles that share a resource, and a task, which has none.
EXTENDS TuiJobs

MCResource == [bringup |-> {"drive"}, sim |-> {"drive"}, task |-> {}]

=============================================================================
