------------------------ MODULE ExecutionJobsContract ------------------------
(* ExecutionJobs implements JobContract: a job is a task, its phase read off *)
(* its state, its tries are its attempts, and its winner is its result.      *)
EXTENDS ExecutionJobs

PhaseOf(state) ==
    CASE state = "none" -> "unborn"
      [] state = "queued" -> "open"
      [] state \in Leased -> "held"
      [] state \in Terminal -> "closed"
      [] state = "deleted" -> "gone"

Contract == INSTANCE JobContract WITH
    Task <- JobId,
    Budget <- MaxAttempts,
    phase <- [j \in JobId |-> PhaseOf(job[j].state)],
    tries <- [j \in JobId |-> job[j].attempt],
    winner <- [j \in JobId |-> job[j].result]

\* Every behaviour of the service, as each job's requester sees it, is one the
\* contract allows.
ImplementsContract == Contract!Spec

=============================================================================
