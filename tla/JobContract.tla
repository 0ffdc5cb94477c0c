----------------------------- MODULE JobContract -----------------------------
(***************************************************************************)
(* What the execution-job service promises about each task, whatever the   *)
(* storage, the workers and the network do.  A task is opened once, tried  *)
(* at most Budget times, one try at a time, and closed once: completed by  *)
(* the try that holds it, or abandoned.  A closed task may lose its result *)
(* to data minimization, never get another.  Tasks move independently, and *)
(* one call of the service may move several of them.                       *)
(***************************************************************************)
EXTENDS Naturals

CONSTANTS Task, Budget

VARIABLES
    phase,   \* where the task is in its life
    tries,   \* how many times it has been handed to a worker
    winner   \* the try whose result it carries, 0 if none

vars == <<phase, tries, winner>>

Phases == {"unborn", "open", "held", "closed", "gone"}

TypeOK ==
    /\ phase \in [Task -> Phases]
    /\ tries \in [Task -> 0..Budget]
    /\ winner \in [Task -> 0..Budget]

Init ==
    /\ phase = [t \in Task |-> "unborn"]
    /\ tries = [t \in Task |-> 0]
    /\ winner = [t \in Task |-> 0]

Becomes(t, p, n, v) == phase'[t] = p /\ tries'[t] = n /\ winner'[t] = v

Stay(t) == Becomes(t, phase[t], tries[t], winner[t])

Open(t) == phase[t] = "unborn" /\ Becomes(t, "open", 0, 0)

\* A new try: of a waiting task, or of one whose previous try lost its hold.
Hold(t) ==
    /\ phase[t] \in {"open", "held"}
    /\ tries[t] < Budget
    /\ Becomes(t, "held", tries[t] + 1, 0)

Release(t) ==
    /\ phase[t] = "held"
    /\ tries[t] < Budget
    /\ Becomes(t, "open", tries[t], 0)

Abandon(t) == phase[t] \in {"open", "held"} /\ Becomes(t, "closed", tries[t], 0)

Complete(t) == phase[t] = "held" /\ Becomes(t, "closed", tries[t], tries[t])

Minimise(t) == phase[t] = "closed" /\ Becomes(t, "closed", tries[t], 0)

Forget(t) == phase[t] \in {"open", "held", "closed"} /\ Becomes(t, "gone", 0, 0)

Move(t) == \/ Stay(t) \/ Open(t) \/ Hold(t) \/ Release(t)
           \/ Abandon(t) \/ Complete(t) \/ Minimise(t) \/ Forget(t)

Next == \A t \in Task : Move(t)

\* The three variables are functions of the task and change only pointwise.
Shape == /\ phase' \in [Task -> Phases]
         /\ tries' \in [Task -> Nat]
         /\ winner' \in [Task -> Nat]

Spec == Init /\ [][Next /\ Shape]_vars

=============================================================================
