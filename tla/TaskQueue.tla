------------------------------ MODULE TaskQueue ------------------------------
(***************************************************************************)
(* What Master/threadpool promises its callers, without threads, locks or  *)
(* pointers: tasks are numbered in the order they are submitted, a worker  *)
(* takes the oldest one that waits, and each task is taken at most once.   *)
(* Destroying the pool abandons what still waits.  ThreadPool is shown to  *)
(* implement this specification.                                           *)
(***************************************************************************)
EXTENDS Integers

CONSTANT MaxTasks            \* bound on the tasks submitted in a behaviour

VARIABLES
  added,                     \* number of tasks submitted so far
  tstate                     \* what has become of each task

Tasks == 1..MaxTasks

TaskStates == {"new", "queued", "running", "freed"}

Init ==
  /\ added = 0
  /\ tstate = [t \in Tasks |-> "new"]

Submit ==
  /\ added < MaxTasks
  /\ added' = added + 1
  /\ tstate' = [tstate EXCEPT ![added + 1] = "queued"]

Take(t) ==                   \* first in, first out
  /\ tstate[t] = "queued"
  /\ \A u \in 1..(t-1) : tstate[u] # "queued"
  /\ tstate' = [tstate EXCEPT ![t] = "running"]
  /\ UNCHANGED added

Finish(t) ==
  /\ tstate[t] = "running"
  /\ tstate' = [tstate EXCEPT ![t] = "freed"]
  /\ UNCHANGED added

Abandon ==
  /\ tstate' = [t \in Tasks |-> IF tstate[t] = "queued" THEN "freed" ELSE tstate[t]]
  /\ UNCHANGED added

Next ==
  \/ Submit
  \/ \E t \in Tasks : Take(t) \/ Finish(t)
  \/ Abandon

Spec == Init /\ [][Next]_<<added, tstate>>

==============================================================================
