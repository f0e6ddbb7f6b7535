------------------------------ MODULE Collection ------------------------------
(***************************************************************************)
(* What collecting logs promises, without sockets, servers or conf.Dir:    *)
(* each task asks for the logs one at a time and in order, and stores a    *)
(* log at most once, only after the client has said that it has it; it may *)
(* stop at any time.  DataSession is shown to implement it.                *)
(***************************************************************************)
EXTENDS Integers

CONSTANTS
  Tasks,
  Kinds                      \* numbers of the logs, in the order asked for

VARIABLES
  status,                    \* what has become of each log of each task
  void                       \* has the Master lost track: see Void

Init ==
  /\ status = [t \in Tasks |-> [k \in Kinds |-> "todo"]]
  /\ void = FALSE

Ask(t, k) ==                 \* not before the logs before it are settled
  /\ status[t][k] = "todo"
  /\ \A j \in Kinds : j < k => status[t][j] \in {"stored", "over"}
  /\ status' = [status EXCEPT ![t][k] = "asked"]
  /\ UNCHANGED void

Promise(t, k) ==
  /\ status[t][k] = "asked"
  /\ status' = [status EXCEPT ![t][k] = "promised"]
  /\ UNCHANGED void

Store(t, k) ==
  /\ status[t][k] = "promised"
  /\ status' = [status EXCEPT ![t][k] = "stored"]
  /\ UNCHANGED void

Skip(t, k) ==                \* refused, empty, or the client died
  /\ status[t][k] \in {"asked", "promised"}
  /\ status' = [status EXCEPT ![t][k] = "over"]
  /\ UNCHANGED void

Stop(T) ==                   \* these tasks end, and store nothing more
  /\ status' = [t \in Tasks |-> [k \in Kinds |->
                  IF t \in T /\ status[t][k] # "stored" THEN "over" ELSE status[t][k]]]
  /\ UNCHANGED void

Void == void'                \* from then on nothing is promised

Next ==
  \/ \E t \in Tasks, k \in Kinds : Ask(t, k) \/ Promise(t, k) \/ Store(t, k) \/ Skip(t, k)
  \/ \E T \in SUBSET Tasks : Stop(T)
  \/ Void

Spec == Init /\ [][Next]_<<status, void>>

===============================================================================
