--------------------------- MODULE MCDataSession ---------------------------
(***************************************************************************)
(* Small instances of DataSession: every task for the same client, or      *)
(* tasks for two clients; two logs each.                                   *)
(***************************************************************************)
EXTENDS DataSession

SameHost == [t \in Tasks |-> "a"]

TwoHosts == [t \in Tasks |-> IF t = 1 THEN "a" ELSE "b"]

Logs == [k \in 0..1 |-> IF k = 0 THEN "Cpu" ELSE "Mem"]

=============================================================================
