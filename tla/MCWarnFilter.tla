---------------------------- MODULE MCWarnFilter ----------------------------
(***************************************************************************)
(* Words and lengths for small instances of WarnFilter: "date" stands for  *)
(* the time a script prints first, which has twenty characters.            *)
(***************************************************************************)
EXTENDS WarnFilter

Levels == {"note\n", "warning\n", "normal\n"}

Lengths ==
  [w \in Words \cup Ends \cup {Blank} |->
     CASE w = Blank -> 1 [] w = "date" -> 20 [] w = "note" -> 4
       [] w = "note\n" -> 5 [] w = "warning\n" -> 8 [] OTHER -> 7]

=============================================================================
