------------------------------ MODULE MCTimers ------------------------------
(***************************************************************************)
(* A small instance of Timers: the shipped periods 3 and 7 scaled down to  *)
(* 2 and 3, and a ctrldata_time that is missing, which atoi reads as zero. *)
(***************************************************************************)
EXTENDS Timers

Periods230 == <<2, 3, 0>>

=============================================================================
