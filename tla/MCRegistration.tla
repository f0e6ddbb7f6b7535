---------------------------- MODULE MCRegistration ----------------------------
(***************************************************************************)
(* The range of a small instance of Registration: one client that may come *)
(* and go is on the list, and a newcomer is not.                           *)
(***************************************************************************)
EXTENDS Registration

RangeB == <<"b">>

===============================================================================
