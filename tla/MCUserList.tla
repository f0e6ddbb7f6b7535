----------------------------- MODULE MCUserList -----------------------------
(***************************************************************************)
(* Ranges for small instances of UserList: with a newcomer outside the     *)
(* range, or with a listed client that may go away between two that stay.  *)
(***************************************************************************)
EXTENDS UserList

RangeAB == <<"a", "b">>

RangeACB == <<"a", "c", "b">>

RangeA == <<"a">>

=============================================================================
