------------------------------ MODULE MCConfig ------------------------------
(***************************************************************************)
(* Config over all files of up to three entries, with names and values     *)
(* over small alphabets: the name asked for is "L", for Log0, and another  *)
(* name ends with it, as BLog0 does, or begins with it.                    *)
(***************************************************************************)
EXTENDS Config

LogName == <<"L">>

Names == {<<"L">>, <<"B", "L">>, <<"L", "B">>, <<"N">>}

Values == {<<>>, <<"a">>, <<"L">>, <<"a", "b">>, <<"L", "=">>}

Entry(newline) ==
  {[name |-> n, value |-> v, newline |-> newline] : n \in Names, v \in Values}

(***************************************************************************)
(* Only the last line may lack its newline, and then not right after "=",  *)
(* where strlen(ptr + 2) would begin past the end of the line.             *)
(***************************************************************************)
LastEntry == Entry(TRUE) \cup {e \in Entry(FALSE) : e.value # <<>>}

SmallFiles ==
  {<<e>> : e \in LastEntry}
  \cup {<<d, e>> : d \in Entry(TRUE), e \in LastEntry}
  \cup {<<c, d, e>> : c \in Entry(TRUE), d \in Entry(TRUE), e \in LastEntry}

=============================================================================
