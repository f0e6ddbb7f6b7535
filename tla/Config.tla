------------------------------- MODULE Config -------------------------------
(***************************************************************************)
(* get_conf_value (common.c, in Client and Master alike): the value of a   *)
(* name in a configuration file.  The file is read line by line; a line    *)
(* counts when the first place where the name occurs in it is followed by  *)
(* "=", and then what follows is copied over the value found before.       *)
(***************************************************************************)
EXTENDS Integers, Sequences, FiniteSetsExt

CONSTANTS
  Files,                     \* the files examined: sequences of entries
  Key                        \* the name asked for

(***************************************************************************)
(* An entry is [name, value, newline]: the text name, "=", value and,      *)
(* except perhaps at the end of the file, a newline.                       *)
(***************************************************************************)
ASSUME ConfigAssumption ==
  /\ Key \in Seq(STRING)
  /\ Files \subseteq Seq([name : Seq(STRING), value : Seq(STRING), newline : BOOLEAN])

Text(e) == e.name \o <<"=">> \o e.value \o (IF e.newline THEN <<"\n">> ELSE <<>>)

VARIABLES
  file,                      \* the file being read
  next,                      \* the line getline returns next
  value                      \* the zero-terminated contents of value

confVars == <<file, next, value>>

(***************************************************************************)
(* strstr: the first position of key in line, 0 for NULL.                  *)
(***************************************************************************)
OccursAt(line, key, i) == SubSeq(line, i, i + Len(key) - 1) = key

strstr(line, key) ==
  LET places == {i \in 1..(Len(line) - Len(key) + 1) : OccursAt(line, key, i)}
  IN  IF places = {} THEN 0 ELSE Min(places)

(***************************************************************************)
(* strncpy(value, ptr + 1, strlen(ptr + 2)): all of rest, the text after   *)
(* the "=", but its last character; strncpy then adds no zero, so the end  *)
(* of a longer older value stays.                                          *)
(***************************************************************************)
Overwrite_KeepsNewline(old, rest) ==   \* strlen(ptr + 1): one more
  rest \o SubSeq(old, Len(rest) + 1, Len(old))

Overwrite(old, rest) ==
  LET n == IF rest = <<>> THEN 0 ELSE Len(rest) - 1
  IN  SubSeq(rest, 1, n) \o SubSeq(old, n + 1, Len(old))

CharAt(line, i) == IF i <= Len(line) THEN line[i] ELSE "\\0"

Rest(line, key) == SubSeq(line, strstr(line, key) + Len(key) + 1, Len(line))

Matches(line, key) ==
  /\ strstr(line, key) > 0
  /\ CharAt(line, strstr(line, key) + Len(key)) = "="

ConfInit ==
  /\ file \in Files
  /\ next = 1
  /\ value = <<>>

getline ==
  /\ next <= Len(file)
  /\ LET line == Text(file[next])
     IN  value' = IF Matches(line, Key) THEN Overwrite(value, Rest(line, Key)) ELSE value
  /\ next' = next + 1
  /\ UNCHANGED file

ConfNext == getline

ConfSpec == ConfInit /\ [][ConfNext]_confVars

-----------------------------------------------------------------------------
(***************************************************************************)
(* What a name stands for: the value of the one entry of that name.        *)
(***************************************************************************)
Entries(name) == {i \in 1..Len(file) : file[i].name = name}

Read == next > Len(file)

Mentions(e) == strstr(Text(e), Key \o <<"=">>) > 0

(***************************************************************************)
(* A name that is given once, on a line that ends with a newline, is read  *)
(* correctly when the name and "=" occur on no other line; that the name   *)
(* alone occurs in other names and values does no harm.  One that is       *)
(* followed by "=" nowhere has the empty value, which atoi reads as 0.     *)
(***************************************************************************)
UnambiguousNameRead ==
  LET lines == {i \in 1..Len(file) : Mentions(file[i])}
  IN  Read =>
        /\ lines = {} => value = <<>>
        /\ \A i \in lines :
             lines = {i} /\ file[i].name = Key /\ file[i].newline => value = file[i].value

(***************************************************************************)
(* Client.c:122 reads the name of a script's log, Log0 to Log5, from a     *)
(* file that has one entry of that name: the value is that entry's.        *)
(***************************************************************************)
OwnEntryRead ==
  Read => \A i \in Entries(Key) : Entries(Key) = {i} /\ file[i].newline => value = file[i].value

=============================================================================
