------------------------------ MODULE WarnFilter ------------------------------
(***************************************************************************)
(* Which lines of a script the client reports to the Master as a warning:  *)
(* the reading loop of popen_script (Client.c), strtok_func and            *)
(* socket_connect_udp (common.c).  A line is copied to test, in which      *)
(* strtok writes: two calls of strtok_func look at the same copy, one      *)
(* after the other.                                                        *)
(*                                                                         *)
(* A buffer is a sequence of cells: words, blanks and NULs.  The newline   *)
(* belongs to the last word of a line.  Lines fit into the buffer, so that *)
(* fgets returns them whole.                                               *)
(***************************************************************************)
EXTENDS Integers, SequencesExt

CONSTANTS
  Words,                     \* words of a line but the last
  Ends,                      \* last words, with their newline
  Bytes,                     \* the length of each word
  Cells,                     \* size of buff and test
  MaxLines,                  \* bound on the lines a script prints
  types                      \* numbers of the scripts

Blank == " "
NUL == "NUL"
Options == <<"note\n", "warning\n">>
Mem == 1                     \* the script whose output two fgets read
IdBytes == 4                 \* "%d ", 100 + type
SizeOfPointer == 8           \* sizeof(buff), where buff is a char *

Spaced(l) == \A i \in 1..Len(l)-1 : l[i] = Blank \/ l[i+1] = Blank

Lines ==
  {l \in {Append(s, e) : s \in SeqOf(Words \cup {Blank}, Cells - 2), e \in Ends} : Spaced(l)}

ASSUME WarnAssumption ==
  /\ Cells \in Nat \ {0, 1} /\ MaxLines \in Nat /\ types \subseteq Nat
  /\ {Blank, NUL} \cap (Words \cup Ends) = {} /\ Words \cap Ends = {}
  /\ \A o \in DOMAIN Options : Options[o] \notin Words
  /\ Bytes \in [Words \cup Ends \cup {Blank} -> Nat]

VARIABLES
  type,
  line,                      \* the lines of this round; buff holds the last
  pc, option,                \* place; which of the two words it looks for
  test, save,                \* the copy; where strtok left off in it
  sent                       \* datagrams: line, ID, cells that were sent whole

vars == <<type, line, pc, option, test, save, sent>>

buff == Last(line)

Init ==
  /\ type \in types
  /\ line = <<>> /\ sent = <<>>
  /\ pc = "fgets" /\ option = 1
  /\ test = [i \in 1..Cells |-> NUL] /\ save = 1

-----------------------------------------------------------------------------
(***************************************************************************)
(* strtok from cell i on: skip blanks, take a word, put a NUL in place of  *)
(* the blank behind it and go on after that.                               *)
(***************************************************************************)
SkipBlanks(i) == CHOOSE j \in i..Cells : test[j] # Blank /\ \A m \in i..j-1 : test[m] = Blank

strtok(i) ==
  LET k == SkipBlanks(i)
  IN  IF test[k] = NUL
      THEN [word |-> NUL, test |-> test, save |-> k]
      ELSE IF test[k+1] = Blank
           THEN [word |-> test[k], test |-> [test EXCEPT ![k+1] = NUL], save |-> k + 2]
           ELSE [word |-> test[k], test |-> test, save |-> k + 1]

Copy_NoTerminator(l) ==      \* strncpy(test, buff, strlen(buff))
  [i \in 1..Cells |-> IF i <= Len(l) THEN l[i] ELSE test[i]]

Copy(l) == [i \in 1..Cells |-> IF i <= Len(l) THEN l[i] ELSE IF i = Len(l) + 1 THEN NUL ELSE test[i]]

fgets ==                     \* strcat(buffer, buff); strcpy(test, buff)
  /\ pc = "fgets" /\ Len(line) < MaxLines
  /\ type = Mem => Len(line) < 2
  /\ \E l \in Lines :
       /\ line' = Append(line, l)
       /\ test' = IF type = Mem THEN test ELSE Copy(l)
  /\ pc' = IF type = Mem THEN "fgets" ELSE "first"
  /\ option' = 1
  /\ UNCHANGED <<type, save, sent>>

Returns(found) ==            \* a || b: the second call if the first fails
  IF found THEN pc' = "send" /\ UNCHANGED option
  ELSE IF option = 1 THEN pc' = "first" /\ option' = 2
  ELSE pc' = "fgets" /\ UNCHANGED option

FirstWord_Compared ==        \* do { compare } while (p = strtok(NULL, flag))
  /\ pc = "first"
  /\ test' = strtok(1).test /\ save' = strtok(1).save
  /\ IF strtok(1).word = Options[option] THEN Returns(TRUE) ELSE pc' = "next" /\ UNCHANGED option
  /\ UNCHANGED <<type, line, sent>>

FirstWord ==                 \* strtok_func: its first word is not compared
  /\ pc = "first"
  /\ test' = strtok(1).test /\ save' = strtok(1).save
  /\ pc' = "next"
  /\ UNCHANGED <<type, line, option, sent>>

NextWord ==
  LET r == strtok(save)
  IN  /\ pc = "next"
      /\ test' = r.test /\ save' = r.save
      /\ IF r.word \in {NUL, Options[option]} THEN Returns(r.word # NUL)
         ELSE UNCHANGED <<pc, option>>
      /\ UNCHANGED <<type, line, sent>>

strtok_func == FirstWord \/ NextWord

(***************************************************************************)
(* sendto is given the size of a pointer as the length.  If it fails, this *)
(* is written to the log, and the loop goes on.                            *)
(***************************************************************************)
Size(l, n) == FoldLeftDomain(LAMBDA sum, i : IF i <= n THEN sum + Bytes[l[i]] ELSE sum, 0, l)

Datagram(l) ==
  LET n == CHOOSE m \in 0..Len(l) : /\ IdBytes + Size(l, m) <= SizeOfPointer
                                    /\ m < Len(l) => IdBytes + Size(l, m + 1) > SizeOfPointer
  IN  [line |-> Len(line), ID |-> 100 + type, text |-> SubSeq(l, 1, n)]

socket_connect_udp ==
  /\ pc = "send"
  /\ sent' = Append(sent, Datagram(buff))
  /\ test' = [i \in 1..Cells |-> NUL]    \* the message, which is not read again
  /\ pc' = "fgets"
  /\ UNCHANGED <<type, line, option, save>>

NextRound ==                 \* fgets returns NULL: the script has ended
  /\ pc = "fgets" /\ line # <<>>
  /\ line' = <<>> /\ sent' = <<>>
  /\ test' = [i \in 1..Cells |-> NUL]
  /\ UNCHANGED <<type, pc, option, save>>

Next == fgets \/ strtok_func \/ socket_connect_udp \/ NextRound

Spec == Init /\ [][Next]_vars

-----------------------------------------------------------------------------
(***************************************************************************)
(* Types; and what the two searches share is a copy of the line at hand,   *)
(* ended where the line ends and cut at blanks only, which strtok, though  *)
(* it remembers a place in a buffer that is rewritten, never leaves: not a *)
(* word of an older, longer line is ever looked at.                        *)
(***************************************************************************)
CutAtBlanks ==
  /\ test[Len(buff) + 1] = NUL
  /\ \A i \in 1..Len(buff) : test[i] = buff[i] \/ (test[i] = NUL /\ buff[i] = Blank)
  /\ pc = "next" => save <= Len(buff) + 1

TypeOK ==
  /\ type \in types /\ pc \in {"fgets", "first", "next", "send"} /\ option \in {1, 2}
  /\ line \in Seq(Lines) /\ save \in 1..Cells
  /\ test \in [1..Cells -> Words \cup Ends \cup {Blank, NUL}]
  /\ \A i \in DOMAIN sent : sent[i].line \in DOMAIN line
  /\ pc \in {"first", "next"} => CutAtBlanks

(***************************************************************************)
(* Exactly the lines that have note as their last word, but not as their   *)
(* only one, are reported, once each and in order, with the script's ID;   *)
(* so none is because of a warning, and none of the memory script.         *)
(***************************************************************************)
EndsIn(l, w) == Last(l) = w /\ \E i \in 1..Len(l)-1 : l[i] # Blank

IsNote(l) == EndsIn(l, "note\n")

ReportsNotes ==
  pc = "fgets" =>
    /\ {sent[j].line : j \in DOMAIN sent} =
         {i \in DOMAIN line : type # Mem /\ IsNote(line[i])}
    /\ \A j, k \in DOMAIN sent : j < k => sent[j].line < sent[k].line
    /\ \A j \in DOMAIN sent : sent[j].ID = 100 + type

(***************************************************************************)
(* README.md:11: warnings are sent to the Master by UDP; Client.c:55 tests *)
(* a line for the levels note and warning, which CpuLog.sh prints from 50  *)
(* and from 70 degrees: a line of either level is reported.                *)
(***************************************************************************)
WarningIsReported ==
  pc = "fgets" /\ type # Mem =>
    \A i \in DOMAIN line :
      EndsIn(line[i], "note\n") \/ EndsIn(line[i], "warning\n")
        => \E j \in DOMAIN sent : sent[j].line = i

(***************************************************************************)
(* The receiver kept in Master.c:218 as a comment looks for the level in   *)
(* the datagram: it is there.                                              *)
(***************************************************************************)
LevelIsSent == \A i \in DOMAIN sent : "note\n" \in Range(sent[i].text)

===============================================================================
