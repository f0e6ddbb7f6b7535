------------------------------ MODULE TextProofs ------------------------------
(***************************************************************************)
(* Proofs about the two components that read text: WarnFilter, for lines   *)
(* of any length and any words, and Config, for files of any entries.      *)
(***************************************************************************)
EXTENDS WarnFilter, Config, FiniteSetTheorems, SequenceTheorems, TLAPS

Cell == Words \cup Ends \cup {Blank, NUL}

Copies == [1..Cells -> Cell]

(***************************************************************************)
(* A line is some words and blanks, then one of Ends: it is not empty, and *)
(* leaves room for its NUL.                                                *)
(***************************************************************************)
LineShape(l) ==
  /\ Len(l) \in 1..Cells-1
  /\ \A i \in 1..Len(l)-1 : l[i] \in Words \cup {Blank} /\ (l[i] = Blank \/ l[i+1] = Blank)
  /\ l[Len(l)] \in Ends /\ Last(l) = l[Len(l)]

LEMMA CellFacts ==
  /\ Cells \in Nat \ {0, 1} /\ Blank # NUL
  /\ \A w \in Words : w # Blank /\ w # NUL /\ w # "note\n" /\ w # "warning\n" /\ w \notin Ends
  /\ \A w \in Ends : w # Blank /\ w # NUL
PROOF
  <1>1. Options[1] = "note\n" /\ Options[2] = "warning\n" /\ 1 \in DOMAIN Options /\ 2 \in DOMAIN Options
    BY DEF Options
  <1> QED BY <1>1, WarnAssumption DEF Blank, NUL

LEMMA SpacedLine ==
  ASSUME NEW A, NEW B, NEW l \in {x \in {Append(s, e) : s \in A, e \in B} : Spaced(x)}
  PROVE  Spaced(l) /\ \E s \in A, e \in B : l = Append(s, e)
PROOF
  <1>1. Spaced(l) /\ l \in {Append(s, e) : s \in A, e \in B}
    OBVIOUS
  <1> QED BY <1>1

LEMMA LineFacts == ASSUME NEW l \in Lines PROVE LineShape(l)
PROOF
  <1>1. PICK s \in SeqOf(Words \cup {Blank}, Cells - 2), e \in Ends : Spaced(l) /\ l = Append(s, e)
    <2> DEFINE A == SeqOf(Words \cup {Blank}, Cells - 2)
    <2>1. Lines = {x \in {Append(s, e) : s \in A, e \in Ends} : Spaced(x)}
      BY DEF Lines
    <2> HIDE DEF A
    <2>2. Spaced(l) /\ \E s \in A, e \in Ends : l = Append(s, e)
      BY <2>1, SpacedLine
    <2> QED BY <2>2, Zenon DEF A
  <1>2. PICK m \in 0..(Cells - 2) : s \in [1..m -> Words \cup {Blank}]
    BY DEF SeqOf
  <1>3. s \in Seq(Words \cup {Blank}) /\ Len(s) = m
    BY <1>2
  <1>4. /\ Len(l) = m + 1 /\ l[m + 1] = e
        /\ \A i \in 1..m : l[i] = s[i]
    BY <1>1, <1>3
  <1>5. \A i \in 1..m : l[i] \in Words \cup {Blank} /\ (l[i] = Blank \/ l[i+1] = Blank)
    BY <1>1, <1>2, <1>4 DEF Spaced
  <1> QED BY <1>2, <1>4, <1>5, CellFacts DEF LineShape, Last

(***************************************************************************)
(* The buffer as a line of length n leaves it from cell s on.              *)
(***************************************************************************)
Holds(s) == test[Len(buff) + 1] = NUL /\ \A i \in s..Len(buff) : test[i] = buff[i]

(***************************************************************************)
(* What a first call of strtok has left, and a second one will find: the   *)
(* first word, alone in the string.                                        *)
(***************************************************************************)
Alone(f) ==
  /\ test[f] \notin {Blank, NUL} /\ test[f + 1] = NUL
  /\ \A i \in 1..f-1 : test[i] = Blank

(***************************************************************************)
(* The two searches of a line.  While the first goes on, the rest of the   *)
(* copy is the line's, and the last word has not been looked at or is not  *)
(* note; what it leaves to the second is the first word.                   *)
(***************************************************************************)
SearchNote ==
  option = 1 =>
    /\ pc = "first" => Holds(1)
    /\ pc = "next" =>
         /\ save \in 2..Len(buff)+1 /\ Holds(save)
         /\ IsNote(buff) => save <= Len(buff)
         /\ \E f \in 1..save-1 : buff[f] # Blank /\ Alone(f)

SearchWarning ==
  option = 2 /\ pc # "fgets" =>
    /\ ~IsNote(buff)
    /\ pc = "first" => \E f \in 1..Len(buff) : Alone(f)
    /\ pc = "next" => test[save] = NUL

CopyInv ==
  /\ pc # "fgets" => type # Mem /\ line # <<>>
  /\ SearchNote /\ SearchWarning
  /\ pc = "send" => IsNote(buff)

(***************************************************************************)
(* Types alone; while a search goes on, a NUL is ahead of it.              *)
(***************************************************************************)
WarnTypes ==
  /\ type \in types /\ pc \in {"fgets", "first", "next", "send"} /\ option \in {1, 2}
  /\ line \in Seq(Lines) /\ save \in 1..Cells
  /\ test \in Copies
  /\ pc = "next" => \E k \in save..Cells : test[k] = NUL
  /\ \A i \in DOMAIN sent : sent[i].line \in DOMAIN line

(***************************************************************************)
(* The lines reported are those that were to be, among the lines done.     *)
(***************************************************************************)
Done == IF pc = "fgets" THEN Len(line) ELSE Len(line) - 1

ReportInv ==
  /\ \E S : sent \in Seq(S)
  /\ {sent[j].line : j \in DOMAIN sent} = {i \in 1..Done : type # Mem /\ IsNote(line[i])}
  /\ \A j, k \in DOMAIN sent : j < k => sent[j].line < sent[k].line
  /\ \A j \in DOMAIN sent : sent[j].ID = 100 + type

WarnInv == WarnTypes /\ CopyInv /\ ReportInv

-----------------------------------------------------------------------------
(***************************************************************************)
(* Every nonempty set of naturals has a least element: the intervals up to *)
(* its elements are finite sets, which strict inclusion orders well.       *)
(***************************************************************************)
LEMMA LeastNumber ==
  ASSUME NEW T \in SUBSET Nat, T # {}
  PROVE  \E m \in T : \A k \in T : m <= k
PROOF
  <1> DEFINE R == StrictSubsetOrdering(Nat)
             F == {1..k : k \in T}
  <1>1. F \subseteq FiniteSubsetsOf(Nat)
    <2> SUFFICES ASSUME NEW k \in T PROVE 1..k \in FiniteSubsetsOf(Nat)
      BY DEF F
    <2>1. IsFiniteSet(1..k)
      BY FS_Interval
    <2> QED BY <2>1 DEF FiniteSubsetsOf
  <1>2. PICK x \in F : \A y \in F : ~(<<y, x>> \in R)
    <2>1. IsWellFoundedOn(R, FiniteSubsetsOf(Nat)) /\ F # {}
      BY FS_StrictSubsetOrderingWellFounded
    <2> HIDE DEF R, F
    <2> QED BY <1>1, <2>1, WFMin
  <1>3. PICK m \in T : x = 1..m
    OBVIOUS
  <1>4. ASSUME NEW k \in T, k < m PROVE FALSE
    <2>1. 1..k \subseteq 1..m /\ 1..k # 1..m
      BY <1>4
    <2>2. <<1..k, 1..m>> \in R
      BY <2>1 DEF StrictSubsetOrdering
    <2> QED BY <1>2, <1>3, <2>2
  <1> QED BY <1>4

(***************************************************************************)
(* strtok.                                                                 *)
(***************************************************************************)
LEMMA SkipsTo ==
  ASSUME NEW i \in 1..Cells, NEW k \in i..Cells, test[k] # Blank, \A m \in i..k-1 : test[m] = Blank
  PROVE  SkipBlanks(i) = k
PROOF
  <1> DEFINE P(j) == test[j] # Blank /\ \A m \in i..j-1 : test[m] = Blank
  <1>1. ASSUME NEW j \in i..Cells, P(j)
        PROVE  j = k
    <2>1. ~(j < k) /\ ~(k < j)
      BY <1>1, CellFacts
    <2> QED BY <2>1, CellFacts
  <1>2. P(k)
    OBVIOUS
  <1> HIDE DEF P
  <1>3. (CHOOSE j \in i..Cells : P(j)) = k
    BY <1>1, <1>2
  <1> QED BY <1>3 DEF SkipBlanks, P

LEMMA SomeWord ==
  ASSUME NEW i \in 1..Cells, NEW j \in i..Cells, test[j] # Blank
  PROVE  \E k \in i..j : test[k] # Blank /\ \A m \in i..k-1 : test[m] = Blank
PROOF
  <1> DEFINE T == {m \in i..Cells : test[m] # Blank}
  <1>1. T \in SUBSET Nat /\ j \in T
    BY CellFacts
  <1>2. PICK k \in T : \A m \in T : k <= m
    <2> HIDE DEF T
    <2> QED BY <1>1, LeastNumber
  <1>3. k \in i..j
    BY <1>1, <1>2, CellFacts
  <1>4. ASSUME NEW m \in i..k-1 PROVE test[m] = Blank
    BY <1>2, CellFacts
  <1> QED BY <1>2, <1>3, <1>4

(***************************************************************************)
(* The effect of one call: the word at k, cut off if a blank follows.      *)
(***************************************************************************)
Cut(i, k) ==
  LET r == strtok(i)
  IN  IF test[k] = NUL
      THEN r.word = NUL /\ r.test = test /\ r.save = k
      ELSE /\ r.word = test[k]
           /\ r.test = IF test[k+1] = Blank THEN [test EXCEPT ![k+1] = NUL] ELSE test
           /\ r.save = IF test[k+1] = Blank THEN k + 2 ELSE k + 1

LEMMA Strtok ==
  ASSUME NEW i \in 1..Cells, NEW k \in i..Cells, test[k] # Blank, \A m \in i..k-1 : test[m] = Blank
  PROVE  Cut(i, k)
PROOF
  <1>1. SkipBlanks(i) = k
    BY SkipsTo
  <1>2. strtok(i) = IF test[k] = NUL THEN [word |-> NUL, test |-> test, save |-> k]
                    ELSE IF test[k+1] = Blank
                         THEN [word |-> test[k], test |-> [test EXCEPT ![k+1] = NUL], save |-> k + 2]
                         ELSE [word |-> test[k], test |-> test, save |-> k + 1]
    BY <1>1, Zenon DEF strtok
  <1> QED BY <1>2 DEF Cut

(***************************************************************************)
(* In a copy that still holds the line from i on, strtok returns the next  *)
(* word of the line, or NUL if there is none; the last word has no blank   *)
(* behind it and ends the string.                                          *)
(***************************************************************************)
LEMMA NextToken ==
  ASSUME WarnTypes, line # <<>>, NEW i \in 1..Len(buff), Holds(i)
  PROVE  \E k \in i..Len(buff) :
           /\ Cut(i, k) /\ test[k] \notin {Blank, NUL} /\ test[k] = buff[k]
           /\ \A m \in i..k-1 : test[m] = Blank
           /\ k < Len(buff) => k + 1 < Len(buff) /\ test[k+1] = Blank
           /\ k = Len(buff) => test[k+1] = NUL
PROOF
  <1>1. buff \in Lines
    BY DEF WarnTypes, buff, Last
  <1>2. PICK b \in Lines : b = buff
    BY <1>1
  <1>3. LineShape(b)
    BY LineFacts
  <1>4. PICK n \in 1..Cells-1 : n = Len(b)
    BY <1>3 DEF LineShape
  <1>5. test[n] # Blank /\ n \in i..Cells /\ i \in 1..Cells
    BY <1>2, <1>3, <1>4, CellFacts DEF Holds, LineShape
  <1>6. PICK k \in i..n : test[k] # Blank /\ \A m \in i..k-1 : test[m] = Blank
    BY <1>5, SomeWord
  <1>7. k \in i..Cells /\ Cut(i, k)
    <2>1. k \in i..Cells
      BY <1>4, <1>5, <1>6, CellFacts
    <2> QED BY <1>5, <1>6, <2>1, Strtok
  <1>8. test[k] = b[k] /\ (k < n => test[k+1] = b[k+1]) /\ test[n+1] = NUL
    BY <1>2, <1>4, <1>5, <1>6, CellFacts DEF Holds
  <1>9. test[k] \notin {Blank, NUL}
    BY <1>3, <1>4, <1>5, <1>6, <1>8, CellFacts DEF LineShape
  <1>10. ASSUME k < n
         PROVE  k + 1 < n /\ test[k+1] = Blank
    <2>1. k \in 1..n-1 /\ k + 1 \in 1..n /\ b[k] # Blank /\ b[n] # Blank
      BY <1>3, <1>4, <1>5, <1>6, <1>8, <1>10, CellFacts DEF LineShape
    <2>2. b[k+1] = Blank
      BY <1>3, <1>4, <2>1 DEF LineShape
    <2> QED BY <1>8, <1>10, <2>1, <2>2
  <1> QED BY <1>2, <1>4, <1>6, <1>7, <1>8, <1>9, <1>10

-----------------------------------------------------------------------------
(***************************************************************************)
(* The steps.                                                              *)
(***************************************************************************)
LEMMA BufferLine ==
  ASSUME WarnTypes, line # <<>>
  PROVE  buff \in Lines /\ buff = line[Len(line)] /\ Len(line) \in Nat \ {0} /\ LineShape(buff)
PROOF
  <1>1. buff \in Lines /\ buff = line[Len(line)] /\ Len(line) \in Nat \ {0}
    BY DEF WarnTypes, buff, Last
  <1> QED BY <1>1, LineFacts

LEMMA NoteShape ==
  ASSUME WarnTypes, line # <<>>
  PROVE  IsNote(buff) <=> /\ buff[Len(buff)] = "note\n"
                          /\ \E i \in 1..Len(buff)-1 : buff[i] # Blank
BY BufferLine DEF IsNote, EndsIn, LineShape

(***************************************************************************)
(* What a search leaves alone.                                             *)
(***************************************************************************)
LEMMA SearchKeeps ==
  ASSUME WarnInv, UNCHANGED <<type, line, sent>>, line # <<>>, pc # "fgets",
         pc' # "fgets" \/ ~IsNote(buff)
  PROVE  ReportInv' /\ (IsNote(buff)' <=> IsNote(buff)) /\ buff' = buff
PROOF
  <1>1. Len(line) \in Nat \ {0} /\ buff = line[Len(line)]
    BY BufferLine DEF WarnInv
  <1>2. buff' = buff /\ (IsNote(buff)' <=> IsNote(buff))
    BY DEF buff, IsNote, EndsIn
  <1>3. {i \in 1..Done' : type' # Mem /\ IsNote(line'[i])} = {i \in 1..Done : type # Mem /\ IsNote(line[i])}
    <2>1. CASE pc' # "fgets"
      BY <2>1 DEF Done
    <2>2. CASE pc' = "fgets"
      <3>1. Done' = Done + 1 /\ Done' = Len(line) /\ ~IsNote(line[Done'])
        BY <1>1, <2>2 DEF Done
      <3>2. \A i : i \in 1..Done' /\ IsNote(line[i]) <=> i \in 1..Done /\ IsNote(line[i])
        BY <1>1, <2>2, <3>1 DEF Done
      <3> QED BY <3>2
    <2> QED BY <2>1, <2>2
  <1> QED BY <1>2, <1>3 DEF WarnInv, ReportInv

LEMMA FirstWordStep == ASSUME WarnInv, FirstWord PROVE WarnInv'
PROOF
  <1> USE DEF WarnInv
  <1>1. /\ pc = "first" /\ pc' = "next" /\ UNCHANGED <<type, line, option, sent>>
        /\ test' = strtok(1).test /\ save' = strtok(1).save
    BY DEF FirstWord
  <1>2. line # <<>> /\ type # Mem
    BY <1>1 DEF CopyInv
  <1>3. ReportInv' /\ (IsNote(buff)' <=> IsNote(buff)) /\ buff' = buff
    BY <1>1, <1>2, SearchKeeps
  <1>4. PICK n \in 1..Cells-1 : n = Len(buff)
    BY <1>2, BufferLine DEF LineShape
  <1>5. CASE option = 1
    <2>1. Holds(1)
      BY <1>1, <1>5 DEF CopyInv, SearchNote
    <2>2. PICK k \in 1..n :
            /\ Cut(1, k) /\ test[k] \notin {Blank, NUL} /\ test[k] = buff[k]
            /\ \A m \in 1..k-1 : test[m] = Blank
            /\ k < n => k + 1 < n /\ test[k+1] = Blank
            /\ k = n => test[k+1] = NUL
      BY <1>2, <1>4, <2>1, NextToken
    <2>3. /\ test' = IF k < n THEN [test EXCEPT ![k+1] = NUL] ELSE test
          /\ save' = IF k < n THEN k + 2 ELSE n + 1
      BY <1>1, <1>4, <2>2, CellFacts DEF Cut
    <2>4. /\ save' \in 2..n+1 /\ (k < n => save' <= n) /\ save' > k
          /\ test' \in Copies /\ test'[n+1] = NUL /\ test'[k+1] = NUL
          /\ \A i \in 1..n : i # k + 1 => test'[i] = test[i]
      BY <1>4, <2>1, <2>2, <2>3, CellFacts DEF WarnTypes, Copies, Cell, Holds
    <2>5. WarnTypes'
      <3>1. save' \in 1..Cells /\ n + 1 \in save'..Cells
        BY <1>4, <2>4, CellFacts
      <3> QED BY <1>1, <2>4, <3>1 DEF WarnTypes, Copies, Cell
    <2>6. Holds(save)'
      BY <1>3, <1>4, <2>1, <2>2, <2>3, <2>4, CellFacts DEF Holds
    <2>7. IsNote(buff) => save' <= n
      BY <1>2, <1>4, <2>1, <2>2, <2>4, NoteShape DEF Holds, WarnTypes
    <2>8. k \in 1..save'-1 /\ buff'[k] # Blank /\ Alone(k)'
      <3>1. k \in 1..save'-1 /\ test'[k] = test[k]
        <4>1. PICK s \in Nat : s = save'
          BY <2>4, CellFacts
        <4>2. k < s /\ k \in Nat /\ 1 <= k
          BY <2>4, <4>1, CellFacts
        <4>3. k \in 1..s-1 /\ k # k + 1
          BY <4>2
        <4> QED BY <2>4, <4>1, <4>3
      <3>2. ASSUME NEW i \in 1..k-1 PROVE test'[i] = test[i]
        <4>1. i \in 1..n /\ i # k + 1
          BY <1>4, <2>2, CellFacts
        <4> QED BY <2>4, <4>1
      <3> QED BY <1>3, <1>4, <2>2, <2>4, <3>1, <3>2 DEF Alone
    <2> QED BY <1>1, <1>2, <1>3, <1>4, <1>5, <2>4, <2>5, <2>6, <2>7, <2>8 DEF CopyInv, SearchNote, SearchWarning
  <1>6. CASE option = 2
    <2>1. PICK f \in 1..n : Alone(f)
      BY <1>1, <1>4, <1>6 DEF CopyInv, SearchWarning
    <2>2. Cut(1, f)
      BY <1>4, <2>1, Strtok, CellFacts DEF Alone
    <2>3. test' = test /\ save' = f + 1 /\ test'[save'] = NUL
      BY <1>1, <2>1, <2>2, CellFacts DEF Alone, Cut
    <2>4. save' \in 1..Cells /\ save' \in save'..Cells
      BY <1>4, <2>3, CellFacts
    <2>5. WarnTypes'
      BY <1>1, <2>3, <2>4 DEF WarnTypes
    <2> QED BY <1>1, <1>2, <1>3, <1>6, <2>3, <2>5 DEF CopyInv, SearchNote, SearchWarning
  <1> QED BY <1>5, <1>6 DEF WarnTypes

LEMMA NextWordStep == ASSUME WarnInv, NextWord PROVE WarnInv'
PROOF
  <1> USE DEF WarnInv
  <1>1. /\ pc = "next" /\ UNCHANGED <<type, line, sent>>
        /\ test' = strtok(save).test /\ save' = strtok(save).save
        /\ IF strtok(save).word \in {NUL, Options[option]} THEN Returns(strtok(save).word # NUL)
           ELSE UNCHANGED <<pc, option>>
    BY DEF NextWord
  <1>2. line # <<>> /\ type # Mem
    BY <1>1 DEF CopyInv
  <1>3. pc' # "fgets" \/ ~IsNote(buff) => ReportInv' /\ (IsNote(buff)' <=> IsNote(buff)) /\ buff' = buff
    BY <1>1, <1>2, SearchKeeps
  <1>4. PICK n \in 1..Cells-1 : n = Len(buff)
    BY <1>2, BufferLine DEF LineShape
  <1>5. ASSUME NEW s \in 1..Cells, s = save, test[s] = NUL, ~IsNote(buff)
        PROVE  /\ test' = test /\ save' = save /\ Returns(FALSE)
               /\ ReportInv' /\ ~IsNote(buff)' /\ buff' = buff
    <2>1. s \in s..Cells /\ test[s] # Blank /\ \A m \in s..s-1 : test[m] = Blank
      BY <1>5, CellFacts
    <2>2. Cut(s, s)
      BY <2>1, Strtok
    <2>3. strtok(save).word = NUL /\ test' = test /\ save' = save
      BY <1>1, <1>5, <2>2 DEF Cut
    <2> QED BY <1>1, <1>3, <1>5, <2>3
  <1>6. CASE option = 1
    <2>1. /\ save \in 2..n+1 /\ Holds(save)
          /\ IsNote(buff) => save <= n
      BY <1>1, <1>4, <1>6 DEF CopyInv, SearchNote
    <2>2. PICK f \in 1..save-1 : buff[f] # Blank /\ Alone(f)
      BY <1>1, <1>6 DEF CopyInv, SearchNote
    <2>3. CASE save = n + 1
      <3>1. save \in 1..Cells /\ test[save] = NUL /\ ~IsNote(buff)
        BY <1>4, <2>1, <2>3, CellFacts DEF Holds
      <3>2. /\ test' = test /\ save' = save /\ pc' = "first" /\ option' = 2
            /\ ReportInv' /\ ~IsNote(buff)' /\ buff' = buff
        BY <1>5, <1>6, <3>1 DEF Returns
      <3>3. f \in 1..Len(buff)' /\ Alone(f)'
        BY <1>4, <2>2, <2>3, <3>2 DEF Alone
      <3>4. WarnTypes'
        BY <1>1, <3>2 DEF WarnTypes
      <3> QED BY <1>1, <1>2, <3>2, <3>3, <3>4 DEF CopyInv, SearchNote, SearchWarning
    <2>4. CASE save # n + 1
      <3>1. PICK s \in 2..n : s = save
        BY <2>1, <2>4, CellFacts
      <3>2. PICK k \in s..n :
              /\ Cut(s, k) /\ test[k] \notin {Blank, NUL} /\ test[k] = buff[k]
              /\ k < n => k + 1 < n /\ test[k+1] = Blank
              /\ k = n => test[k+1] = NUL
        <4>1. s \in 1..Len(buff) /\ Holds(s)
          BY <1>4, <2>1, <3>1, CellFacts
        <4> QED BY <1>2, <1>4, <4>1, NextToken
      <3>3. /\ test' = IF k < n THEN [test EXCEPT ![k+1] = NUL] ELSE test
            /\ save' = IF k < n THEN k + 2 ELSE n + 1
            /\ strtok(save).word = buff[k] /\ buff[k] # NUL
        BY <1>1, <1>4, <3>1, <3>2, CellFacts DEF Cut
      <3>4. /\ save' \in 2..n+1 /\ (k < n => save' <= n)
            /\ test' \in Copies /\ test'[n+1] = NUL
            /\ \A i \in 1..n : i # k + 1 => test'[i] = test[i]
        BY <1>4, <2>1, <3>2, <3>3, CellFacts DEF WarnTypes, Copies, Cell, Holds
      <3>5. save' \in 1..Cells /\ n + 1 \in save'..Cells
        BY <1>4, <3>4, CellFacts
      <3>6. CASE buff[k] = "note\n"
        <4>1. k = n
          BY <1>2, <1>4, <3>2, <3>6, BufferLine, CellFacts DEF LineShape
        <4>2. f \in 1..n-1
          BY <2>2, <3>1, CellFacts
        <4>3. IsNote(buff)
          BY <1>2, <1>4, <2>2, <3>6, <4>1, <4>2, NoteShape
        <4>4. pc' = "send" /\ option' = 1
          BY <1>1, <1>6, <3>3, <3>6 DEF Returns, Options
        <4>5. WarnTypes'
          BY <1>1, <3>4, <3>5, <4>4 DEF WarnTypes, Copies, Cell
        <4> QED BY <1>1, <1>2, <1>3, <4>3, <4>4, <4>5 DEF CopyInv, SearchNote, SearchWarning
      <3>7. CASE buff[k] # "note\n"
        <4>1. pc' = "next" /\ option' = 1
          BY <1>1, <1>6, <3>3, <3>7 DEF Options
        <4>2. ReportInv' /\ (IsNote(buff)' <=> IsNote(buff)) /\ buff' = buff
          BY <1>3, <4>1
        <4>3. WarnTypes'
          BY <1>1, <3>4, <3>5, <4>1 DEF WarnTypes, Copies, Cell
        <4>4. Holds(save)'
          BY <1>4, <2>1, <3>1, <3>2, <3>3, <3>4, <4>2, CellFacts DEF Holds
        <4>5. IsNote(buff) => save' <= n
          BY <1>2, <1>4, <3>2, <3>4, <3>7, NoteShape
        <4>6. f \in 1..n /\ f < k /\ f + 1 < k + 1
          BY <2>2, <3>1, <3>2, CellFacts
        <4>7. Alone(f)'
          <5>1. test'[f] = test[f] /\ \A i \in 1..f-1 : test'[i] = test[i]
            BY <3>2, <3>4, <4>6, CellFacts
          <5>2. test'[f+1] = test[f+1]
            BY <3>2, <3>4, <4>6, CellFacts
          <5> QED BY <2>2, <5>1, <5>2 DEF Alone
        <4>8. f \in 1..save'-1
          <5>1. PICK r \in Int : r = save'
            BY <3>4, CellFacts
          <5>2. f < r
            BY <3>2, <3>3, <4>6, <5>1, CellFacts
          <5>3. f \in 1..r-1
            BY <4>6, <5>2
          <5> QED BY <5>1, <5>3
        <4> QED BY <1>1, <1>2, <1>4, <2>2, <3>4, <4>1, <4>2, <4>3, <4>4, <4>5, <4>7, <4>8
                DEF CopyInv, SearchNote, SearchWarning
      <3> QED BY <3>6, <3>7
    <2> QED BY <2>3, <2>4
  <1>7. CASE option = 2
    <2>1. save \in 1..Cells /\ test[save] = NUL /\ ~IsNote(buff)
      BY <1>1, <1>7 DEF CopyInv, SearchWarning, WarnTypes
    <2>2. /\ test' = test /\ save' = save /\ pc' = "fgets" /\ option' = 2 /\ ReportInv'
      BY <1>5, <1>7, <2>1 DEF Returns
    <2>3. WarnTypes'
      BY <1>1, <2>2 DEF WarnTypes
    <2> QED BY <1>1, <2>2, <2>3 DEF CopyInv, SearchNote, SearchWarning
  <1> QED BY <1>6, <1>7 DEF WarnTypes

LEMMA FgetsStep == ASSUME WarnInv, fgets PROVE WarnInv'
PROOF
  <1> USE DEF WarnInv
  <1>1. PICK l \in Lines : line' = Append(line, l) /\ test' = IF type = Mem THEN test ELSE Copy(l)
    BY DEF fgets
  <1>2. /\ pc = "fgets" /\ pc' = (IF type = Mem THEN "fgets" ELSE "first") /\ option' = 1
        /\ UNCHANGED <<type, save, sent>>
    BY DEF fgets
  <1>3. /\ line' \in Seq(Lines) /\ Len(line) \in Nat /\ Len(line') = Len(line) + 1
        /\ line'[Len(line')] = l /\ \A i \in 1..Len(line) : line'[i] = line[i]
    BY <1>1 DEF WarnTypes
  <1>4. buff' = l /\ line' # <<>>
    BY <1>3 DEF buff, Last
  <1>5. LineShape(l)
    BY LineFacts
  <1>6. ASSUME type # Mem
        PROVE  test' \in Copies /\ Holds(1)'
    <2>1. PICK n \in 1..Cells-1 : n = Len(l)
      BY <1>5 DEF LineShape
    <2>2. test' = [i \in 1..Cells |-> IF i <= n THEN l[i] ELSE IF i = n + 1 THEN NUL ELSE test[i]]
      BY <1>1, <1>6, <2>1 DEF Copy
    <2>3. \A i \in 1..n : l[i] \in Cell
      BY <1>5, <2>1, CellFacts DEF LineShape, Cell
    <2>4. \A i \in 1..Cells : test[i] \in Cell
      BY DEF WarnTypes, Copies, Cell
    <2>5. test' \in Copies
      BY <2>1, <2>2, <2>3, <2>4, CellFacts DEF Copies, Cell
    <2>6. test'[n+1] = NUL /\ \A i \in 1..n : test'[i] = l[i]
      BY <2>1, <2>2, CellFacts
    <2> QED BY <1>4, <2>1, <2>5, <2>6 DEF Holds
  <1>7. test' \in Copies
    BY <1>1, <1>6 DEF WarnTypes, Copies, Cell
  <1>8. WarnTypes'
    <2>1. DOMAIN line \subseteq DOMAIN line'
      BY <1>3 DEF WarnTypes
    <2> QED BY <1>2, <1>3, <1>7, <2>1 DEF WarnTypes, Copies, Cell
  <1>9. CopyInv'
    BY <1>2, <1>4, <1>6 DEF CopyInv, SearchNote, SearchWarning
  <1>10. ReportInv'
    <2>1. {i \in 1..Done' : type' # Mem /\ IsNote(line'[i])} = {i \in 1..Done : type # Mem /\ IsNote(line[i])}
      BY <1>2, <1>3 DEF Done
    <2> QED BY <1>2, <2>1 DEF ReportInv
  <1> QED BY <1>8, <1>9, <1>10

LEMMA SendStep == ASSUME WarnInv, socket_connect_udp PROVE WarnInv'
PROOF
  <1> USE DEF WarnInv
  <1>1. /\ pc = "send" /\ pc' = "fgets" /\ sent' = Append(sent, Datagram(buff))
        /\ test' = [i \in 1..Cells |-> NUL] /\ UNCHANGED <<type, line, option, save>>
    BY DEF socket_connect_udp
  <1>2. /\ type # Mem /\ line # <<>> /\ IsNote(buff)
        /\ Len(line) \in Nat \ {0} /\ buff = line[Len(line)]
    BY <1>1, BufferLine DEF CopyInv
  <1>3. PICK d : d = Datagram(buff) /\ d.line = Len(line) /\ d.ID = 100 + type
    <2>1. PICK t : Datagram(buff) = [line |-> Len(line), ID |-> 100 + type, text |-> t]
      BY Zenon DEF Datagram
    <2> QED BY <2>1
  <1>4. PICK S : sent \in Seq(S)
    BY DEF ReportInv
  <1>5. PICK m \in Nat : m = Len(sent) /\ DOMAIN sent = 1..m
    BY <1>4
  <1>6. /\ sent' \in Seq(S \cup {d}) /\ DOMAIN sent' = 1..m+1 /\ sent'[m+1] = d
        /\ \A j \in 1..m : sent'[j] = sent[j]
    BY <1>1, <1>3, <1>4, <1>5
  <1>7. PICK n \in Nat : n = Len(line) - 1 /\ n + 1 = Len(line)
    BY <1>2
  <1>8. \A j \in 1..m : sent[j].line \in 1..n /\ sent[j].line \in Int
    BY <1>1, <1>5, <1>7 DEF ReportInv, Done
  <1>9. {sent'[j].line : j \in DOMAIN sent'} = {i \in 1..Done' : type' # Mem /\ IsNote(line'[i])}
    <2>1. {sent'[j].line : j \in DOMAIN sent'} = {sent[j].line : j \in DOMAIN sent} \cup {n + 1}
      BY <1>3, <1>5, <1>6, <1>7
    <2>2. \A i : i \in 1..n+1 /\ IsNote(line[i]) <=> (i \in 1..n /\ IsNote(line[i])) \/ i = n + 1
      BY <1>2, <1>7
    <2>3. {i \in 1..n+1 : type # Mem /\ IsNote(line[i])} = {i \in 1..n : type # Mem /\ IsNote(line[i])} \cup {n + 1}
      BY <1>2, <2>2
    <2>4. Done = n /\ Done' = n + 1
      BY <1>1, <1>7 DEF Done
    <2> QED BY <1>1, <2>1, <2>3, <2>4 DEF ReportInv
  <1>10. \A j, k \in DOMAIN sent' : j < k => sent'[j].line < sent'[k].line
    <2> SUFFICES ASSUME NEW j \in 1..m+1, NEW k \in 1..m+1, j < k
                 PROVE  sent'[j].line < sent'[k].line
      BY <1>6
    <2>1. j \in 1..m /\ sent'[j] = sent[j] /\ sent[j].line \in 1..n
      BY <1>6, <1>8
    <2>2. CASE k = m + 1
      BY <1>3, <1>6, <1>7, <2>1, <2>2
    <2>3. CASE k # m + 1
      BY <1>5, <1>6, <2>1, <2>3 DEF ReportInv
    <2> QED BY <2>2, <2>3
  <1>11. \A j \in DOMAIN sent' : sent'[j].ID = 100 + type' /\ sent'[j].line \in DOMAIN line
    <2>1. ASSUME NEW j \in 1..m PROVE sent'[j].ID = 100 + type /\ sent'[j].line \in 1..Len(line)
      <3>1. sent'[j] = sent[j] /\ sent[j].ID = 100 + type
        BY <1>5, <1>6 DEF ReportInv
      <3>2. sent[j].line \in 1..n /\ 1..n \subseteq 1..Len(line)
        BY <1>7, <1>8
      <3> QED BY <3>1, <3>2
    <2>2. d.line \in 1..Len(line)
      BY <1>2, <1>3
    <2>3. DOMAIN line = 1..Len(line)
      BY DEF WarnTypes
    <2> QED BY <1>1, <1>3, <1>6, <2>1, <2>2, <2>3
  <1>12. WarnTypes'
    BY <1>1, <1>11, CellFacts DEF WarnTypes, Copies, Cell
  <1>13. CopyInv'
    BY <1>1 DEF CopyInv, SearchNote, SearchWarning
  <1> QED BY <1>6, <1>9, <1>10, <1>11, <1>12, <1>13 DEF ReportInv

StartOfRound == line = <<>> /\ sent = <<>> /\ pc = "fgets"

LEMMA EmptyRound == StartOfRound => CopyInv /\ ReportInv
PROOF
  <1> SUFFICES ASSUME StartOfRound PROVE CopyInv /\ ReportInv
    OBVIOUS
  <1>1. sent \in Seq({}) /\ DOMAIN sent = {} /\ 1..Done = {}
    BY DEF Done, StartOfRound
  <1> QED BY <1>1 DEF CopyInv, SearchNote, SearchWarning, ReportInv, StartOfRound

LEMMA EmptyRoundNext == StartOfRound' => CopyInv' /\ ReportInv'
BY EmptyRound, PTL

LEMMA WarnInit == Init => WarnInv
PROOF
  <1> SUFFICES ASSUME Init PROVE WarnInv
    OBVIOUS
  <1>1. CopyInv /\ ReportInv
    BY EmptyRound DEF Init, StartOfRound
  <1>2. WarnTypes
    BY CellFacts DEF Init, WarnTypes, Copies, Cell
  <1> QED BY <1>1, <1>2 DEF WarnInv

LEMMA WarnNext == WarnInv /\ [Next]_vars => WarnInv'
PROOF
  <1> SUFFICES ASSUME WarnInv, [Next]_vars PROVE WarnInv'
    OBVIOUS
  <1>1. CASE fgets
    BY <1>1, FgetsStep
  <1>2. CASE strtok_func
    BY <1>2, FirstWordStep, NextWordStep DEF strtok_func
  <1>3. CASE socket_connect_udp
    BY <1>3, SendStep
  <1>4. CASE NextRound
    <2>1. line' = <<>> /\ sent' = <<>> /\ pc' = "fgets" /\ option' = option /\ type' = type /\ save' = save
          /\ test' = [i \in 1..Cells |-> NUL]
      BY <1>4 DEF NextRound
    <2>2. WarnTypes'
      BY <2>1, CellFacts DEF WarnInv, WarnTypes, Copies, Cell
    <2> QED BY <2>1, <2>2, EmptyRoundNext DEF WarnInv, StartOfRound
  <1>5. CASE UNCHANGED vars
    BY <1>5 DEF vars, WarnInv, WarnTypes, CopyInv, SearchNote, SearchWarning, ReportInv, Done, Holds, Alone, buff, IsNote, EndsIn
  <1> QED BY <1>1, <1>2, <1>3, <1>4, <1>5 DEF Next

(***************************************************************************)
(* strtok puts its NULs in place of blanks of the line, and stops at its   *)
(* end: the NUL there is not a blank.                                      *)
(***************************************************************************)
InLine(i) == /\ test[Len(buff) + 1] = NUL
             /\ \A j \in 1..Len(buff) : test[j] = buff[j] \/ (test[j] = NUL /\ buff[j] = Blank)
             /\ i \in 1..Len(buff) + 1

CutInv == pc \in {"first", "next"} => CutAtBlanks

LEMMA StrtokInLine ==
  ASSUME WarnTypes, line # <<>>, NEW i \in Int, InLine(i),
         test' = strtok(i).test, save' = strtok(i).save, buff' = buff
  PROVE  CutAtBlanks'
PROOF
  <1>1. PICK n \in 1..Cells-1 : n = Len(buff)
    BY BufferLine DEF LineShape
  <1>2. i \in 1..Cells /\ n + 1 \in i..Cells /\ test[n+1] = NUL /\ test[n+1] # Blank
    BY <1>1, CellFacts DEF InLine
  <1>3. PICK k \in i..n+1 : test[k] # Blank /\ \A m \in i..k-1 : test[m] = Blank
    BY <1>2, SomeWord
  <1>4. Cut(i, k)
    <2>1. k \in i..Cells
      BY <1>1, <1>2, <1>3, CellFacts
    <2> QED BY <1>2, <1>3, <2>1, Strtok
  <1>5. CASE test[k] = NUL
    BY <1>1, <1>2, <1>3, <1>4, <1>5, CellFacts DEF Cut, CutAtBlanks, InLine
  <1>6. CASE test[k] # NUL /\ test[k+1] # Blank
    <2>1. test' = test /\ save' = k + 1 /\ k # n + 1
      BY <1>2, <1>4, <1>6 DEF Cut
    <2> QED BY <1>1, <1>2, <1>3, <2>1, CellFacts DEF CutAtBlanks, InLine
  <1>7. CASE test[k] # NUL /\ test[k+1] = Blank
    <2>1. test' = [test EXCEPT ![k+1] = NUL] /\ save' = k + 2 /\ k # n + 1 /\ k + 1 # n + 1
      BY <1>2, <1>4, <1>7 DEF Cut
    <2>2. k + 1 \in 1..n /\ buff[k+1] = Blank
      BY <1>1, <1>2, <1>3, <1>7, <2>1, CellFacts DEF InLine
    <2>3. k + 1 \in 1..Cells /\ n + 1 \in 1..Cells /\ 1..n \subseteq 1..Cells
      BY <1>1, <2>2, CellFacts
    <2> QED BY <1>1, <1>2, <2>1, <2>2, <2>3 DEF CutAtBlanks, InLine, WarnTypes, Copies
  <1> QED BY <1>5, <1>6, <1>7

LEMMA CutStep == ASSUME WarnInv, CutInv, strtok_func PROVE CutInv'
PROOF
  <1>1. line # <<>> /\ WarnTypes
    BY DEF WarnInv, CopyInv, strtok_func, FirstWord, NextWord
  <1>2. PICK n \in 1..Cells-1 : n = Len(buff)
    BY <1>1, BufferLine DEF LineShape
  <1>3. line' = line /\ buff' = buff
    BY DEF strtok_func, FirstWord, NextWord, buff
  <1>4. CASE FirstWord
    BY <1>1, <1>2, <1>3, <1>4, StrtokInLine DEF FirstWord, CutInv, CutAtBlanks, InLine
  <1>5. CASE NextWord
    <2>1. pc = "next" /\ test' = strtok(save).test /\ save' = strtok(save).save
      BY <1>5 DEF NextWord
    <2>2. save \in Int /\ InLine(save)
      BY <1>1, <1>2, <2>1, CellFacts DEF CutInv, CutAtBlanks, InLine, WarnTypes
    <2> QED BY <1>1, <1>3, <2>1, <2>2, StrtokInLine DEF CutInv
  <1> QED BY <1>4, <1>5 DEF strtok_func

LEMMA CutNext == WarnInv /\ CutInv /\ [Next]_vars => CutInv'
PROOF
  <1> SUFFICES ASSUME WarnInv, CutInv, [Next]_vars PROVE CutInv'
    OBVIOUS
  <1>1. CASE fgets
    <2>1. PICK l \in Lines : line' = Append(line, l) /\ test' = IF type = Mem THEN test ELSE Copy(l)
      BY <1>1 DEF fgets
    <2>2. buff' = l
      BY <2>1 DEF WarnInv, WarnTypes, buff, Last
    <2>3. PICK n \in 1..Cells-1 : n = Len(l)
      BY LineFacts DEF LineShape
    <2>4. CASE type = Mem
      BY <1>1, <2>4 DEF fgets, CutInv
    <2>5. CASE type # Mem
      <3>1. pc' = "first" /\ test' = [i \in 1..Cells |-> IF i <= n THEN l[i] ELSE IF i = n + 1 THEN NUL ELSE test[i]]
        BY <1>1, <2>1, <2>3, <2>5 DEF fgets, Copy
      <3>2. n + 1 \in 1..Cells /\ 1..n \subseteq 1..Cells
        BY <2>3, CellFacts
      <3> QED BY <2>2, <2>3, <3>1, <3>2 DEF CutInv, CutAtBlanks
    <2> QED BY <2>4, <2>5
  <1>2. CASE strtok_func
    BY <1>2, CutStep
  <1>3. CASE socket_connect_udp \/ NextRound
    BY <1>3 DEF socket_connect_udp, NextRound, CutInv
  <1>4. CASE UNCHANGED vars
    BY <1>4 DEF vars, CutInv, CutAtBlanks, buff
  <1> QED BY <1>1, <1>2, <1>3, <1>4 DEF Next

(***************************************************************************)
(* The types; and the searches never leave the copy of the line at hand,   *)
(* whatever longer line the buffer held before.                            *)
(***************************************************************************)
THEOREM TypeCorrect == Spec => []TypeOK
PROOF
  <1>1. WarnInv /\ CutInv => TypeOK
    BY DEF WarnInv, WarnTypes, CutInv, TypeOK, Copies, Cell
  <1>2. Init => CutInv
    BY DEF Init, CutInv
  <1> QED BY <1>1, <1>2, WarnInit, WarnNext, CutNext, PTL DEF Spec

(***************************************************************************)
(* Whatever a script prints, exactly the lines with note as their last     *)
(* word, but not as their only one, are reported, once and in order.       *)
(***************************************************************************)
THEOREM NotesReported == Spec => []ReportsNotes
PROOF
  <1>1. WarnInv => ReportsNotes
    <2> SUFFICES ASSUME WarnInv, pc = "fgets" PROVE ReportsNotes
      BY DEF ReportsNotes
    <2>1. DOMAIN line = 1..Done
      BY DEF WarnInv, WarnTypes, Done
    <2> QED BY <2>1 DEF WarnInv, ReportInv, ReportsNotes
  <1> QED BY <1>1, WarnInit, WarnNext, PTL DEF Spec

-----------------------------------------------------------------------------
(***************************************************************************)
(* get_conf_value.                                                         *)
(***************************************************************************)
Symbols == STRING \cup {"=", "\n"}
Chars == Seq(Symbols)

LEMMA MinOf ==
  ASSUME NEW S \in SUBSET Nat, S # {}
  PROVE  Min(S) \in S /\ \A y \in S : Min(S) <= y
PROOF
  <1>1. \E x \in S : \A y \in S : x <= y
    BY LeastNumber
  <1> QED BY <1>1 DEF Min

(***************************************************************************)
(* strstr finds a key if and where it first occurs.                        *)
(***************************************************************************)
LEMMA Strstr ==
  ASSUME NEW l \in Chars, NEW key \in Chars
  PROVE  LET places == {i \in 1..(Len(l) - Len(key) + 1) : OccursAt(l, key, i)}
         IN  /\ places = {} => strstr(l, key) = 0
             /\ places # {} => strstr(l, key) \in places /\ \A i \in places : strstr(l, key) <= i
PROOF
  <1> DEFINE places == {i \in 1..(Len(l) - Len(key) + 1) : OccursAt(l, key, i)}
  <1>1. strstr(l, key) = IF places = {} THEN 0 ELSE Min(places)
    BY DEF strstr
  <1>2. places \in SUBSET Nat
    BY DEF Chars
  <1> HIDE DEF places
  <1>3. places # {} => Min(places) \in places /\ \A i \in places : Min(places) <= i
    BY <1>2, MinOf
  <1> QED BY <1>1, <1>3 DEF places

(***************************************************************************)
(* A line that counts has the key followed by "=".                         *)
(***************************************************************************)
LEMMA MatchMentions ==
  ASSUME NEW l \in Chars, NEW key \in Chars, Matches(l, key)
  PROVE  strstr(l, key \o <<"=">>) > 0
PROOF
  <1> DEFINE key2 == key \o <<"=">>
             k == Len(key)
             n == Len(l)
  <1>1. k \in Nat /\ n \in Nat /\ key2 \in Chars /\ Len(key2) = k + 1
    <2>1. <<"=">> \in Chars /\ Len(<<"=">>) = 1 /\ k \in Nat /\ n \in Nat
      BY DEF Chars, Symbols
    <2> QED BY <2>1, ConcatProperties DEF Chars
  <1>2. PICK s \in 1..(n - k + 1) : s = strstr(l, key) /\ OccursAt(l, key, s)
    BY <1>1, Strstr DEF Matches
  <1>3. s + k <= n /\ l[s + k] = "="
    <2>1. CharAt(l, s + k) = "="
      BY <1>2 DEF Matches
    <2> QED BY <1>1, <1>2, <2>1 DEF CharAt
  <1>4. \A i \in 1..k : l[s + i - 1] = key[i]
    <2>1. SubSeq(l, s, s + k - 1) = key
      BY <1>2 DEF OccursAt
    <2>2. \A i \in 1..k : SubSeq(l, s, s + k - 1)[i] = l[s + i - 1]
      BY <1>1, <1>2, <1>3 DEF Chars
    <2> QED BY <2>1, <2>2
  <1>5. OccursAt(l, key2, s)
    <2> DEFINE sub == SubSeq(l, s, s + k)
    <2>1. sub \in Chars /\ Len(sub) = k + 1 /\ \A i \in 1..k+1 : sub[i] = l[s + i - 1]
      BY <1>1, <1>2, <1>3 DEF Chars
    <2>2. \A i \in 1..k+1 : key2[i] = IF i <= k THEN key[i] ELSE "="
      BY <1>1 DEF Chars
    <2>3. \A i \in 1..k+1 : sub[i] = key2[i]
      <3> SUFFICES ASSUME NEW i \in 1..k+1 PROVE l[s + i - 1] = key2[i]
        BY <2>1
      <3>1. CASE i \in 1..k
        BY <1>1, <1>4, <2>2, <3>1
      <3>2. CASE i = k + 1
        <4>1. s + i - 1 = s + k /\ ~(i <= k)
          BY <1>1, <1>2, <3>2
        <4> QED BY <1>3, <2>2, <4>1
      <3> QED BY <1>1, <3>1, <3>2
    <2>4. sub = key2
      <3> HIDE DEF sub, key2
      <3> QED BY <1>1, <2>1, <2>3, SeqEqual DEF Chars
    <2>5. s + Len(key2) - 1 = s + k
      BY <1>1, <1>2
    <2> QED BY <2>4, <2>5 DEF OccursAt
  <1>6. s \in 1..(n - Len(key2) + 1)
    BY <1>1, <1>2, <1>3
  <1> HIDE DEF key2, n
  <1>7. strstr(l, key2) \in 1..(n - Len(key2) + 1)
    BY <1>1, <1>5, <1>6, Strstr DEF n
  <1> QED BY <1>1, <1>7 DEF key2, n

(***************************************************************************)
(* The line of an entry, and what a line of the key itself leaves in value *)
(* when that is empty.                                                     *)
(***************************************************************************)
Entry == [name : Seq(STRING), value : Seq(STRING), newline : BOOLEAN]

LEMMA TextOf ==
  ASSUME NEW e \in Entry
  PROVE  Text(e) \in Chars
PROOF
  <1>1. /\ e.name \in Chars /\ e.value \in Chars /\ <<"=">> \in Chars
        /\ (IF e.newline THEN <<"\n">> ELSE <<>>) \in Chars
    <2>1. e.name \in Seq(STRING) /\ e.value \in Seq(STRING)
      BY DEF Entry
    <2>2. (IF e.newline THEN <<"\n">> ELSE <<>>) \in Chars
      <3>1. CASE e.newline
        BY <3>1 DEF Chars, Symbols
      <3>2. CASE ~e.newline
        BY <3>2 DEF Chars
      <3> QED BY <3>1, <3>2
    <2>3. e.name \in Chars /\ e.value \in Chars /\ <<"=">> \in Chars
      BY <2>1 DEF Chars, Symbols
    <2> QED BY <2>2, <2>3
  <1> QED BY <1>1, ConcatProperties DEF Text, Chars

LEMMA Appended ==
  ASSUME NEW S, NEW u \in Seq(S), NEW x \in S, NEW k \in Nat, k = Len(u)
  PROVE  /\ u \o <<x>> \in Seq(S) /\ Len(u \o <<x>>) = k + 1 /\ (u \o <<x>>)[k + 1] = x
         /\ \A i \in 1..k : (u \o <<x>>)[i] = u[i]
PROOF
  <1>1. u \o <<x>> = Append(u, x)
    BY AppendIsConcat
  <1>2. /\ Append(u, x) \in Seq(S) /\ Len(Append(u, x)) = k + 1 /\ Append(u, x)[k + 1] = x
        /\ \A i \in 1..k : Append(u, x)[i] = u[i]
    BY AppendProperties
  <1> QED BY <1>1, <1>2, Zenon

LEMMA Joined ==
  ASSUME NEW S, NEW u \in Seq(S), NEW v \in Seq(S)
  PROVE  /\ u \o v \in Seq(S) /\ Len(u \o v) = Len(u) + Len(v)
         /\ \A i \in 1..Len(u) : (u \o v)[i] = u[i]
         /\ \A i \in 1..Len(v) : (u \o v)[Len(u) + i] = v[i]
PROOF
  <1>1. PICK k \in Nat, m \in Nat : k = Len(u) /\ m = Len(v)
    OBVIOUS
  <1>2. /\ u \o v \in Seq(S) /\ Len(u \o v) = k + m
        /\ \A i \in 1..k+m : (u \o v)[i] = IF i <= k THEN u[i] ELSE v[i - k]
    BY <1>1, ConcatProperties
  <1>3. ASSUME NEW i \in 1..k PROVE (u \o v)[i] = u[i]
    BY <1>2
  <1>4. ASSUME NEW i \in 1..m PROVE (u \o v)[k + i] = v[i]
    <2>1. k + i \in 1..k+m /\ ~(k + i <= k) /\ k + i - k = i
      OBVIOUS
    <2> QED BY <1>2, <2>1
  <1> QED BY <1>1, <1>2, <1>3, <1>4

LEMMA FourParts ==
  ASSUME NEW S, NEW u \in Seq(S), NEW v \in Seq(S), NEW x \in S, NEW y \in S,
         NEW k \in Nat, NEW m \in Nat, k = Len(u), m = Len(v)
  PROVE  LET l == u \o <<x>> \o v \o <<y>>
         IN  /\ Len(l) = k + m + 2 /\ l[k + 1] = x /\ l[k + m + 2] = y
             /\ \A i \in 1..k : l[i] = u[i]
             /\ \A i \in 1..m : l[k + 1 + i] = v[i]
PROOF
  <1>1. PICK a \in Seq(S) : a = u \o <<x>>
    BY Appended
  <1>2. Len(a) = k + 1 /\ a[k + 1] = x /\ \A i \in 1..k : a[i] = u[i]
    BY <1>1, Appended
  <1>3. PICK b \in Seq(S) : b = a \o v
    BY Joined
  <1>4. /\ Len(b) = Len(a) + Len(v)
        /\ \A i \in 1..Len(a) : b[i] = a[i]
        /\ \A i \in 1..Len(v) : b[Len(a) + i] = v[i]
    BY <1>3, Joined
  <1>5. Len(b) = k + 1 + m /\ k + 1 + m \in Nat
    BY <1>2, <1>4
  <1>6. PICK c \in Seq(S) : c = b \o <<y>>
    BY <1>5, Appended
  <1>7. /\ Len(c) = k + 1 + m + 1 /\ c[k + 1 + m + 1] = y
        /\ \A i \in 1..k+1+m : c[i] = b[i]
    BY <1>5, <1>6, Appended
  <1>8. Len(c) = k + m + 2 /\ c[k + m + 2] = y
    <2>1. k + 1 + m + 1 = k + m + 2
      OBVIOUS
    <2> QED BY <1>7, <2>1
  <1>9. c[k + 1] = x
    <2>1. k + 1 \in 1..k+1 /\ k + 1 \in 1..k+1+m
      OBVIOUS
    <2> QED BY <1>2, <1>4, <1>7, <2>1
  <1>10. ASSUME NEW i \in 1..k PROVE c[i] = u[i]
    BY <1>2, <1>4, <1>7
  <1>11. ASSUME NEW i \in 1..m PROVE c[k + 1 + i] = v[i]
    <2>1. k + 1 + i \in 1..k+1+m
      OBVIOUS
    <2> QED BY <1>2, <1>4, <1>7, <2>1
  <1>12. c = u \o <<x>> \o v \o <<y>>
    BY <1>1, <1>3, <1>6
  <1> QED BY <1>8, <1>9, <1>10, <1>11, <1>12, Zenon

LEMMA OwnLine ==
  ASSUME NEW e \in Entry, e.newline
  PROVE  Matches(Text(e), e.name) /\ Overwrite(<<>>, Rest(Text(e), e.name)) = e.value
PROOF
  <1> DEFINE l == Text(e)
             key == e.name
             v == e.value
             k == Len(key)
             m == Len(v)
  <1>1. key \in Chars /\ v \in Chars /\ v \in Seq(STRING) /\ l \in Chars
    BY TextOf DEF Entry, Chars, Symbols
  <1>2. k \in Nat /\ m \in Nat
    BY <1>1 DEF Chars
  <1>3. /\ Len(l) = k + m + 2 /\ l[k + 1] = "=" /\ l[k + m + 2] = "\n"
        /\ \A i \in 1..k : l[i] = key[i]
        /\ \A i \in 1..m : l[k + 1 + i] = v[i]
    <2>1. l = key \o <<"=">> \o v \o <<"\n">>
      BY DEF Text
    <2> HIDE DEF l, key, v
    <2> QED BY <1>1, <1>2, <2>1, FourParts DEF Chars, Symbols
  <1> HIDE DEF l, v, key
  <1>4. strstr(l, key) = 1
    <2>1. SubSeq(l, 1, k) = key
      <3> DEFINE sub == SubSeq(l, 1, k)
      <3>1. sub \in Chars /\ Len(sub) = k /\ \A i \in 1..k : sub[i] = l[i]
        BY <1>1, <1>2, <1>3 DEF Chars
      <3> HIDE DEF sub
      <3>2. sub = key
        BY <1>1, <1>3, <3>1, SeqEqual DEF Chars
      <3> QED BY <3>2 DEF sub
    <2>2. OccursAt(l, key, 1)
      BY <1>2, <2>1 DEF OccursAt
    <2>3. 1 \in 1..(Len(l) - k + 1)
      BY <1>2, <1>3
    <2>4. strstr(l, key) \in 1..(Len(l) - k + 1) /\ strstr(l, key) <= 1
      BY <1>1, <2>2, <2>3, Strstr
    <2> QED BY <2>4
  <1>5. Matches(l, key)
    BY <1>2, <1>3, <1>4 DEF Matches, CharAt
  <1> DEFINE r == Rest(l, key)
  <1>6. r = SubSeq(l, k + 2, k + m + 2)
    BY <1>2, <1>3, <1>4 DEF Rest
  <1>7. r \in Chars /\ Len(r) = m + 1 /\ \A i \in 1..m : r[i] = v[i]
    <2>1. r \in Chars /\ Len(r) = m + 1 /\ \A i \in 1..m+1 : r[i] = l[k + 2 + i - 1]
      BY <1>1, <1>2, <1>3, <1>6, SubSeqProperties DEF Chars
    <2>2. \A i \in 1..m : k + 2 + i - 1 = k + 1 + i
      BY <1>2
    <2> QED BY <1>2, <1>3, <2>1, <2>2
  <1> HIDE DEF r
  <1>8. Overwrite(<<>>, r) = SubSeq(r, 1, m) \o SubSeq(<<>>, m + 1, 0)
    <2>1. r # <<>> /\ Len(r) - 1 = m /\ Len(<<>>) = 0
      BY <1>2, <1>7
    <2> QED BY <2>1 DEF Overwrite
  <1>9. SubSeq(<<>>, m + 1, 0) = <<>>
    BY <1>2
  <1>10. SubSeq(r, 1, m) = v
    <2> DEFINE sub == SubSeq(r, 1, m)
    <2>1. sub \in Chars /\ Len(sub) = m /\ \A i \in 1..m : sub[i] = r[i]
      BY <1>2, <1>7 DEF Chars
    <2> HIDE DEF sub
    <2>2. sub = v
      BY <1>1, <1>7, <2>1, SeqEqual DEF Chars
    <2> QED BY <2>2 DEF sub
  <1>11. v \o <<>> = v
    BY <1>1, ConcatEmptySeq DEF Chars
  <1> QED BY <1>5, <1>8, <1>9, <1>10, <1>11 DEF r, l, key, v

(***************************************************************************)
(* After any number of lines: value is empty if none has had the key and   *)
(* "=" in it, and is the key's if one only has, which is its own.          *)
(***************************************************************************)
OnlyOwn(i, n) ==
  /\ Mentions(file[i]) /\ \A j \in 1..n : j # i => ~Mentions(file[j])
  /\ file[i].name = Key /\ file[i].newline

ReadInv ==
  /\ file \in Seq(Entry) /\ next \in 1..Len(file)+1
  /\ (\A i \in 1..next-1 : ~Mentions(file[i])) => value = <<>>
  /\ \A i \in 1..next-1 : OnlyOwn(i, next - 1) => value = file[i].value

LEMMA ReadInit == ASSUME ConfInit PROVE ReadInv
BY ConfigAssumption DEF ConfInit, ReadInv, Entry

LEMMA ReadNext == ASSUME ReadInv, [ConfNext]_confVars PROVE ReadInv'
PROOF
  <1>1. CASE UNCHANGED <<file, next, value>>
    BY <1>1 DEF ReadInv, OnlyOwn, Mentions
  <1>2. CASE getline
    <2>1. PICK n \in Nat \ {0} : n = next
      BY DEF ReadInv
    <2>2. /\ n \in 1..Len(file) /\ next' = n + 1 /\ file' = file /\ file \in Seq(Entry)
      BY <1>2, <2>1 DEF getline, ReadInv
    <2>3. PICK e \in Entry : e = file[n]
      BY <2>2
    <2>4. value' = IF Matches(Text(e), Key)
                   THEN Overwrite(value, Rest(Text(e), Key)) ELSE value
      BY <1>2, <2>1, <2>3 DEF getline
    <2>5. ASSUME ~Mentions(e) PROVE value' = value
      <3>1. Key \in Chars /\ Text(e) \in Chars
        BY TextOf, ConfigAssumption DEF Chars, Symbols
      <3>2. ~Matches(Text(e), Key)
        BY <2>5, <3>1, MatchMentions DEF Mentions
      <3> QED BY <2>4, <3>2
    <2>6. \A i : i \in 1..n <=> i \in 1..n-1 \/ i = n
      BY <2>1
    <2>7. ASSUME \A i \in 1..n : ~Mentions(file[i])
          PROVE  value' = <<>>
      BY <2>1, <2>3, <2>5, <2>6, <2>7 DEF ReadInv
    <2>8. ASSUME NEW i \in 1..n, OnlyOwn(i, n)
          PROVE  value' = file[i].value
      <3>1. CASE i = n
        <4>1. value = <<>>
          BY <2>1, <2>6, <2>8, <3>1 DEF ReadInv, OnlyOwn
        <4>2. e.newline /\ e.name = Key
          BY <2>3, <2>8, <3>1 DEF OnlyOwn
        <4> QED BY <2>3, <2>4, <3>1, <4>1, <4>2, OwnLine
      <3>2. CASE i # n
        <4>1. i \in 1..n-1 /\ OnlyOwn(i, n - 1)
          BY <2>6, <2>8, <3>2 DEF OnlyOwn
        <4>2. ~Mentions(e)
          BY <2>2, <2>3, <2>8, <3>2 DEF OnlyOwn
        <4> QED BY <2>1, <2>5, <4>1, <4>2 DEF ReadInv
      <3> QED BY <3>1, <3>2
    <2>9. next' \in 1..Len(file')+1 /\ next' - 1 = n
      BY <2>1, <2>2
    <2>10. \A i : OnlyOwn(i, n)' <=> OnlyOwn(i, n)
      BY <2>2 DEF OnlyOwn, Mentions
    <2>11. \A i : Mentions(file'[i]) <=> Mentions(file[i])
      BY <2>2
    <2>12. (\A i \in 1..next'-1 : ~Mentions(file'[i])) => value' = <<>>
      BY <2>7, <2>9, <2>11
    <2>13. \A i \in 1..next'-1 : OnlyOwn(i, next - 1)' => value' = file'[i].value
      BY <2>2, <2>8, <2>9, <2>10
    <2> QED BY <2>2, <2>9, <2>12, <2>13 DEF ReadInv
  <1> QED BY <1>1, <1>2 DEF ConfNext, confVars

(***************************************************************************)
(* In a file of any length: a name given once, on a line with a newline,   *)
(* is read right if name and "=" occur on no other line, and a name that   *)
(* "=" follows nowhere has the empty value.                                *)
(***************************************************************************)
THEOREM NameIsRead == ConfSpec => []UnambiguousNameRead
PROOF
  <1>1. ReadInv => UnambiguousNameRead
    <2> SUFFICES ASSUME ReadInv, next > Len(file) PROVE UnambiguousNameRead
      BY DEF UnambiguousNameRead, Read
    <2>1. next - 1 = Len(file) /\ Len(file) \in Nat
      BY DEF ReadInv
    <2> DEFINE lines == {i \in 1..Len(file) : Mentions(file[i])}
    <2>2. lines = {} => value = <<>>
      BY <2>1 DEF ReadInv
    <2>3. ASSUME NEW i \in lines, lines = {i}, file[i].name = Key, file[i].newline
          PROVE  value = file[i].value
      <3>1. OnlyOwn(i, Len(file))
        BY <2>3 DEF OnlyOwn
      <3> QED BY <2>1, <3>1 DEF ReadInv
    <2> QED BY <2>2, <2>3 DEF UnambiguousNameRead
  <1> QED BY <1>1, ReadInit, ReadNext, PTL DEF ConfSpec, confVars
===============================================================================
