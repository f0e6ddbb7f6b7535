---------------------------- MODULE ClientLogProofs ----------------------------
(***************************************************************************)
(* Proofs about ClientLog, for any number of rounds, requests and kills.   *)
(***************************************************************************)
EXTENDS ClientLog, SequenceTheorems, TLAPS

(***************************************************************************)
(* The inductive invariant.  TypeOK bounds lines; that texts are sequences *)
(* of them is said here.                                                   *)
(***************************************************************************)
Text == Seq(Nat)

SeqType ==
  /\ buffer \in Text /\ copy \in Text /\ reading \in Text
  /\ text \in [Texts -> Text] /\ zip \in Seq(Text)
  /\ unlinked \in BOOLEAN /\ replied \in BOOLEAN
  /\ LinesOf(copy) \subseteq 1..made /\ LinesOf(reading) \subseteq 1..made

(***************************************************************************)
(* What the script has open is the file of that name, unless the server    *)
(* removed it meanwhile.                                                   *)
(***************************************************************************)
OpenIsNamed ==
  /\ wpc = "write" /\ ~unlinked => "log" \in files
  /\ wpc = "zwrite" => (unlinked <=> "back" \notin files)

(***************************************************************************)
(* Nothing empty is ever compressed: a log found too large may be removed, *)
(* but what unback puts in its place is not empty either.                  *)
(***************************************************************************)
NeverEmpty ==
  /\ wpc = "backup" /\ "log" \in files => text["log"] # <<>>
  /\ wpc \in {"zopen", "zwrite"} => copy # <<>>
  /\ "back" \in files /\ wpc # "zwrite" /\ ~cut => zip # <<>>

(***************************************************************************)
(* The server's file exists from the moment it has been found or written.  *)
(***************************************************************************)
ServerFile == FileStillThere /\ (spc = "rmback" => BLog \in files)

LogInv == TypeOK /\ SeqType /\ OpenIsNamed /\ NeverEmpty /\ ServerFile

-----------------------------------------------------------------------------
(***************************************************************************)
(* LinesOf and the operations on sequences the files are changed with.     *)
(***************************************************************************)
LEMMA LinesEmpty == ASSUME NEW S PROVE <<>> \in Seq(S) /\ LinesOf(<<>>) = {}
BY DEF LinesOf

LEMMA LinesConcat ==
  ASSUME NEW S, NEW s \in Seq(S), NEW t \in Seq(S)
  PROVE  s \o t \in Seq(S) /\ LinesOf(s \o t) = LinesOf(s) \cup LinesOf(t)
PROOF
  <1>1. s \o t \in Seq(S) /\ Len(s \o t) = Len(s) + Len(t) /\ Len(s) \in Nat /\ Len(t) \in Nat
    BY ConcatProperties, LenProperties
  <1>2. \A i \in 1..Len(s)+Len(t) :
          (s \o t)[i] = IF i <= Len(s) THEN s[i] ELSE t[i - Len(s)]
    BY ConcatProperties
  <1>3. ASSUME NEW i \in 1..Len(t) PROVE t[i] \in LinesOf(s \o t)
    <2>1. i + Len(s) \in 1..Len(s \o t) /\ (s \o t)[i + Len(s)] = t[i]
      BY <1>1, <1>2
    <2> QED BY <2>1 DEF LinesOf
  <1>4. ASSUME NEW i \in 1..Len(s) PROVE s[i] \in LinesOf(s \o t)
    <2>1. i \in 1..Len(s \o t) /\ (s \o t)[i] = s[i]
      BY <1>1, <1>2
    <2> QED BY <2>1 DEF LinesOf
  <1>5. ASSUME NEW i \in 1..Len(s \o t) PROVE (s \o t)[i] \in LinesOf(s) \cup LinesOf(t)
    <2>1. CASE i <= Len(s)
      BY <2>1, <1>1, <1>2 DEF LinesOf
    <2>2. CASE i > Len(s)
      <3>1. i - Len(s) \in 1..Len(t) /\ (s \o t)[i] = t[i - Len(s)]
        BY <2>2, <1>1, <1>2
      <3> QED BY <3>1 DEF LinesOf
    <2> QED BY <2>1, <2>2, <1>1
  <1> QED BY <1>1, <1>3, <1>4, <1>5 DEF LinesOf

LEMMA LinesAppend ==
  ASSUME NEW S, NEW s \in Seq(S), NEW x \in S
  PROVE  /\ Append(s, x) \in Seq(S) /\ Append(s, x) # <<>>
         /\ LinesOf(Append(s, x)) = LinesOf(s) \cup {x}
PROOF
  <1>1. /\ Append(s, x) \in Seq(S) /\ Len(Append(s, x)) = Len(s) + 1 /\ Len(s) \in Nat
        /\ \A i \in 1..Len(s) : Append(s, x)[i] = s[i]
        /\ Append(s, x)[Len(s) + 1] = x
    BY AppendProperties, LenProperties
  <1>2. 1..Len(s)+1 = 1..Len(s) \cup {Len(s) + 1}
    BY <1>1
  <1>3. Append(s, x) # <<>>
    BY <1>1, EmptySeq
  <1> QED BY <1>1, <1>2, <1>3 DEF LinesOf

LEMMA LinesPrefix ==
  ASSUME NEW S, NEW s \in Seq(S), NEW n \in 0..Len(s)
  PROVE  SubSeq(s, 1, n) \in Seq(S) /\ LinesOf(SubSeq(s, 1, n)) \subseteq LinesOf(s)
PROOF
  <1>1. Len(s) \in Nat /\ \A i \in 1..n : i \in 1..Len(s) /\ s[i] \in S
    BY LenProperties, ElementOfSeq
  <1>2. /\ SubSeq(s, 1, n) \in Seq(S) /\ Len(SubSeq(s, 1, n)) = n
        /\ \A i \in 1..n : SubSeq(s, 1, n)[i] = s[i]
    BY <1>1, SubSeqProperties
  <1> QED BY <1>1, <1>2 DEF LinesOf

LEMMA LinesHead ==
  ASSUME NEW S, NEW s \in Seq(S), s # <<>>
  PROVE  Head(s) \in S /\ Head(s) \in LinesOf(s)
PROOF
  <1>1. Len(s) \in Nat \ {0} /\ Head(s) = s[1]
    BY LenProperties, EmptySeq, HeadTailProperties
  <1> QED BY <1>1, ElementOfSeq DEF LinesOf

-----------------------------------------------------------------------------
LEMMA LogInit == Init => LogInv
PROOF
  <1> SUFFICES ASSUME Init PROVE LogInv
    OBVIOUS
  <1> USE ClientLogAssumption, LinesEmpty DEF Init
  <1>1. BLog \in Texts /\ "log" \in Texts /\ \A f \in Texts : text[f] = <<>>
    BY DEF Texts
  <1>2. SeqType
    BY <1>1 DEF SeqType, Text
  <1>3. cut \in BOOLEAN /\ LinesOf(zip) = {} /\ LinesOf(buffer) = {}
        /\ \A f \in Texts : LinesOf(text[f]) = {}
    BY <1>1
  <1>4. TypeOK
    BY <1>1, <1>3 DEF TypeOK
  <1> QED BY <1>2, <1>4 DEF LogInv, OpenIsNamed, NeverEmpty, ServerFile, FileStillThere

(***************************************************************************)
(* Facts about names that every step uses.                                 *)
(***************************************************************************)
LEMMA Names ==
  TypeOK => /\ "log" \in Texts /\ BLog \in Texts /\ "back" \notin Texts
            /\ made \in Nat /\ born \in Nat /\ 1..made \subseteq Nat /\ File_Size \in Nat \ {0}
BY ClientLogAssumption DEF TypeOK, Texts

(***************************************************************************)
(* popen_script.                                                           *)
(***************************************************************************)
LEMMA RunStep ==
  ASSUME LogInv, RunScript, UNCHANGED BLog, UNCHANGED killVars
  PROVE  LogInv'
PROOF
  <1> USE DEF RunScript, killVars, fileVars, serverVars
  <1>1. /\ made \in Nat /\ born \in 0..made /\ made' = made + 1 /\ made' \in 0..MaxLines
        /\ 1..made \subseteq 1..made' /\ 1..made' = 1..made \cup {made'}
    BY ClientLogAssumption DEF LogInv, TypeOK
  <1>2. buffer' \in Text /\ LinesOf(buffer') = LinesOf(buffer) \cup {made'}
    <2>1. buffer \in Seq(Nat) /\ made' \in Nat
      BY <1>1 DEF LogInv, SeqType, Text
    <2> QED BY <2>1, LinesAppend DEF Text
  <1>3. wpc' \in {"open", "run"}
    OBVIOUS
  <1>4. TypeOK'
    BY <1>1, <1>2, <1>3 DEF LogInv, TypeOK
  <1>5. SeqType'
    BY <1>1, <1>2 DEF LogInv, SeqType
  <1>7. OpenIsNamed' /\ NeverEmpty' /\ ServerFile'
    BY <1>3 DEF LogInv, OpenIsNamed, NeverEmpty, ServerFile, FileStillThere
  <1> QED BY <1>4, <1>5, <1>7 DEF LogInv

LEMMA EndStep ==
  ASSUME LogInv, ScriptEnds, UNCHANGED BLog, UNCHANGED killVars
  PROVE  LogInv'
PROOF
  <1> USE LinesEmpty DEF ScriptEnds, killVars, fileVars, serverVars
  <1>1. TypeOK' /\ SeqType'
    BY DEF LogInv, TypeOK, SeqType, Text
  <1>2. OpenIsNamed' /\ NeverEmpty' /\ ServerFile'
    BY DEF LogInv, OpenIsNamed, NeverEmpty, ServerFile, FileStillThere
  <1> QED BY <1>1, <1>2 DEF LogInv

LEMMA OpenStep ==
  ASSUME LogInv, OpenLog \/ BackupOpen, UNCHANGED BLog, UNCHANGED killVars
  PROVE  LogInv'
PROOF
  <1> USE DEF OpenLog, BackupOpen, killVars, serverVars
  <1>1. TypeOK'
    BY Names DEF LogInv, TypeOK
  <1>2. SeqType'
    BY DEF LogInv, SeqType
  <1>3. OpenIsNamed' /\ NeverEmpty' /\ ServerFile'
    BY DEF LogInv, OpenIsNamed, NeverEmpty, ServerFile, FileStillThere
  <1> QED BY <1>1, <1>2, <1>3 DEF LogInv

LEMMA WriteStep ==
  ASSUME LogInv, WriteLog, UNCHANGED BLog, UNCHANGED killVars
  PROVE  LogInv'
PROOF
  <1> USE DEF WriteLog, killVars, serverVars
  <1>1. /\ text["log"] \o buffer \in Text
        /\ LinesOf(text["log"] \o buffer) \subseteq 1..made
    BY Names, LinesConcat DEF LogInv, TypeOK, SeqType, Text
  <1>2. unlinked \/ "log" \in files
    BY DEF LogInv, OpenIsNamed
  <1>3. \A f \in Texts :
          \/ text'[f] = text[f]
          \/ f = "log" /\ f \in files /\ text'[f] = text["log"] \o buffer
    BY <1>2, Names DEF LogInv, TypeOK, SeqType
  <1>4. DOMAIN text' = Texts /\ text' \in [Texts -> Text]
    BY <1>1, Names DEF LogInv, TypeOK, SeqType
  <1>5. TypeOK'
    BY <1>1, <1>3, <1>4 DEF LogInv, TypeOK
  <1>6. SeqType'
    BY <1>4 DEF LogInv, SeqType
  <1>7. OpenIsNamed' /\ NeverEmpty' /\ ServerFile'
    BY DEF LogInv, OpenIsNamed, NeverEmpty, ServerFile, FileStillThere
  <1> QED BY <1>5, <1>6, <1>7 DEF LogInv

LEMMA SizeStep ==
  ASSUME LogInv, file_size \/ BackupRead, UNCHANGED BLog, UNCHANGED killVars
  PROVE  LogInv'
PROOF
  <1> USE DEF file_size, BackupRead, killVars, serverVars, fileVars
  <1>1. /\ copy' \in Text /\ LinesOf(copy') \subseteq 1..made
        /\ wpc' = "backup" => Len(text["log"]) >= File_Size
    BY Names DEF LogInv, TypeOK, SeqType
  <1>2. wpc' = "backup" => text["log"] # <<>>
    BY <1>1, Names, EmptySeq DEF LogInv
  <1>3. TypeOK' /\ SeqType'
    BY <1>1 DEF LogInv, TypeOK, SeqType
  <1>4. OpenIsNamed' /\ NeverEmpty' /\ ServerFile'
    BY <1>2 DEF LogInv, OpenIsNamed, NeverEmpty, ServerFile, FileStillThere
  <1> QED BY <1>3, <1>4 DEF LogInv

LEMMA BackupWriteStep ==
  ASSUME LogInv, BackupWrite, UNCHANGED BLog, UNCHANGED killVars
  PROVE  LogInv'
PROOF
  <1> USE DEF BackupWrite, killVars, serverVars
  <1>1. /\ Append(zip, copy) \in Seq(Text) /\ Append(zip, copy) # <<>>
        /\ LinesOf(Append(zip, copy)) = LinesOf(zip) \cup {copy}
    BY LinesAppend DEF LogInv, SeqType
  <1>2. copy # Torn /\ LinesOf(copy) \subseteq 1..made /\ (unlinked <=> "back" \notin files)
    BY DEF LogInv, NeverEmpty, OpenIsNamed, SeqType, Torn
  <1>3. copy' = <<>> /\ copy' \in Text /\ LinesOf(copy') = {}
    BY LinesEmpty DEF Text
  <1>4. TypeOK'
    BY <1>1, <1>2 DEF LogInv, TypeOK
  <1>5. SeqType'
    BY <1>1, <1>3 DEF LogInv, SeqType
  <1>6. OpenIsNamed' /\ NeverEmpty' /\ ServerFile'
    BY <1>1, <1>2 DEF LogInv, OpenIsNamed, NeverEmpty, ServerFile, FileStillThere
  <1> QED BY <1>4, <1>5, <1>6 DEF LogInv

(***************************************************************************)
(* ctrl_server.                                                            *)
(***************************************************************************)
LEMMA ServerStep ==
  ASSUME LogInv, Receive \/ TakeLog \/ OpenTarget \/ Send \/ GiveUp, UNCHANGED BLog, UNCHANGED killVars
  PROVE  LogInv'
PROOF
  <1> USE DEF Receive, TakeLog, OpenTarget, Send, GiveUp, killVars, scriptVars, fileVars
  <1>1. reading' \in Text /\ LinesOf(reading') \subseteq 1..made /\ replied' \in BOOLEAN
    <2>1. <<>> \in Text /\ LinesOf(<<>>) = {}
      BY LinesEmpty DEF Text
    <2>2. \A f \in Texts : text[f] \in Text /\ LinesOf(text[f]) \subseteq 1..made
      BY DEF LogInv, TypeOK, SeqType
    <2>3. target \in Texts
      BY DEF LogInv, TypeOK
    <2> QED BY <2>1, <2>2, <2>3 DEF LogInv, SeqType
  <1>2. requests' \in 0..MaxRequests /\ target' \in Texts /\ sent' \subseteq 1..made
    <2>1. requests' \in 0..MaxRequests
      BY ClientLogAssumption DEF LogInv, TypeOK
    <2>2. target' \in Texts
      BY Names DEF LogInv, TypeOK
    <2>3. sent' \subseteq 1..made
      BY DEF LogInv, TypeOK, SeqType
    <2> QED BY <2>1, <2>2, <2>3
  <1>3. TypeOK'
    BY <1>2 DEF LogInv, TypeOK
  <1>4. SeqType'
    BY <1>1 DEF LogInv, SeqType
  <1>5. OpenIsNamed' /\ NeverEmpty' /\ ServerFile'
    BY DEF LogInv, OpenIsNamed, NeverEmpty, ServerFile, FileStillThere
  <1> QED BY <1>3, <1>4, <1>5 DEF LogInv

LEMMA UnbackStep ==
  ASSUME LogInv, unback, UNCHANGED BLog, UNCHANGED killVars
  PROVE  LogInv'
PROOF
  <1> USE DEF unback, killVars, scriptVars
  <1>1. CASE zip # <<>> /\ Head(zip) # Torn
    <2>1. Head(zip) \in Text /\ LinesOf(Head(zip)) \subseteq 1..made
      BY <1>1, LinesHead DEF LogInv, TypeOK, SeqType
    <2>2. /\ text[BLog] \o Head(zip) \in Text
          /\ LinesOf(text[BLog] \o Head(zip)) \subseteq 1..made
      <3>1. text[BLog] \in Seq(Nat) /\ LinesOf(text[BLog]) \subseteq 1..made
        BY Names DEF LogInv, TypeOK, SeqType, Text
      <3>2. Head(zip) \in Seq(Nat)
        BY <2>1 DEF Text
      <3> QED BY <2>1, <3>1, <3>2, LinesConcat DEF Text
    <2>3. text[BLog] \o Head(zip) # <<>>
      <3>1. Len(Head(zip)) \in Nat \ {0} /\ Len(text[BLog]) \in Nat
        BY <1>1, <2>1, Names, LenProperties, EmptySeq DEF LogInv, SeqType, Torn, Text
      <3>2. Len(text[BLog] \o Head(zip)) = Len(text[BLog]) + Len(Head(zip))
        BY <2>1, Names, ConcatProperties DEF LogInv, SeqType, Text
      <3> QED BY <3>1, <3>2, EmptySeq
    <2>4. /\ text' = [text EXCEPT ![BLog] = text[BLog] \o Head(zip)]
          /\ files' = files \cup {BLog} /\ spc' = "rmback"
      BY <1>1
    <2>5. TypeOK'
      BY <2>2, <2>4, Names DEF LogInv, TypeOK
    <2>6. SeqType'
      BY <2>2, <2>4, Names DEF LogInv, SeqType
    <2>7. OpenIsNamed' /\ ServerFile'
      BY <2>4, Names DEF LogInv, OpenIsNamed, ServerFile, FileStillThere
    <2>8. NeverEmpty'
      BY <2>3, <2>4, Names DEF LogInv, NeverEmpty, SeqType
    <2> QED BY <2>5, <2>6, <2>7, <2>8 DEF LogInv
  <1>2. CASE ~(zip # <<>> /\ Head(zip) # Torn)
    <2>1. spc' = "recv" /\ UNCHANGED <<text, files>>
      BY <1>2
    <2> QED BY <2>1 DEF LogInv, TypeOK, SeqType, OpenIsNamed, NeverEmpty, ServerFile,
            FileStillThere
  <1> QED BY <1>1, <1>2

LEMMA RemoveStep ==
  ASSUME LogInv, RemoveBack \/ RemoveTarget, UNCHANGED BLog, UNCHANGED killVars
  PROVE  LogInv'
PROOF
  <1>1. CASE RemoveBack
    <2> USE <1>1 DEF RemoveBack, Remove, killVars
    <2>1. LinesOf(zip') = {} /\ zip' \in Seq(Text)
      BY LinesEmpty
    <2>2. TypeOK'
      BY <2>1, Names DEF LogInv, TypeOK
    <2>3. SeqType'
      BY <2>1 DEF LogInv, SeqType
    <2>4. OpenIsNamed' /\ NeverEmpty' /\ ServerFile'
      BY Names DEF LogInv, OpenIsNamed, NeverEmpty, ServerFile, FileStillThere
    <2> QED BY <2>2, <2>3, <2>4 DEF LogInv
  <1>2. CASE RemoveTarget
    <2> USE <1>2 DEF RemoveTarget, Remove, killVars
    <2>1. target \in Texts /\ target # "back"
      BY Names DEF LogInv, TypeOK
    <2>2. text' \in [Texts -> Text] /\ \A f \in Texts : text'[f] = IF f = target THEN <<>> ELSE text[f]
      BY <2>1, LinesEmpty DEF LogInv, SeqType, Text
    <2>3. TypeOK'
      BY <2>1, <2>2, LinesEmpty DEF LogInv, TypeOK
    <2>4. SeqType'
      BY <2>2, LinesEmpty DEF LogInv, SeqType, Text
    <2>5. OpenIsNamed' /\ NeverEmpty' /\ ServerFile'
      BY <2>1, <2>2, Names DEF LogInv, SeqType, OpenIsNamed, NeverEmpty, ServerFile, FileStillThere
    <2> QED BY <2>3, <2>4, <2>5 DEF LogInv
  <1> QED BY <1>1, <1>2

(***************************************************************************)
(* A kill leaves any beginning of what was being appended to the log, and  *)
(* of a record that was being appended to Back nothing, a part, or all.    *)
(***************************************************************************)
LEMMA KillStep ==
  ASSUME LogInv, Kill, UNCHANGED BLog
  PROVE  LogInv'
PROOF
  <1> USE Names
  <1>1. /\ UNCHANGED <<made, files, target, requests, sent>>
        /\ kills' = kills + 1 /\ kills < MaxKills /\ born' = made
        /\ buffer' = <<>> /\ copy' = <<>> /\ reading' = <<>>
        /\ wpc' = "run" /\ spc' = "recv"
    BY DEF Kill
  <1>2. cut' \in BOOLEAN /\ (cut => cut')
    BY Zenon DEF Kill, LogInv, TypeOK
  <1>3. /\ text' \in [Texts -> Text]
        /\ \A f \in Texts : LinesOf(text'[f]) \subseteq 1..made
        /\ \A f \in Texts \ files : text'[f] = <<>>
    <2>1. CASE text' = text
      BY <2>1 DEF LogInv, TypeOK, SeqType
    <2>2. CASE text' # text
      <3>1. wpc = "write" /\ ~unlinked
        BY <2>2, Zenon DEF Kill
      <3>2. "log" \in files
        BY <3>1 DEF LogInv, OpenIsNamed
      <3>3. PICK n \in 0..Len(buffer) :
              text' = [text EXCEPT !["log"] = text["log"] \o SubSeq(buffer, 1, n)]
        BY <3>1, Zenon DEF Kill
      <3> DEFINE part == SubSeq(buffer, 1, n)
      <3>4. part \in Seq(Nat) /\ LinesOf(part) \subseteq 1..made
        BY LinesPrefix DEF LogInv, TypeOK, SeqType, Text
      <3> HIDE DEF part
      <3>5. text["log"] \in Seq(Nat) /\ LinesOf(text["log"]) \subseteq 1..made
        BY DEF LogInv, TypeOK, SeqType, Text
      <3>6. text["log"] \o part \in Text /\ LinesOf(text["log"] \o part) \subseteq 1..made
        BY <3>4, <3>5, LinesConcat DEF Text
      <3>7. text' = [text EXCEPT !["log"] = text["log"] \o part]
        BY <3>3 DEF part
      <3> QED BY <3>2, <3>6, <3>7 DEF LogInv, TypeOK, SeqType
    <2> QED BY <2>1, <2>2
  <1>4. /\ zip' \in Seq(Text)
        /\ \A r \in LinesOf(zip') : (r # Torn \/ cut') /\ LinesOf(r) \subseteq 1..made
        /\ "back" \notin files => zip' = <<>>
        /\ "back" \in files /\ ~cut' => zip' # <<>>
    <2>1. CASE wpc = "zwrite" /\ ~unlinked
      <3>1. cut' /\ "back" \in files
        BY <2>1, Zenon DEF Kill, LogInv, OpenIsNamed
      <3>2. PICK r : /\ zip' = zip \/ zip' = Append(zip, r)
                     /\ r \in Text /\ LinesOf(r) \subseteq 1..made
        <4>1. zip' \in {zip, Append(zip, Torn), Append(zip, copy)}
          BY <2>1, Zenon DEF Kill
        <4>2. Torn \in Text /\ LinesOf(Torn) \subseteq 1..made
          BY LinesEmpty DEF Torn, Text
        <4>3. copy \in Text /\ LinesOf(copy) \subseteq 1..made
          BY DEF LogInv, SeqType
        <4> QED BY <4>1, <4>2, <4>3
      <3>3. /\ Append(zip, r) \in Seq(Text) /\ Append(zip, r) # <<>>
            /\ LinesOf(Append(zip, r)) = LinesOf(zip) \cup {r}
        BY <3>2, LinesAppend DEF LogInv, SeqType
      <3> QED BY <3>1, <3>2, <3>3 DEF LogInv, TypeOK, SeqType
    <2>2. CASE ~(wpc = "zwrite" /\ ~unlinked)
      <3>1. zip' = zip /\ (cut' => cut)
        BY <2>2, Zenon DEF Kill
      <3>2. "back" \in files /\ ~cut => zip # <<>>
        BY <2>2, Zenon DEF LogInv, OpenIsNamed, NeverEmpty
      <3> QED BY <1>2, <3>1, <3>2 DEF LogInv, TypeOK, SeqType
    <2> QED BY <2>1, <2>2
  <1>5. TypeOK'
    <2>1. kills' \in 0..MaxKills /\ born' \in 0..made'
      BY <1>1, ClientLogAssumption DEF LogInv, TypeOK
    <2> QED BY <1>1, <1>2, <1>3, <1>4, <2>1, LinesEmpty DEF LogInv, TypeOK
  <1>6. SeqType'
    <2>1. unlinked' \in BOOLEAN /\ replied' \in BOOLEAN
      BY DEF Kill
    <2> QED BY <1>1, <1>3, <1>4, <2>1, LinesEmpty DEF SeqType, Text
  <1>8. OpenIsNamed' /\ NeverEmpty' /\ ServerFile'
    BY <1>1, <1>4 DEF OpenIsNamed, NeverEmpty, ServerFile, FileStillThere
  <1> QED BY <1>5, <1>6, <1>8 DEF LogInv

LEMMA LogNext == LogInv /\ [Next]_vars => LogInv'
PROOF
  <1> SUFFICES ASSUME LogInv, [Next]_vars PROVE LogInv'
    OBVIOUS
  <1>1. CASE UNCHANGED vars
    BY <1>1 DEF vars, fileVars, scriptVars, serverVars, killVars, LogInv, TypeOK, SeqType,
       OpenIsNamed, NeverEmpty, ServerFile, FileStillThere
  <1>2. CASE Next
    BY <1>2, RunStep, EndStep, OpenStep, WriteStep, SizeStep, BackupWriteStep, ServerStep, UnbackStep,
       RemoveStep, KillStep DEF Next, popen_script, backup, ctrl_server
  <1> QED BY <1>1, <1>2

LEMMA LogAlways == Spec => []LogInv
BY LogInit, LogNext, PTL DEF Spec

-----------------------------------------------------------------------------
(***************************************************************************)
(* Types, and a file that does not exist has no contents.                  *)
(***************************************************************************)
THEOREM TypeCorrect == Spec => []TypeOK
PROOF
  <1>1. LogInv => TypeOK
    BY DEF LogInv
  <1> QED BY <1>1, LogAlways, PTL

(***************************************************************************)
(* The file the control server has promised the Master is there until the  *)
(* server itself removes it, whatever the script does with it meanwhile.   *)
(***************************************************************************)
THEOREM PromisedFileStays == Spec => []FileStillThere
PROOF
  <1>1. LogInv => FileStillThere
    BY DEF LogInv, ServerFile
  <1> QED BY <1>1, LogAlways, PTL

(***************************************************************************)
(* Unless a kill cut the writing of Back short, it unpacks as soon as the  *)
(* script is not just writing it: then the server answers the Master.      *)
(***************************************************************************)
THEOREM BackupsUnpack == Spec => []BackUnpacks
PROOF
  <1>1. ASSUME LogInv PROVE BackUnpacks
    <2> SUFFICES ASSUME "back" \in files, wpc # "zwrite", ~cut
                 PROVE  zip # <<>> /\ Head(zip) # Torn
      BY DEF BackUnpacks
    <2>1. zip # <<>>
      BY <1>1 DEF LogInv, NeverEmpty
    <2>2. Head(zip) \in LinesOf(zip)
      BY <1>1, <2>1, LinesHead DEF LogInv, SeqType
    <2> QED BY <1>1, <2>1, <2>2, Zenon DEF LogInv, TypeOK
  <1>2. LogInv => BackUnpacks
    BY <1>1
  <1> QED BY <1>2, LogAlways, PTL

================================================================================
