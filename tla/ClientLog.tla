------------------------------ MODULE ClientLog ------------------------------
(***************************************************************************)
(* The files of one monitored item on the client (Client.c, common.c): a   *)
(* script process appends what its script printed to the log and, when the *)
(* log is too large, a compressed copy of it to the backup; the control    *)
(* server unpacks the backup, or takes the log itself, sends it to the     *)
(* Master and removes it.  Two processes, and no lock the server takes.    *)
(* They may be killed together at any point and started again: only the    *)
(* files survive, among them what a write had put there when it was cut.   *)
(*                                                                         *)
(* A line is numbered by the round that printed it.  The script's buffer   *)
(* is never emptied, and strcat stops at nothing: once its 4 KB are full,  *)
(* the process writes over its own stack and, sooner or later, dies.       *)
(***************************************************************************)
EXTENDS Integers, Sequences

CONSTANTS
  MaxLines,                  \* bound on the rounds of the script
  R_W_Times,                 \* rounds between two appends to the log
  File_Size,                 \* size from which the log is compressed
  MaxRequests,               \* bound on the requests of the Master
  MaxKills,                  \* bound on the kills of the client
  BLogs                      \* files that BLog may name: its own, or Log (see Config)

ASSUME ClientLogAssumption ==
  /\ MaxLines \in Nat /\ R_W_Times \in Nat \ {0} /\ File_Size \in Nat \ {0}
  /\ MaxRequests \in Nat /\ MaxKills \in Nat
  /\ BLogs \subseteq {"log", "blog"}

Texts == {"log"} \cup BLogs
Torn == <<>>                 \* a record of Back of which only a part was written

VARIABLES
  BLog,                      \* SC[i].BLog, as main read it
  made, buffer,              \* rounds so far; the script's buffer
  text, zip,                 \* the lines of Log and BLog; the records of Back
  files,                     \* which of the three files exist
  wpc, copy,                 \* the script process; what it compressed
  unlinked,                  \* was the file it has open removed meanwhile?
  spc, target, reading,      \* the server; the file it sends; its contents
  requests, replied,         \* requests so far; was the last one answered?
  sent,                      \* lines handed to the Master
  kills, born,               \* kills so far; rounds before the last one
  cut                        \* did a kill ever interrupt the writing of Back?

fileVars == <<text, zip, files>>
scriptVars == <<made, buffer, wpc, copy, unlinked>>
serverVars == <<spc, target, reading, requests, replied, sent>>
killVars == <<kills, born, cut>>
vars == <<BLog, fileVars, scriptVars, serverVars, killVars>>

LinesOf(s) == {s[i] : i \in 1..Len(s)}

Remove(f) == files' = files \ {f}

Init ==
  /\ BLog \in BLogs
  /\ made = 0 /\ buffer = <<>>
  /\ text = [f \in Texts |-> <<>>] /\ zip = <<>> /\ files = {}
  /\ wpc = "run" /\ copy = <<>> /\ unlinked = FALSE
  /\ spc = "recv" /\ target = "log" /\ reading = <<>>
  /\ requests = 0 /\ replied = TRUE
  /\ sent = {}
  /\ kills = 0 /\ born = 0 /\ cut = FALSE

-----------------------------------------------------------------------------
(***************************************************************************)
(* popen_script.  fopen "a+" creates a file; what is written reaches the   *)
(* file when it is closed, and nothing if it has been removed since.       *)
(***************************************************************************)
RunScript ==                 \* popen, strcat to buffer, sleep
  /\ wpc = "run" /\ made < MaxLines
  /\ made' = made + 1
  /\ buffer' = Append(buffer, made')
  /\ wpc' = IF (made' - born) % R_W_Times = 0 THEN "open" ELSE "run"
  /\ UNCHANGED <<fileVars, serverVars, copy, unlinked>>

ScriptEnds ==                \* popen or fopen fails: exit(1); strcat overflows
  /\ wpc \in {"run", "open"}
  /\ wpc' = "exited"
  /\ buffer' = <<>>
  /\ UNCHANGED <<fileVars, serverVars, made, copy, unlinked>>

OpenLog ==
  /\ wpc = "open"
  /\ files' = files \cup {"log"}
  /\ unlinked' = FALSE
  /\ wpc' = "write"
  /\ UNCHANGED <<text, zip, serverVars, made, buffer, copy>>

WriteLog ==
  /\ wpc = "write"
  /\ text' = IF unlinked THEN text ELSE [text EXCEPT !["log"] = @ \o buffer]
  /\ wpc' = "size"
  /\ UNCHANGED <<zip, files, serverVars, made, buffer, copy, unlinked>>

file_size ==                 \* -1 when the log has been removed
  /\ wpc = "size"
  /\ wpc' = IF "log" \in files /\ Len(text["log"]) >= File_Size THEN "backup" ELSE "run"
  /\ UNCHANGED <<fileVars, serverVars, made, buffer, copy, unlinked>>

(***************************************************************************)
(* backup: read and compress the log, append the record to Back.  The log  *)
(* stays as it is.                                                         *)
(***************************************************************************)
BackupRead_Renames ==        \* takes the log away instead of copying it
  /\ wpc = "backup"
  /\ copy' = text["log"]
  /\ Remove("log")
  /\ text' = [text EXCEPT !["log"] = <<>>]
  /\ wpc' = IF "log" \in files THEN "zopen" ELSE "run"
  /\ UNCHANGED <<zip, serverVars, made, buffer, unlinked>>

BackupRead_Ignores ==        \* does not look whether fopen succeeded
  /\ wpc = "backup"
  /\ copy' = text["log"]
  /\ wpc' = "zopen"
  /\ UNCHANGED <<fileVars, serverVars, made, buffer, unlinked>>

BackupRead ==
  /\ wpc = "backup"
  /\ copy' = text["log"]
  /\ wpc' = IF "log" \in files THEN "zopen" ELSE "run"
  /\ UNCHANGED <<fileVars, serverVars, made, buffer, unlinked>>

BackupOpen ==                \* Back exists from here on, still empty
  /\ wpc = "zopen"
  /\ files' = files \cup {"back"}
  /\ unlinked' = FALSE
  /\ wpc' = "zwrite"
  /\ UNCHANGED <<text, zip, serverVars, made, buffer, copy>>

BackupWrite ==
  /\ wpc = "zwrite"
  /\ zip' = IF unlinked THEN zip ELSE Append(zip, copy)
  /\ copy' = <<>>
  /\ wpc' = "run"
  /\ UNCHANGED <<text, files, serverVars, made, buffer, unlinked>>

backup == BackupRead \/ BackupOpen \/ BackupWrite

-----------------------------------------------------------------------------
(***************************************************************************)
(* The control server, one request for this item.                          *)
(***************************************************************************)
Receive ==                   \* fopen(Back) tells which file is sent
  /\ spc = "recv" /\ requests < MaxRequests
  /\ requests' = requests + 1
  /\ replied' = FALSE
  /\ spc' = IF "back" \in files THEN "unback" ELSE "log"
  /\ UNCHANGED <<fileVars, scriptVars, target, reading, sent>>

TakeLog ==                   \* 200 + i when the log exists, else 400 + i
  /\ spc = "log"
  /\ replied' = TRUE
  /\ target' = "log"
  /\ spc' = IF "log" \in files THEN "open" ELSE "recv"
  /\ UNCHANGED <<fileVars, scriptVars, reading, requests, sent>>

unback ==                    \* the first record of Back, appended to BLog
  /\ spc = "unback"
  /\ IF zip # <<>> /\ Head(zip) # Torn
     THEN /\ text' = [text EXCEPT ![BLog] = @ \o Head(zip)]
          /\ files' = files \cup {BLog}
          /\ spc' = "rmback"
     ELSE /\ spc' = "recv"   \* uncompress fails: no answer
          /\ UNCHANGED <<text, files>>
  /\ UNCHANGED <<zip, scriptVars, target, reading, requests, replied, sent>>

RemoveBack_Truncates ==      \* empties Back instead of removing it
  /\ spc = "rmback"
  /\ zip' = <<>>
  /\ replied' = TRUE
  /\ target' = BLog
  /\ spc' = "open"
  /\ UNCHANGED <<text, files, scriptVars, reading, requests, sent>>

RemoveBack ==                \* remove(Back), then reply 200 + i
  /\ spc = "rmback"
  /\ Remove("back")
  /\ zip' = <<>>
  /\ unlinked' = (unlinked \/ wpc = "zwrite")
  /\ replied' = TRUE
  /\ target' = BLog
  /\ spc' = "open"
  /\ UNCHANGED <<text, made, buffer, wpc, copy, reading, requests, sent>>

OpenTarget ==                \* accept(data_listen); send_file reads the file
  /\ spc = "open"
  /\ reading' = text[target]
  /\ spc' = "send"
  /\ UNCHANGED <<fileVars, scriptVars, target, requests, replied, sent>>

Send ==                      \* send_file returns 1 whether or not send fails
  /\ spc = "send"
  /\ sent' \in {sent, sent \cup LinesOf(reading)}
  /\ spc' = "remove"
  /\ UNCHANGED <<fileVars, scriptVars, target, reading, requests, replied>>

RemoveTarget ==
  /\ spc = "remove"
  /\ Remove(target)
  /\ text' = [text EXCEPT ![target] = <<>>]
  /\ unlinked' = (unlinked \/ (wpc = "write" /\ target = "log"))
  /\ reading' = <<>>
  /\ spc' = "recv"
  /\ UNCHANGED <<zip, made, buffer, wpc, copy, target, requests, replied, sent>>

GiveUp ==                    \* accept, fopen in send_file or remove fails
  /\ spc \in {"rmback", "open", "remove"}
  /\ reading' = <<>>
  /\ spc' = "recv"
  /\ UNCHANGED <<fileVars, scriptVars, target, requests, replied, sent>>

popen_script == RunScript \/ ScriptEnds \/ OpenLog \/ WriteLog \/ file_size \/ backup

ctrl_server ==
  \/ Receive \/ TakeLog \/ unback \/ RemoveBack \/ OpenTarget \/ Send \/ RemoveTarget
  \/ GiveUp

(***************************************************************************)
(* The client is killed and started again.  Of a write that it interrupts, *)
(* any part may have reached the file; the rest of its memory is lost, and *)
(* the next start looks at none of the files.                              *)
(***************************************************************************)
Kill ==
  /\ kills < MaxKills
  /\ kills' = kills + 1 /\ born' = made
  /\ cut' = (cut \/ (wpc = "zwrite" /\ ~unlinked))
  /\ text' \in IF wpc = "write" /\ ~unlinked
               THEN {[text EXCEPT !["log"] = @ \o SubSeq(buffer, 1, n)] : n \in 0..Len(buffer)}
               ELSE {text}
  /\ zip' \in IF wpc = "zwrite" /\ ~unlinked
              THEN {zip, Append(zip, Torn), Append(zip, copy)} ELSE {zip}
  /\ buffer' = <<>> /\ copy' = <<>> /\ wpc' = "run" /\ unlinked' = FALSE
  /\ reading' = <<>> /\ replied' = TRUE /\ spc' = "recv"
  /\ UNCHANGED <<made, files, target, requests, sent>>

Next ==
  /\ UNCHANGED BLog
  /\ \/ (popen_script \/ ctrl_server) /\ UNCHANGED killVars
     \/ Kill

Spec == Init /\ [][Next]_vars

-----------------------------------------------------------------------------
(***************************************************************************)
(* Types; and a file that does not exist has no contents.                  *)
(***************************************************************************)
TypeOK ==
  /\ BLog \in BLogs
  /\ made \in 0..MaxLines /\ LinesOf(buffer) \subseteq 1..made
  /\ DOMAIN text = Texts /\ \A f \in Texts : LinesOf(text[f]) \subseteq 1..made
  /\ \A r \in LinesOf(zip) : (r # Torn \/ cut) /\ LinesOf(r) \subseteq 1..made
  /\ files \subseteq Texts \cup {"back"}
  /\ \A f \in Texts \ files : text[f] = <<>>
  /\ "back" \notin files => zip = <<>>
  /\ wpc \in {"exited", "run", "open", "write", "size", "backup", "zopen", "zwrite"}
  /\ spc \in {"recv", "log", "unback", "rmback", "open", "send", "remove"}
  /\ target \in Texts /\ requests \in 0..MaxRequests
  /\ sent \subseteq 1..made
  /\ kills \in 0..MaxKills /\ born \in 0..made /\ cut \in BOOLEAN

(***************************************************************************)
(* The server opens a file, answers, waits for the data connection, opens  *)
(* the file again and removes it by name, with no lock: the file it has    *)
(* answered for must still be there, or the Master waits for nothing.      *)
(***************************************************************************)
FileStillThere == spc \in {"open", "send", "remove"} => target \in files

(***************************************************************************)
(* A request goes unanswered only when Back exists and does not unpack:    *)
(* that is so only while the script writes its first record, however the   *)
(* server's removals and the script's appends interleave, unless a kill    *)
(* has cut the writing of Back short.                                      *)
(***************************************************************************)
BackUnpacks ==
  "back" \in files /\ wpc # "zwrite" /\ ~cut => zip # <<>> /\ Head(zip) # Torn

(***************************************************************************)
(* README.md:9 has the client exchange its data with the server: a line in *)
(* a file stays in one, or in the script's buffer, until it is sent.       *)
(***************************************************************************)
InFiles == UNION {LinesOf(text[f]) : f \in Texts} \cup UNION {LinesOf(r) : r \in LinesOf(zip)}

LineKept == [][InFiles \subseteq (sent \cup LinesOf(buffer) \cup InFiles)']_vars

(***************************************************************************)
(* README.md:13 describes the exchange as a request ID and an answer ID:   *)
(* the server answers a request before it waits for the next one.          *)
(***************************************************************************)
RequestAnswered == spc = "recv" => replied

=============================================================================
