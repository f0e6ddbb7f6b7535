---------------------------- MODULE DataSession ----------------------------
(***************************************************************************)
(* Collecting the logs: the tasks ctrl_data_pthread of the Master          *)
(* (Master.c) and the control server of each client (Client.c).  A task    *)
(* opens a control connection, asks for the six logs one after the other,  *)
(* and for each one that exists opens a data connection, over which the    *)
(* client sends it.  Tasks run on different threads but share conf.Dir, in *)
(* which they put together the path of the file they write, and the        *)
(* Master's descriptor numbers; a new task for a client is submitted       *)
(* whether or not the last one has ended.                                  *)
(*                                                                         *)
(* A client may be killed, its host may vanish from the network, and it    *)
(* may be started again at any time.  The Master dies of SIGPIPE when it   *)
(* sends to a dead connection; tasks that have not connected then stand    *)
(* for those of the Master started next.  A log is a number of buffers of  *)
(* 4 * MAX_SIZE bytes; what the files hold is the subject of ClientLog.    *)
(* The tasks are followed until one follows a NULL conf.Dir or has read    *)
(* bytes from a connection of somebody else, which it then closes.         *)
(***************************************************************************)
EXTENDS Integers, Sequences

CONSTANTS
  Tasks,                     \* runs of ctrl_data_pthread
  Host,                      \* the client each of them collects from
  Clients,
  N,                         \* number of logs (6 in common.h)
  filename,                  \* task_id[i].filename
  Sizes,                     \* numbers of buffers a log may fill
  MaxKills                   \* bound on the ends of clients

ASSUME SessionAssumption ==
  /\ Tasks \subseteq Nat \ {0} /\ Host \in [Tasks -> Clients]
  /\ N \in Nat /\ DOMAIN filename = 0..(N-1)
  /\ Sizes \subseteq Nat /\ MaxKills \in Nat

Kinds == 0..(N-1)
Yes(k) == 200 + k
No(k) == 400 + k
NULL == <<>>                 \* conf.Dir when it points nowhere
NoTask == 0
Other == -1                  \* a socket that is not a control connection
EOF == 0                     \* the end of a stream of buffers 1, 2, ...

VARIABLES
  mpc, kind,                 \* each task: place in its code, variable i
  open,                      \* control sockets the Master has not closed
  buffer,                    \* what it read last from data_fd, 0 for nothing
  taken,                     \* what has the number of the data_fd just closed:
                             \* nothing, the ctrl_fd of a task, another socket
  Dir,                       \* conf.Dir, a path as a sequence of its parts
  dirs,                      \* directories that exist
  stored,                    \* <<path, task, kind, buffer>> written
  crashed,                   \* has the Master dereferenced NULL?
  foreign,                   \* has a task read another connection's bytes?
  net,                       \* unread requests, answers and buffers of each task
  dead,                      \* tasks whose connection ended with their client
  lost,                      \* tasks whose connection the host left in silence
  strayed,                   \* has a data connection missed its session?
  srv,                       \* the server of each client: see Fresh
  has,                       \* the logs that exist on each client
  sent,                      \* <<task, kind>> of the logs sent, unless empty
  kills

taskVars == <<mpc, kind, buffer, open, taken>>
fileVars == <<Dir, dirs, stored, crashed, foreign>>
clientVars == <<srv, has, sent>>
linkVars == <<dead, lost, strayed>>
vars == <<taskVars, fileVars, net, linkVars, clientVars, kills>>

(***************************************************************************)
(* A server that waits in accept: its place; the connections it has not    *)
(* accepted on its two ports; the tasks whose connections ctrl_fd and      *)
(* data_fd are; the log it answered 200 + i for.                           *)
(***************************************************************************)
Fresh == [pc |-> "accept", ctrlq |-> <<>>, dataq |-> <<>>,
          task |-> NoTask, peer |-> NoTask, log |-> 0]

Init ==
  /\ mpc = [t \in Tasks |-> "connect"] /\ kind = [t \in Tasks |-> 0]
  /\ buffer = [t \in Tasks |-> 0] /\ open = {} /\ taken = [t \in Tasks |-> NoTask]
  /\ Dir = NULL /\ dirs = {} /\ stored = {} /\ crashed = FALSE /\ foreign = FALSE
  /\ net = [t \in Tasks |-> [req |-> <<>>, rep |-> <<>>, data |-> <<>>]]
  /\ dead = {} /\ lost = {} /\ strayed = FALSE /\ kills = 0
  /\ srv = [c \in Clients |-> Fresh]
  /\ has \in [Clients -> SUBSET Kinds] /\ sent = {}

-----------------------------------------------------------------------------
(***************************************************************************)
(* ctrl_data_pthread.                                                      *)
(***************************************************************************)
Runs == ~crashed /\ ~foreign \* what comes after is not followed

At(t, label) == mpc[t] = label /\ Runs

Goto(t, label) == mpc' = [mpc EXCEPT ![t] = label]

(***************************************************************************)
(* socket_connect_tcp waits half a second and then closes its socket; the  *)
(* other host may all the same find the connection in its queue later.     *)
(***************************************************************************)
Connects(t, queue) ==
  /\ srv[Host[t]].pc # "down"
  /\ srv' = [srv EXCEPT ![Host[t]][queue] = Append(@, t)]

Fails(t, queue) ==           \* the task returns NULL, and closes nothing
  /\ Connects(t, queue) \/ UNCHANGED srv
  /\ Goto(t, "done")

(***************************************************************************)
(* Between close(data_fd) and the next recv on it, its number is free: a   *)
(* new socket may be given it, and it may be the number of several tasks.  *)
(***************************************************************************)
Free(t) == mpc[t] = "again" /\ taken[t] = NoTask

Gives(T, x) == taken' = [t \in Tasks |-> IF t \in T THEN x ELSE taken[t]]

NewSocket(x) == \E T \in SUBSET {t \in Tasks : Free(t)} : Gives(T, x)

Connect(t) ==
  /\ At(t, "connect")
  /\ \/ Connects(t, "ctrlq") /\ open' = open \cup {t} /\ NewSocket(t) /\ Goto(t, "send")
     \/ Fails(t, "ctrlq") /\ UNCHANGED <<open, taken>>
  /\ UNCHANGED <<kind, buffer, fileVars, net, linkVars, has, sent, kills>>

SendRequest_OneMore(t) ==    \* i <= N
  /\ At(t, "send") /\ kind[t] <= N
  /\ net' = [net EXCEPT ![t].req = Append(@, kind[t])]
  /\ Goto(t, "recv")
  /\ UNCHANGED <<kind, buffer, open, taken, fileVars, linkVars, clientVars, kills>>

(***************************************************************************)
(* What is sent to a host that has vanished is lost.  When the client has  *)
(* died, send may fail; the task then returns.                             *)
(***************************************************************************)
SendRequest(t) ==
  /\ At(t, "send") /\ kind[t] \in Kinds
  /\ \/ /\ Goto(t, "recv")
        /\ net' = IF t \in dead \cup lost THEN net
                  ELSE [net EXCEPT ![t].req = Append(@, kind[t])]
     \/ t \in dead /\ Goto(t, "done") /\ UNCHANGED net
  /\ UNCHANGED <<kind, buffer, open, taken, fileVars, linkVars, clientVars, kills>>

Die(t) ==                    \* or SIGPIPE: the Master ends, with all its tasks
  /\ At(t, "send") /\ kind[t] \in Kinds /\ t \in dead
  /\ mpc' = [s \in Tasks |-> IF mpc[s] = "connect" THEN "connect" ELSE "gone"]
  /\ open' = {} /\ taken' = [s \in Tasks |-> NoTask] /\ Dir' = NULL
  /\ UNCHANGED <<kind, buffer, dirs, stored, crashed, foreign, net, linkVars, clientVars, kills>>

(***************************************************************************)
(* After the last log.  A task whose number ctrl_fd has is either in recv  *)
(* already, which the close does not end, or finds its number free again.  *)
(***************************************************************************)
Close(t) ==
  /\ At(t, "send") /\ kind[t] \notin Kinds
  /\ open' = open \ {t}
  /\ \E T \in SUBSET {s \in Tasks : taken[s] = t} : Gives(T, NoTask)
  /\ Goto(t, "done")
  /\ UNCHANGED <<kind, buffer, fileVars, net, linkVars, clientVars, kills>>

NextKind(t) == Goto(t, "send") /\ kind' = [kind EXCEPT ![t] = @ + 1]

Skip_NoRead(t) ==            \* goes on without waiting for a slow answer
  /\ At(t, "recv") /\ net[t].rep = <<>>
  /\ NextKind(t)
  /\ UNCHANGED <<buffer, open, taken, fileVars, net, linkVars, clientVars, kills>>

Skip(t) ==                   \* recv returns 0 or -1, or not 200 + i
  /\ At(t, "recv")
  /\ \/ net[t].rep = <<>> /\ t \in dead /\ UNCHANGED net
     \/ /\ net[t].rep # <<>> /\ Head(net[t].rep) # Yes(kind[t])
        /\ net' = [net EXCEPT ![t].rep = Tail(@)]
  /\ NextKind(t)
  /\ UNCHANGED <<buffer, open, taken, fileVars, linkVars, clientVars, kills>>

SetDir(t) ==                 \* 200 + i: conf.Dir = get_conf_value("Dir")
  /\ At(t, "recv") /\ net[t].rep # <<>> /\ Head(net[t].rep) = Yes(kind[t])
  /\ net' = [net EXCEPT ![t].rep = Tail(@)]
  /\ Dir' = <<"Dir">>
  /\ Goto(t, "data")
  /\ UNCHANGED <<kind, buffer, open, taken, dirs, stored, crashed, foreign, linkVars, clientVars, kills>>

DataConnect_Retries(t) ==    \* connects again after a connection given up
  /\ At(t, "data") /\ Len(srv[Host[t]].dataq) < 2 /\ Connects(t, "dataq")
  /\ net' = [net EXCEPT ![t].data = <<>>]
  /\ Goto(t, "read") \/ UNCHANGED mpc
  /\ UNCHANGED <<kind, buffer, open, taken, fileVars, linkVars, has, sent, kills>>

DataConnect_GoesOn(t) ==     \* when it fails, goes on with the next log
  /\ At(t, "data")
  /\ \/ Connects(t, "dataq") /\ Goto(t, "read") /\ UNCHANGED kind
     \/ (Connects(t, "dataq") \/ UNCHANGED srv) /\ NextKind(t)
  /\ net' = [net EXCEPT ![t].data = <<>>]
  /\ UNCHANGED <<buffer, open, taken, fileVars, linkVars, has, sent, kills>>

(***************************************************************************)
(* When the connection fails, return without close(ctrl_fd).  When the     *)
(* client has been started again since its answer, the connection goes to  *)
(* a server that does not expect it.                                       *)
(***************************************************************************)
DataConnect(t) ==
  /\ At(t, "data")
  /\ (Connects(t, "dataq") /\ Goto(t, "read")) \/ Fails(t, "dataq")
  /\ strayed' = (strayed \/ (t \in dead \cup lost /\ srv' # srv))
  /\ net' = [net EXCEPT ![t].data = <<>>]
  /\ UNCHANGED <<kind, buffer, open, taken, fileVars, dead, lost, has, sent, kills>>

EndOfData(t) ==              \* recv returns 0; neither data_fd nor Dir is reset
  /\ At(t, "read") /\ net[t].data # <<>> /\ Head(net[t].data) = EOF
  /\ net' = [net EXCEPT ![t].data = <<>>]
  /\ NextKind(t)
  /\ UNCHANGED <<buffer, open, taken, fileVars, linkVars, clientVars, kills>>

ReadBuffer(t) ==
  /\ At(t, "read") /\ net[t].data # <<>> /\ Head(net[t].data) # EOF
  /\ buffer' = [buffer EXCEPT ![t] = Head(net[t].data)]
  /\ net' = [net EXCEPT ![t].data = Tail(@)]
  /\ Goto(t, "ip")
  /\ UNCHANGED <<kind, open, taken, fileVars, linkVars, clientVars, kills>>

AppendTo(part) ==            \* strcat(conf.Dir, part)
  /\ crashed' = (Dir = NULL)
  /\ Dir' = IF Dir = NULL THEN NULL ELSE Append(Dir, part)

AppendIp(t) ==               \* strcat the address; opendir, else mkdir
  /\ At(t, "ip")
  /\ AppendTo(Host[t])
  /\ dirs' = dirs \cup {Dir'}
  /\ Goto(t, "name")
  /\ UNCHANGED <<kind, buffer, open, taken, stored, foreign, net, linkVars, clientVars, kills>>

AppendName(t) ==             \* strcat the file name
  /\ At(t, "name")
  /\ AppendTo(filename[kind[t]])
  /\ Goto(t, "store")
  /\ UNCHANGED <<kind, buffer, open, taken, dirs, stored, foreign, net, linkVars, clientVars, kills>>

Directory(path) == SubSeq(path, 1, Len(path) - 1)

(***************************************************************************)
(* fopen(conf.Dir), write, conf.Dir = NULL, close(data_fd).  When the file *)
(* cannot be opened, flock dereferences NULL.                              *)
(***************************************************************************)
Store(t) ==
  /\ At(t, "store")
  /\ crashed' = (Dir = NULL \/ Directory(Dir) \notin dirs)
  /\ stored' = IF crashed' THEN stored
               ELSE stored \cup {<<Dir, t, kind[t], buffer[t]>>}
  /\ Dir' = NULL
  /\ buffer' = [buffer EXCEPT ![t] = 0]
  /\ net' = [net EXCEPT ![t].data = <<>>]
  /\ Goto(t, "again")
  /\ UNCHANGED <<kind, open, taken, dirs, foreign, linkVars, clientVars, kills>>

(***************************************************************************)
(* recv on the number just closed.  If no socket has it, recv fails and    *)
(* the loop ends; else it waits for what arrives there.                    *)
(***************************************************************************)
RecvClosed_SameLog(t) ==     \* asks for the same log once more
  /\ At(t, "again") /\ taken[t] = NoTask
  /\ Goto(t, "send")
  /\ UNCHANGED <<kind, buffer, open, taken, fileVars, net, linkVars, clientVars, kills>>

RecvClosed(t) ==
  /\ At(t, "again") /\ taken[t] = NoTask
  /\ NextKind(t)
  /\ UNCHANGED <<buffer, open, taken, fileVars, net, linkVars, clientVars, kills>>

LeavesLoop(t) ==
  NextKind(t) /\ taken' = [taken EXCEPT ![t] = NoTask] /\ UNCHANGED foreign

Steals == foreign' = TRUE /\ UNCHANGED <<mpc, kind, taken>>

RecvForeign(t) ==            \* on the control connection of a task
  /\ At(t, "again") /\ taken[t] \in Tasks
  /\ LET answer == net[taken[t]].rep
     IN  (answer = <<>> /\ taken[t] \in dead /\ LeavesLoop(t)) \/ (answer # <<>> /\ Steals)
  /\ UNCHANGED <<buffer, open, Dir, dirs, stored, crashed, net, linkVars, clientVars, kills>>

ctrl_data_pthread(t) ==
  \/ Connect(t) \/ SendRequest(t) \/ Die(t) \/ Close(t) \/ Skip(t)
  \/ SetDir(t) \/ DataConnect(t) \/ EndOfData(t) \/ ReadBuffer(t)
  \/ AppendIp(t) \/ AppendName(t) \/ Store(t) \/ RecvClosed(t) \/ RecvForeign(t)

(***************************************************************************)
(* The Master's other sockets: those that accept a login, the heartbeat's, *)
(* and the data connections of tasks.  Whether anything arrives on them is *)
(* not known here.                                                         *)
(***************************************************************************)
OtherOpens ==
  /\ NewSocket(Other)
  /\ UNCHANGED <<mpc, kind, buffer, open, fileVars, net, linkVars, clientVars, kills>>

OtherCloses ==
  /\ \E T \in SUBSET {t \in Tasks : taken[t] = Other} : Gives(T, NoTask)
  /\ UNCHANGED <<mpc, kind, buffer, open, fileVars, net, linkVars, clientVars, kills>>

RecvOther(t) ==
  /\ At(t, "again") /\ taken[t] = Other
  /\ LeavesLoop(t) \/ Steals
  /\ UNCHANGED <<buffer, open, Dir, dirs, stored, crashed, net, linkVars, clientVars, kills>>

-----------------------------------------------------------------------------
(***************************************************************************)
(* The control server of client c.  The Master's end of a connection is    *)
(* closed once its task has closed it and no other waits in recv on it.    *)
(***************************************************************************)
Serving(c, label) == srv[c].pc = label

Become(c, new) == srv' = [srv EXCEPT ![c] = new]

Closed(t) == t \notin open /\ \A s \in Tasks : taken[s] # t

ServerAccept(c) ==
  /\ Serving(c, "accept") /\ srv[c].ctrlq # <<>>
  /\ Become(c, [srv[c] EXCEPT !.pc = "recv", !.task = Head(srv[c].ctrlq), !.ctrlq = Tail(@)])
  /\ UNCHANGED <<taskVars, fileVars, net, linkVars, has, sent, kills>>

(***************************************************************************)
(* 200 + i, and the data connection next, or 400 + i.  When Back exists    *)
(* but does not unpack, no answer at all.                                  *)
(***************************************************************************)
ServerAnswer(c) ==
  /\ Serving(c, "recv") /\ net[srv[c].task].req # <<>>
  /\ LET t == srv[c].task
         k == Head(net[t].req)
         Answers(rep) == net' = [net EXCEPT ![t].req = Tail(@), ![t].rep = @ \o rep]
     IN  \/ k \in has[c] /\ Answers(<<Yes(k)>>) /\ Become(c, [srv[c] EXCEPT !.pc = "data", !.log = k])
         \/ k \notin has[c] /\ Answers(<<No(k)>>) /\ UNCHANGED srv
         \/ k \in has[c] /\ Answers(<<>>) /\ UNCHANGED srv
  /\ UNCHANGED <<taskVars, fileVars, linkVars, has, sent, kills>>

(***************************************************************************)
(* accept(data_listen) waits for a connection, but fails at once when the  *)
(* client has no descriptor left; the connection stays in the queue.       *)
(***************************************************************************)
DataAcceptFails(c) ==
  /\ Serving(c, "data")
  /\ Become(c, [srv[c] EXCEPT !.pc = "recv", !.log = 0])
  /\ strayed' = TRUE
  /\ UNCHANGED <<taskVars, fileVars, net, dead, lost, has, sent, kills>>

(***************************************************************************)
(* send_file, which does not notice when send fails.  When it cannot open  *)
(* the file, the connection is forgotten, and stays open.                  *)
(***************************************************************************)
ServerData(c) ==
  /\ Serving(c, "data") /\ srv[c].dataq # <<>>
  /\ LET t == Head(srv[c].dataq)
         Accepted(new) == Become(c, [new EXCEPT !.dataq = Tail(@)])
     IN  \/ /\ Accepted([srv[c] EXCEPT !.pc = "remove", !.peer = t])
            /\ \E n \in Sizes :
                 /\ net' = [net EXCEPT ![t].data = [i \in 1..n |-> i]]
                 /\ sent' = IF n = 0 THEN sent ELSE sent \cup {<<srv[c].task, srv[c].log>>}
         \/ Accepted([srv[c] EXCEPT !.pc = "recv", !.log = 0]) /\ UNCHANGED <<net, sent>>
  /\ UNCHANGED <<taskVars, fileVars, linkVars, has, kills>>

(***************************************************************************)
(* remove the file and close(data_fd), which is forgotten for a file that  *)
(* came from Back, and when remove fails; a file of Back is never empty.   *)
(***************************************************************************)
Ends(t) == [net EXCEPT ![t].data = IF mpc[t] = "read" THEN Append(@, EOF) ELSE @]

ServerRemove(c) ==
  /\ Serving(c, "remove")
  /\ \/ /\ has' = [has EXCEPT ![c] = @ \ {srv[c].log}]
        /\ net' = Ends(srv[c].peer) \/ (<<srv[c].task, srv[c].log>> \in sent /\ UNCHANGED net)
     \/ UNCHANGED <<has, net>>
  /\ Become(c, [srv[c] EXCEPT !.pc = "recv", !.peer = NoTask, !.log = 0])
  /\ UNCHANGED <<taskVars, fileVars, linkVars, sent, kills>>

ServerEnd_GoesOn(c) ==       \* leaves the loop when recv returns -1 only
  /\ Serving(c, "recv") /\ net[srv[c].task].req = <<>> /\ Closed(srv[c].task)
  /\ UNCHANGED vars

ServerEnd(c) ==              \* recv returns 0: close(ctrl_fd)
  /\ Serving(c, "recv") /\ net[srv[c].task].req = <<>> /\ Closed(srv[c].task)
  /\ Become(c, [srv[c] EXCEPT !.pc = "accept", !.task = NoTask])
  /\ UNCHANGED <<taskVars, fileVars, net, linkVars, has, sent, kills>>

LogAppears(c, k) ==          \* the client's script k writes its log
  /\ has' = [has EXCEPT ![c] = @ \cup {k}]
  /\ UNCHANGED <<taskVars, fileVars, net, linkVars, srv, sent, kills>>

(***************************************************************************)
(* The client's server ends, killed or of SIGPIPE, and its connections     *)
(* with it, except those a host that vanished has forgotten.               *)
(***************************************************************************)
Kill(c) ==
  /\ kills < MaxKills /\ ~Serving(c, "down")
  /\ kills' = kills + 1
  /\ Become(c, [Fresh EXCEPT !.pc = "down"])
  /\ dead' = dead \cup {t \in open \ lost : Host[t] = c}
  /\ \E forgotten \in SUBSET lost :
       net' = [t \in Tasks |->
         IF Host[t] # c THEN net[t]
         ELSE [net[t] EXCEPT !.req = <<>>, !.data = IF t \in forgotten THEN @ ELSE Ends(t)[t].data]]
  /\ UNCHANGED <<taskVars, fileVars, lost, strayed, has, sent>>

(***************************************************************************)
(* The client's host is switched off or cut off: its connections stay as   *)
(* they are on the Master, and what was on its way may be lost.            *)
(***************************************************************************)
Vanish(c) ==
  /\ kills < MaxKills /\ ~Serving(c, "down")
  /\ kills' = kills + 1
  /\ Become(c, [Fresh EXCEPT !.pc = "down"])
  /\ lost' = lost \cup {t \in open : Host[t] = c}
  /\ \E missing \in SUBSET {t \in open : Host[t] = c} :
       net' = [t \in Tasks |->
         IF t \in missing THEN [req |-> <<>>, rep |-> <<>>, data |-> <<>>]
         ELSE IF Host[t] = c THEN [net[t] EXCEPT !.req = <<>>]
         ELSE net[t]]
  /\ UNCHANGED <<taskVars, fileVars, dead, strayed, has, sent>>

(***************************************************************************)
(* A request to a host that vanished is given up after a quarter of an     *)
(* hour, or refused by the host started again.                             *)
(***************************************************************************)
Reset(t) ==
  /\ mpc[t] = "recv" /\ t \in lost \ dead
  /\ dead' = dead \cup {t}
  /\ UNCHANGED <<taskVars, fileVars, net, lost, strayed, clientVars, kills>>

Restart(c) ==                \* the logs are files: has is as before
  /\ Serving(c, "down")
  /\ Become(c, Fresh)
  /\ UNCHANGED <<taskVars, fileVars, net, linkVars, has, sent, kills>>

ctrl_server(c) ==
  ServerAccept(c) \/ ServerAnswer(c) \/ ServerData(c) \/ ServerRemove(c) \/ ServerEnd(c)

Next ==
  \/ \E t \in Tasks : Runs /\ ctrl_data_pthread(t)
  \/ \E t \in Tasks : Runs /\ RecvOther(t)
  \/ \E t \in Tasks : Runs /\ Reset(t)
  \/ Runs /\ OtherOpens
  \/ Runs /\ OtherCloses
  \/ \E c \in Clients : Runs /\ ctrl_server(c)
  \/ \E c \in Clients : Runs /\ DataAcceptFails(c)
  \/ \E c \in Clients : Runs /\ Kill(c)
  \/ \E c \in Clients : Runs /\ Vanish(c)
  \/ \E c \in Clients : Runs /\ Restart(c)
  \/ \E c \in Clients, k \in Kinds : Runs /\ LogAppears(c, k)

Spec == Init /\ [][Next]_vars

(***************************************************************************)
(* Scheduling: the threads of the Master and the servers of the clients    *)
(* run as long as they can.                                                *)
(***************************************************************************)
Fairness ==
  /\ \A t \in Tasks : WF_vars(ctrl_data_pthread(t))
  /\ \A c \in Clients : WF_vars(ctrl_server(c))

FairSpec == Spec /\ Fairness

-----------------------------------------------------------------------------
(***************************************************************************)
(* Types: in particular i never passes N, and no more is in flight than    *)
(* one request and one answer.                                             *)
(***************************************************************************)
TypeOK ==
  /\ mpc \in [Tasks -> {"connect", "send", "recv", "data", "read", "ip", "name", "store",
                        "again", "done", "gone"}]
  /\ kind \in [Tasks -> 0..N] /\ open \subseteq Tasks
  /\ \A t \in Tasks : mpc[t] \notin {"connect", "send", "done", "gone"} => kind[t] \in Kinds
  /\ taken \in [Tasks -> {NoTask, Other} \cup Tasks]
  /\ \A t \in Tasks : Len(net[t].req) <= 1 /\ Len(net[t].rep) <= 1
  /\ \A c \in Clients : /\ srv[c].pc \in {"accept", "recv", "data", "remove", "down"}
                        /\ srv[c].pc \in {"recv", "data", "remove"} => srv[c].task \in Tasks
  /\ dead \subseteq Tasks /\ lost \subseteq Tasks /\ strayed \in BOOLEAN
  /\ has \in [Clients -> SUBSET Kinds] /\ sent \subseteq Tasks \X Kinds
  /\ crashed \in BOOLEAN /\ foreign \in BOOLEAN /\ kills \in 0..MaxKills

(***************************************************************************)
(* Requests and answers never get out of step, whoever ends or vanishes,   *)
(* until a task reads from another's connection: the answer a task finds   *)
(* is the one to the request it sent last, and the request a server finds  *)
(* is the one the task still waits on.                                     *)
(***************************************************************************)
AnswerFitsRequest ==
  foreign \/ \A t \in Tasks : mpc[t] # "gone" =>
    /\ net[t].rep # <<>> => mpc[t] = "recv" /\ net[t].req = <<>>
    /\ net[t].rep # <<>> => Head(net[t].rep) \in {Yes(kind[t]), No(kind[t])}
    /\ net[t].req # <<>> => mpc[t] = "recv" /\ Head(net[t].req) = kind[t]

(***************************************************************************)
(* Data connections carry no name of the log: the one a server accepts     *)
(* belongs to the session it serves, and the Master waits on it for the    *)
(* log the server is about to send.                                        *)
(***************************************************************************)
SessionsKeepData ==
  \A c \in Clients :
    /\ \A i \in DOMAIN srv[c].dataq :
         LET t == srv[c].dataq[i]
         IN  srv[c].pc = "data" /\ t = srv[c].task /\ kind[t] = srv[c].log
    /\ srv[c].pc = "remove" => srv[c].peer = srv[c].task

(***************************************************************************)
(* There are two ways for it to fail, and no other: an accept of the data  *)
(* port that failed, and a task that opens its data connection to a client *)
(* started again since it answered.  Connections given up by the Master,   *)
(* overlapping tasks and the Master's own end do not do it.                *)
(***************************************************************************)
DataGoesToItsSession == foreign \/ strayed \/ SessionsKeepData

(***************************************************************************)
(* Each task reads from its own connections only.  It does not hold:       *)
(* Master.c:197 closes data_fd, and Master.c:176 reads on.                 *)
(***************************************************************************)
OwnDataOnly == ~foreign

(***************************************************************************)
(* Every file the Master writes is the one named for the client and the    *)
(* log its data came from, and the Master does not follow a NULL conf.Dir. *)
(* When tasks collect from two clients it does not hold.                   *)
(***************************************************************************)
StoredUnderOwnName ==
  /\ ~crashed
  /\ \A s \in stored : s[1] = <<"Dir", Host[s[2]], filename[s[3]]>>

(***************************************************************************)
(* The server removes a log as soon as it is sent, to whomever: its first  *)
(* buffer is then stored, or on its way to the task that waits for it,     *)
(* unless the task gave its connection up or ended with the Master, or the *)
(* host has vanished, or a data connection has missed its session.         *)
(***************************************************************************)
SentIsStored ==
  \A t \in Tasks, k \in Kinds : <<t, k>> \in sent =>
    \/ foreign \/ crashed \/ strayed \/ t \in lost
    \/ \E s \in stored : s[2] = t /\ s[3] = k /\ s[4] = 1
    \/ mpc[t] = "read" /\ kind[t] = k /\ Head(net[t].data) = 1
    \/ mpc[t] \in {"ip", "name", "store"} /\ kind[t] = k /\ buffer[t] = 1
    \/ mpc[t] = "done" /\ t \in open /\ kind[t] = k
    \/ mpc[t] = "gone"

(***************************************************************************)
(* What keeps a task waiting: a task that returned with its control        *)
(* connection open; a server that sent no answer; a server that waits for  *)
(* a data connection of a Master that died; a task that waits for data     *)
(* which the server does not send, or whose connection it does not close;  *)
(* a host that vanished; a data connection that missed its session; a      *)
(* number used again.  Without these, each task that sent a request gets   *)
(* an answer or learns that the client died, even when it has to wait      *)
(* until the client's server has ended the session of another task.        *)
(***************************************************************************)
Abandoned(t) == mpc[t] = "done" /\ t \in open \ dead

Unanswered(t) ==
  /\ mpc[t] = "recv" /\ net[t].req = <<>> /\ net[t].rep = <<>> /\ t \notin dead
  /\ Serving(Host[t], "recv") /\ srv[Host[t]].task = t

Stranded(c) == Serving(c, "data") /\ mpc[srv[c].task] = "gone"

Unfed(t) ==
  /\ mpc[t] = "read" /\ net[t].data = <<>>
  /\ LET server == srv[Host[t]]
     IN  ~(server.pc = "data" /\ server.dataq # <<>>) /\ server.pc # "remove"

Answered(t) == mpc[t] = "recv" ~> mpc[t] # "recv"

AnsweredUnlessStuck ==
  []( /\ \A t \in Tasks : ~Abandoned(t) /\ ~Unanswered(t) /\ ~Unfed(t) /\ taken[t] = NoTask
      /\ ~crashed /\ lost = {} /\ ~strayed /\ \A c \in Clients : ~Stranded(c) )
    => \A t \in Tasks : Answered(t)

(***************************************************************************)
(* The safety of it: a request is not lost when the client's server ends   *)
(* one session and begins another.  While a task waits in recv and its     *)
(* client lives, the answer has come, or its request waits with its        *)
(* connection in the queue of the server or is the next thing the server   *)
(* that serves it reads, or the server gave no answer; the server never    *)
(* waits meanwhile for a data connection of the same task.                 *)
(***************************************************************************)
Queued(t) == \E i \in DOMAIN srv[Host[t]].ctrlq : srv[Host[t]].ctrlq[i] = t

RequestHeld ==
  \A t \in Tasks : mpc[t] = "recv" /\ t \notin dead \cup lost =>
    \/ foreign \/ strayed
    \/ net[t].rep # <<>>
    \/ /\ net[t].req # <<>>
       /\ Queued(t) \/ (srv[Host[t]].task = t /\ srv[Host[t]].pc \in {"recv", "remove"})
    \/ Unanswered(t)

(***************************************************************************)
(* What a collection promises, without sockets: see Collection.            *)
(***************************************************************************)
Status(t, k) ==
  CASE k = kind[t] /\ mpc[t] = "recv" -> "asked"
    [] k = kind[t] /\ mpc[t] \in {"data", "read", "ip", "name", "store"} -> "promised"
    [] OTHER -> IF \E s \in stored : s[2] = t /\ s[3] = k THEN "stored"
                ELSE IF mpc[t] \in {"done", "gone"} \/ k < kind[t] THEN "over" ELSE "todo"

Ordered == INSTANCE Collection WITH
  status <- [t \in Tasks |-> [k \in Kinds |-> Status(t, k)]],
  void <- foreign \/ crashed

ImplementsOrdered == Ordered!Spec

(***************************************************************************)
(* README.md:29 describes the exchange as a request ID and an answer ID: a *)
(* task that sent a request gets an answer.                                *)
(***************************************************************************)
RequestIsAnswered == \A t \in Tasks : Answered(t)

(***************************************************************************)
(* Master.c:178 prints the data as the contents of the file, which is      *)
(* stored: each buffer of a log the client sends is.                       *)
(***************************************************************************)
WholeLogStored ==
  \A s \in stored : \A n \in Sizes \ {0} :
    mpc[s[2]] = "done" => <<s[1], s[2], s[3], n>> \in stored

=============================================================================
