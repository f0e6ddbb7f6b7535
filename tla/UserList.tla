------------------------------ MODULE UserList ------------------------------
(***************************************************************************)
(* The Master's list of users (Master/node) and the threads that share it  *)
(* without a lock: the login task inserts a client that connects, every    *)
(* heartbeat task connects to each listed client and deletes those that do *)
(* not answer, and the SIGALRM handler of ctrldata walks the list and      *)
(* hands a pointer into each node to a task of the pool.                   *)
(*                                                                         *)
(* Nodes are heap blocks.  Of a freed one, free writes over the address,   *)
(* while next keeps its value until malloc returns the block again, which  *)
(* node_create may do at any time.                                         *)
(*                                                                         *)
(* The build does not optimise, so that a loop reads p->next anew for its  *)
(* test, its body and its advance: in the login task and in ctrldata these *)
(* are steps of their own.  The loops of a heartbeat and delete_node read  *)
(* it as often, but while one heartbeat runs at a time nobody else changes *)
(* a next that is not NULL, and a round or a deletion of one iteration is  *)
(* one step.  That is no longer so once an address is listed twice, missed *)
(* says when, nor of two heartbeats, where the model shows less than the   *)
(* code does.  output only reads, three times in a round as check_ip does: *)
(* all it can add is a crash.                                              *)
(***************************************************************************)
EXTENDS Integers, FiniteSets

CONSTANTS
  Clients,                   \* addresses
  Range0,                    \* those user_ip_init lists, in order: a sequence
  Loyal,                     \* clients that answer every connection, for ever
  Deaf,                      \* ways a client may fail: "refuse", "silent"
  Hearts,                    \* heartbeat tasks that may run at the same time
  MaxNodes,                  \* bound on the nodes in memory at one time
  CtrlData                   \* does the ctrldata timer fire?

Head == 0
NULL == -1
NoFd == -1
Nodes == 1..MaxNodes

ASSUME UserAssumption ==
  /\ Clients # {}
  /\ MaxNodes \in Nat /\ CtrlData \in BOOLEAN
  /\ Loyal \subseteq Clients
  /\ Deaf \subseteq {"refuse", "silent"}
  /\ Hearts \subseteq Nat
  /\ \E n \in 0..MaxNodes :
       /\ Range0 \in [1..n -> Clients]
       /\ \A i, j \in 1..n : i # j => Range0[i] # Range0[j]

VARIABLES
  linkedlist,                \* the global: Head, or NULL after a failed delete
  next,                      \* next of the head and of every block
  addr, fd,                  \* fields of the blocks; fd: the heartbeat that set it
  live,                      \* blocks allocated and not freed
  mode,                      \* how each client answers on its heartbeat port
  logged,                    \* clients told they are logged in, since they came up
  lpc, lp, fdaddr, node,     \* the login task: place, pointer p, client, new node
  seen, missed,              \* node check_ip compared; did it ever pass the address?
  hpc, hp, conn,             \* per heartbeat: place, pointer p or q, answers
  unclosed,                  \* clients to whom it has a socket open
  cpc, cp,                   \* ctrldata: place, pointer p
  argv,                      \* nodes whose address a queued task holds
  crashed                    \* has the Master followed a NULL pointer?

listVars == <<linkedlist, next, addr, fd, live>>
envVars == <<mode, logged>>
loginVars == <<lpc, lp, fdaddr, node, seen, missed>>
heartVars == <<hpc, hp, conn, unclosed>>
ctrlVars == <<cpc, cp, argv>>
vars == <<listVars, envVars, loginVars, heartVars, ctrlVars, crashed>>

Ptr == Nodes \cup {Head, NULL}

End(p) == p # NULL => next[p] = NULL        \* p == NULL || p->next == NULL

(***************************************************************************)
(* main: head_node_init, then user_ip_init inserts the configured range.   *)
(***************************************************************************)
InRange(n) == n \in DOMAIN Range0

Init ==
  /\ linkedlist = Head
  /\ next = [p \in Nodes \cup {Head} |-> IF (p = Head \/ InRange(p)) /\ InRange(p + 1)
                                        THEN p + 1 ELSE NULL]
  /\ addr = [n \in Nodes |-> IF InRange(n) THEN Range0[n] ELSE CHOOSE c \in Clients : TRUE]
  /\ fd = [n \in Nodes |-> NoFd]
  /\ live = {n \in Nodes : InRange(n)}
  /\ mode \in [Clients -> Deaf \cup {"up"}] /\ \A c \in Loyal : mode[c] = "up"
  /\ logged = {}
  /\ lpc = "idle" /\ lp = NULL /\ fdaddr = (CHOOSE c \in Clients : TRUE) /\ node = NULL
  /\ seen = NULL /\ missed = FALSE
  /\ hpc = [h \in Hearts |-> "idle"]
  /\ hp = [h \in Hearts |-> NULL]
  /\ conn = [h \in Hearts |-> [c \in Clients |-> "none"]]
  /\ unclosed = [h \in Hearts |-> {}]
  /\ cpc = "test" /\ cp = NULL
  /\ argv = {}
  /\ crashed = FALSE

-----------------------------------------------------------------------------
(***************************************************************************)
(* A client comes up, stops its program (its host refuses the connection)  *)
(* or loses its host (nothing answers).                                    *)
(***************************************************************************)
ClientChange(c) ==
  /\ c \notin Loyal
  /\ \E m \in (Deaf \cup {"up"}) \ {mode[c]} : mode' = [mode EXCEPT ![c] = m]
  /\ logged' = logged \ {c}
  /\ UNCHANGED <<listVars, loginVars, heartVars, ctrlVars>>

-----------------------------------------------------------------------------
(***************************************************************************)
(* handle_accpet, in the login task: check_ip walks the list; if the       *)
(* address is new, node_create and insert walks to the tail.               *)
(*                                                                         *)
(* A next found NULL stays NULL until the login task writes to it, which   *)
(* is why the test that ends a loop needs no step of its own.              *)
(***************************************************************************)
SameAddr_Port(n) == FALSE    \* compares the port too, new for every connection

SameAddr(n) == addr[n] = fdaddr

handle_accpet(c) ==
  /\ lpc = "idle" /\ mode[c] = "up"
  /\ lpc' = "check" /\ lp' = Head /\ fdaddr' = c
  /\ UNCHANGED <<listVars, envVars, node, seen, missed, heartVars, ctrlVars>>

CheckTest ==                 \* while (p->next != NULL)
  /\ lpc = "check" /\ next[lp] # NULL
  /\ lpc' = "compare"
  /\ UNCHANGED <<listVars, envVars, lp, fdaddr, node, seen, missed, heartVars, ctrlVars>>

CheckCompare ==              \* what is left in a freed node may be anything
  /\ lpc = "compare" /\ next[lp] # NULL
  /\ ~SameAddr(next[lp]) \/ next[lp] \notin live
  /\ lpc' = "advance" /\ seen' = next[lp]
  /\ UNCHANGED <<listVars, envVars, lp, fdaddr, node, missed, heartVars, ctrlVars>>

CheckFound_Remembers ==      \* or a client that has logged in before
  /\ lpc = "compare" /\ next[lp] # NULL /\ (fdaddr \in logged \/ SameAddr(next[lp]))
  /\ lpc' = "idle" /\ lp' = NULL
  /\ UNCHANGED <<listVars, envVars, fdaddr, node, seen, missed, heartVars, ctrlVars>>

CheckFound ==                \* the client is already on the list
  /\ lpc = "compare" /\ next[lp] # NULL /\ SameAddr(next[lp])
  /\ lpc' = "idle" /\ lp' = NULL
  /\ logged' = IF mode[fdaddr] = "up" THEN logged \cup {fdaddr} ELSE logged
  /\ UNCHANGED <<listVars, mode, fdaddr, node, seen, missed, heartVars, ctrlVars>>

CheckAdvance ==              \* p = p->next, which need not be what was compared
  /\ lpc = "advance" /\ next[lp] # NULL
  /\ lpc' = "check" /\ lp' = next[lp] /\ seen' = NULL
  /\ missed' = (missed \/ (next[lp] # seen /\ SameAddr(next[lp])))
  /\ UNCHANGED <<listVars, envVars, fdaddr, node, heartVars, ctrlVars>>

node_create ==               \* check_ip returned 0; malloc returns a free block
  /\ lpc = "check" /\ next[lp] = NULL
  /\ \E n \in Nodes \ live :
       /\ live' = live \cup {n}
       /\ addr' = [addr EXCEPT ![n] = fdaddr]
       /\ fd' = [fd EXCEPT ![n] = NoFd]
       /\ next' = [next EXCEPT ![n] = NULL]
       /\ node' = n
  /\ lpc' = "insert" /\ lp' = Head
  /\ UNCHANGED <<linkedlist, envVars, fdaddr, seen, missed, heartVars, ctrlVars>>

InsertTest ==                \* while (p->next != NULL)
  /\ lpc = "insert" /\ next[lp] # NULL
  /\ lpc' = "step"
  /\ UNCHANGED <<listVars, envVars, lp, fdaddr, node, seen, missed, heartVars, ctrlVars>>

InsertAdvance ==             \* p = p->next
  /\ lpc = "step" /\ next[lp] # NULL
  /\ lpc' = "insert" /\ lp' = next[lp]
  /\ UNCHANGED <<listVars, envVars, fdaddr, node, seen, missed, heartVars, ctrlVars>>

InsertLink_AtHead ==         \* links the node at the head and drops the rest
  /\ lpc = "insert" /\ next[lp] = NULL
  /\ next' = [next EXCEPT ![Head] = node]
  /\ logged' = IF mode[fdaddr] = "up" THEN logged \cup {fdaddr} ELSE logged
  /\ lpc' = "idle" /\ lp' = NULL /\ node' = NULL
  /\ UNCHANGED <<linkedlist, addr, fd, live, mode, fdaddr, seen, missed, heartVars, ctrlVars>>

InsertLink ==
  /\ lpc = "insert" /\ next[lp] = NULL
  /\ next' = [next EXCEPT ![lp] = node]
  /\ logged' = IF mode[fdaddr] = "up" THEN logged \cup {fdaddr} ELSE logged
  /\ lpc' = "idle" /\ lp' = NULL /\ node' = NULL
  /\ UNCHANGED <<linkedlist, addr, fd, live, mode, fdaddr, seen, missed, heartVars, ctrlVars>>

login_pthread ==
  \/ CheckTest \/ CheckCompare \/ CheckFound \/ CheckAdvance
  \/ node_create
  \/ InsertTest \/ InsertAdvance \/ InsertLink

LoginCrashes ==              \* the tail was deleted since the test found it
  lpc \in {"compare", "advance", "step"} /\ next[lp] = NULL

-----------------------------------------------------------------------------
(***************************************************************************)
(* heart_pthread.  heart() passes it the value of linkedlist.              *)
(***************************************************************************)
NoAnswers(h) == [conn EXCEPT ![h] = [c \in Clients |-> "none"]]

heart(h) ==
  /\ hpc[h] = "idle"
  /\ hpc' = [hpc EXCEPT ![h] = "connect"]
  /\ hp' = [hp EXCEPT ![h] = linkedlist]
  /\ conn' = NoAnswers(h)
  /\ unclosed' = [unclosed EXCEPT ![h] = {}]
  /\ UNCHANGED <<listVars, envVars, loginVars, ctrlVars>>

ConnectStep(h) ==            \* a socket for the next node, put into wset
  /\ hpc[h] = "connect" /\ ~End(hp[h])
  /\ LET n == next[hp[h]]
     IN  /\ fd' = [fd EXCEPT ![n] = h]
         /\ conn' = [conn EXCEPT ![h][addr[n]] = mode[addr[n]]]
         /\ unclosed' = [unclosed EXCEPT ![h] = @ \cup {addr[n]}]
         /\ hp' = [hp EXCEPT ![h] = n]
  /\ UNCHANGED <<linkedlist, next, addr, live, envVars, loginVars, hpc, ctrlVars>>

SocketFails(h) ==            \* socket or ioctl: the round returns as it stands
  /\ hpc[h] = "connect" /\ ~End(hp[h])
  /\ hpc' = [hpc EXCEPT ![h] = "idle"]
  /\ hp' = [hp EXCEPT ![h] = NULL]
  /\ UNCHANGED <<listVars, envVars, loginVars, conn, unclosed, ctrlVars>>

(***************************************************************************)
(* After the sleep and select, nfd > 0 when some socket of the set is      *)
(* writable: connected, or failed with an error.  A silent host gives      *)
(* neither in the time allowed.                                            *)
(***************************************************************************)
Answered(h) == \E c \in Clients : conn[h][c] \in {"up", "refuse"}

Select(h) ==
  /\ hpc[h] = "connect" /\ End(hp[h])
  /\ hpc' = [hpc EXCEPT ![h] = IF Answered(h) THEN "reap" ELSE "idle"]
  /\ hp' = [hp EXCEPT ![h] = IF Answered(h) THEN Head ELSE NULL]
  /\ UNCHANGED <<listVars, envVars, loginVars, conn, unclosed, ctrlVars>>

(***************************************************************************)
(* delete_node: unlink and free the first node with the address.  It       *)
(* returns NULL, which the caller stores into linkedlist, when there is    *)
(* none.                                                                   *)
(***************************************************************************)
Path ==                      \* the list from the head, NULL from its end on
  LET w[i \in 0..MaxNodes] ==
        IF i = 0 THEN Head ELSE IF w[i-1] = NULL THEN NULL ELSE next[w[i-1]]
  IN  w

Before(a) ==                 \* where the loop of delete_node stops
  {i \in 0..MaxNodes : /\ Path[i] # NULL
                       /\ next[Path[i]] # NULL => addr[next[Path[i]]] = a
                       /\ \A j \in 0..(i-1) : addr[next[Path[j]]] # a}

delete_node_Unlinks(a) ==    \* forgets p->next = q->next
  \E i \in Before(a) :
    LET q == next[Path[i]]
    IN  IF q = NULL
        THEN linkedlist' = NULL /\ UNCHANGED <<next, live>>
        ELSE live' = live \ {q} /\ UNCHANGED <<linkedlist, next>>

delete_node_ReturnsPrev(a) == \* returns p, not head
  \E i \in Before(a) :
    LET p == Path[i]
        q == next[p]
    IN  IF q = NULL
        THEN linkedlist' = NULL /\ UNCHANGED <<next, live>>
        ELSE /\ next' = [next EXCEPT ![p] = next[q]]
             /\ live' = live \ {q}
             /\ linkedlist' = p

delete_node(a) ==
  \E i \in Before(a) :
    LET p == Path[i]
        q == next[p]
    IN  IF q = NULL
        THEN linkedlist' = NULL /\ UNCHANGED <<next, live>>
        ELSE /\ next' = [next EXCEPT ![p] = next[q]]
             /\ live' = live \ {q}
             /\ UNCHANGED linkedlist

(***************************************************************************)
(* The node is kept when its fd is one of this round's sockets and that    *)
(* connection succeeded.  An fd of -1, which a node has until a round      *)
(* connects to it, is no valid argument of FD_ISSET: whichever branch the  *)
(* outcome picks, getsockopt fails on it and the node is deleted.          *)
(***************************************************************************)
Kept_Writable(h, n) ==       \* writable is enough: no getsockopt
  fd[n] = h /\ conn[h][addr[n]] \in {"up", "refuse"}

Kept_Unconnected(h, n) ==    \* leaves alone a node without a socket
  fd[n] = NoFd \/ (fd[n] = h /\ conn[h][addr[n]] = "up")

Kept(h, n) == fd[n] = h /\ conn[h][addr[n]] = "up"

CloseFd(h, n) ==             \* close(q->next->fd), which may be -1
  unclosed' = IF fd[n] = h THEN [unclosed EXCEPT ![h] = @ \ {addr[n]}] ELSE unclosed

ReapKeep(h) ==
  /\ hpc[h] = "reap" /\ ~End(hp[h]) /\ Kept(h, next[hp[h]])
  /\ CloseFd(h, next[hp[h]])
  /\ hp' = [hp EXCEPT ![h] = next[hp[h]]]
  /\ UNCHANGED <<listVars, envVars, loginVars, hpc, conn, ctrlVars>>

ReapDelete_IfSet(h) ==       \* closes the sockets of the set only
  /\ hpc[h] = "reap" /\ ~End(hp[h]) /\ ~Kept(h, next[hp[h]])
  /\ linkedlist = Head
  /\ LET n == next[hp[h]]
     IN  /\ delete_node(addr[n])
         /\ fd' = [fd EXCEPT ![n] = NoFd]
         /\ IF conn[h][addr[n]] = "refuse" THEN CloseFd(h, n) ELSE UNCHANGED unclosed
  /\ UNCHANGED <<addr, envVars, loginVars, hpc, hp, conn, ctrlVars>>

ReapDelete(h) ==
  /\ hpc[h] = "reap" /\ ~End(hp[h]) /\ ~Kept(h, next[hp[h]])
  /\ linkedlist = Head
  /\ LET n == next[hp[h]]
     IN  /\ delete_node(addr[n])
         /\ CloseFd(h, n)
         /\ fd' = IF fd[n] = h /\ conn[h][addr[n]] = "refuse"
                  THEN [fd EXCEPT ![n] = NoFd] ELSE fd
  /\ UNCHANGED <<addr, envVars, loginVars, hpc, hp, conn, ctrlVars>>

ReapEnd(h) ==
  /\ hpc[h] = "reap" /\ End(hp[h])
  /\ hpc' = [hpc EXCEPT ![h] = "idle"]
  /\ hp' = [hp EXCEPT ![h] = NULL]
  /\ conn' = NoAnswers(h)
  /\ UNCHANGED <<listVars, envVars, loginVars, unclosed, ctrlVars>>

heart_pthread(h) ==
  \/ ConnectStep(h) \/ SocketFails(h) \/ Select(h)
  \/ ReapKeep(h) \/ ReapDelete(h) \/ ReapEnd(h)

HeartCrashes(h) ==           \* delete_node of a list that is NULL
  /\ hpc[h] = "reap" /\ ~End(hp[h]) /\ ~Kept(h, next[hp[h]])
  /\ linkedlist = NULL

-----------------------------------------------------------------------------
(***************************************************************************)
(* ctrldata, in the SIGALRM handler, and the start of ctrl_data_pthread,   *)
(* which copies the address its argument points to.                        *)
(***************************************************************************)
ctrldata ==                  \* p = linkedlist
  /\ CtrlData /\ cpc = "test" /\ cp = NULL /\ linkedlist # NULL
  /\ cp' = linkedlist
  /\ UNCHANGED <<listVars, envVars, loginVars, heartVars, cpc, argv>>

CtrlTest ==                  \* while (p != NULL && p->next != NULL)
  /\ cpc = "test" /\ cp # NULL
  /\ IF End(cp) THEN cp' = NULL /\ UNCHANGED cpc ELSE cpc' = "add" /\ UNCHANGED cp
  /\ UNCHANGED <<listVars, envVars, loginVars, heartVars, argv>>

CtrlAdd ==                   \* threadpool_add_task: &p->next->addr
  /\ cpc = "add" /\ next[cp] # NULL
  /\ argv' = argv \cup {next[cp]}
  /\ cpc' = "advance"
  /\ UNCHANGED <<listVars, envVars, loginVars, heartVars, cp>>

CtrlAdvance ==               \* p = p->next
  /\ cpc = "advance"
  /\ cp' = next[cp]
  /\ cpc' = "test"
  /\ UNCHANGED <<listVars, envVars, loginVars, heartVars, argv>>

ctrl_data_pthread(n) ==
  /\ n \in argv
  /\ argv' = argv \ {n}
  /\ UNCHANGED <<listVars, envVars, loginVars, heartVars, cpc, cp>>

CtrlCrashes ==               \* the task that gets NULL's addr: now or when it starts
  cpc = "add" /\ next[cp] = NULL

-----------------------------------------------------------------------------
Runs == ~crashed /\ UNCHANGED crashed

Crash ==                     \* of any of the threads: the Master is gone, for good
  /\ LoginCrashes \/ CtrlCrashes \/ \E h \in Hearts : HeartCrashes(h)
  /\ crashed' = TRUE
  /\ UNCHANGED <<listVars, envVars, loginVars, heartVars, ctrlVars>>

Next ==
  \/ \E c \in Clients : ClientChange(c) /\ Runs
  \/ \E c \in Clients : handle_accpet(c) /\ Runs
  \/ login_pthread /\ Runs
  \/ \E h \in Hearts : (heart(h) \/ heart_pthread(h)) /\ Runs
  \/ (ctrldata \/ CtrlTest \/ CtrlAdd \/ CtrlAdvance) /\ Runs
  \/ \E n \in Nodes : ctrl_data_pthread(n) /\ Runs
  \/ Crash

Spec == Init /\ [][Next]_vars

(***************************************************************************)
(* The timer keeps starting heartbeats, and the pool's scheduler runs each *)
(* to its end.                                                             *)
(***************************************************************************)
Fairness == \A h \in Hearts : WF_vars((heart(h) \/ heart_pthread(h)) /\ Runs)

FairSpec == Spec /\ Fairness

-----------------------------------------------------------------------------
Linked == {n \in Nodes : \E i \in 1..MaxNodes : Path[i] = n}

Listed == {addr[n] : n \in Linked}

(***************************************************************************)
(* Pointers, fields and the answers of a round keep their ranges; the      *)
(* list's address is the head's, or NULL.                                  *)
(***************************************************************************)
TypeOK ==
  /\ linkedlist \in {Head, NULL}
  /\ next \in [Nodes \cup {Head} -> Nodes \cup {NULL}]
  /\ addr \in [Nodes -> Clients]
  /\ fd \in [Nodes -> Hearts \cup {NoFd}]
  /\ live \subseteq Nodes
  /\ mode \in [Clients -> {"up", "refuse", "silent"}]
  /\ logged \subseteq Clients
  /\ lpc \in {"idle", "check", "compare", "advance", "insert", "step"} /\ lp \in Ptr
  /\ seen \in Nodes \cup {NULL} /\ missed \in BOOLEAN
  /\ fdaddr \in Clients /\ node \in Nodes \cup {NULL}
  /\ hpc \in [Hearts -> {"idle", "connect", "reap"}]
  /\ hp \in [Hearts -> Ptr]
  /\ conn \in [Hearts -> [Clients -> {"none", "up", "refuse", "silent"}]]
  /\ unclosed \in [Hearts -> SUBSET Clients]
  /\ cpc \in {"test", "add", "advance"} /\ cp \in Ptr
  /\ argv \subseteq Nodes
  /\ crashed \in BOOLEAN

(***************************************************************************)
(* check_ip walks a list that a heartbeat changes under it, over nodes     *)
(* that have been freed.  In one way only does an address come to be       *)
(* listed twice: the node behind the one compared is deleted before        *)
(* p = p->next, which then passes over a node with the address uncompared. *)
(***************************************************************************)
NoDuplicateUser == missed \/ \A m, n \in Linked : m # n => addr[m] # addr[n]

(***************************************************************************)
(* With one heartbeat at a time, and until an address is listed twice, the *)
(* list reaches only allocated nodes, the heartbeat itself never follows a *)
(* freed pointer, and linkedlist is never overwritten with the NULL of a   *)
(* delete_node that found nothing.                                         *)
(***************************************************************************)
ListIsLive ==
  missed \/
  /\ linkedlist = Head /\ Linked \subseteq live
  /\ \A h \in Hearts : hp[h] \in live \cup {Head, NULL}

(***************************************************************************)
(* Whatever is inserted or deleted between the two loops of a heartbeat,   *)
(* each socket it opened belongs to a node that its second loop has yet to *)
(* reach and will close it: only a round in which socket or ioctl failed   *)
(* or select reported nothing leaves sockets open, unless an address was   *)
(* listed twice.                                                           *)
(***************************************************************************)
Ahead(p) ==                  \* the nodes a loop that stands on p still visits
  {n \in Nodes : \E i, j \in 0..MaxNodes : i < j /\ Path[i] = p /\ Path[j] = n}

SocketsClosed ==
  missed \/ \A h \in Hearts :
    hpc[h] = "reap" =>
      unclosed[h] \subseteq {addr[n] : n \in {m \in Ahead(hp[h]) : fd[m] = h}}

(***************************************************************************)
(* A client listed from the start that answers every heartbeat is never    *)
(* taken off the list, whatever other clients and threads do, until an     *)
(* address is listed twice.                                                *)
(***************************************************************************)
LoyalStaysListed ==
  missed \/ \A c \in Loyal : (\E i \in DOMAIN Range0 : Range0[i] = c) => c \in Listed

(***************************************************************************)
(* Once select has reported something, a client that answered this round   *)
(* is on the list, and when the second loop ends nobody else is: not one   *)
(* that went away, nor one that logged in after the first loop, however    *)
(* logins and deletions alternate, until an address is listed twice.       *)
(***************************************************************************)
RoundIsExact ==
  missed \/ \A h \in Hearts :
    hpc[h] = "reap" =>
      /\ \A c \in Clients : conn[h][c] = "up" => c \in Listed
      /\ End(hp[h]) => \A c \in Listed : conn[h][c] = "up"

(***************************************************************************)
(* epoll.c:58 reports a client as known when its address is listed: then   *)
(* no address is listed a second time.                                     *)
(***************************************************************************)
ListedOnce == \A m, n \in Linked : m # n => addr[m] # addr[n]

(***************************************************************************)
(* The same list, walked while it changes, never sends a walk past its end *)
(* and the Master with it.                                                 *)
(***************************************************************************)
NeverCrashes == ~crashed

(***************************************************************************)
(* README.md:23 says the Master keeps track of the users online: a client  *)
(* that logged in and still answers is on the list.                        *)
(***************************************************************************)
LoggedInStays == logged \subseteq Listed

(***************************************************************************)
(* Master/README.md:13 says shared memory is protected by the condition's  *)
(* mutex: the argument of a queued ctrl_data_pthread would then still be   *)
(* allocated when the task starts.                                         *)
(***************************************************************************)
CtrlArgumentLive == argv \subseteq live

(***************************************************************************)
(* A client that is gone for good leaves the list, once logins pause: one  *)
(* that logs in at the tail again and again can hold a round open.  It     *)
(* needs a client that still answers, or select reports nothing at all;    *)
(* and a Master that is not out of descriptors for ever, has not crashed   *)
(* and lists no address twice.                                             *)
(***************************************************************************)
GoneIsRemoved ==
  /\ [](~crashed /\ ~missed)
  /\ <>[][\A h \in Hearts : ~SocketFails(h)]_vars
  => \A c \in Clients :
       <>[](mode[c] # "up" /\ lpc = "idle") => <>[](c \notin Listed)

=============================================================================
