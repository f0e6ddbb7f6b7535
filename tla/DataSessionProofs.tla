-------------------------- MODULE DataSessionProofs --------------------------
(***************************************************************************)
(* Proofs about DataSession, for any number of tasks, clients, logs, kills *)
(* and sizes.                                                              *)
(***************************************************************************)
EXTENDS DataSession, SequenceTheorems, TLAPS

Labels == {"connect", "send", "recv", "data", "read", "ip", "name", "store",
           "again", "done", "gone"}

ServerPCs == {"accept", "recv", "data", "remove", "down"}

Idle == {"connect", "send", "done", "gone"}      \* kind may be past the last log

Visitors(c) == {t \in Tasks : Host[t] = c}

Streams == [req : Seq(Kinds), rep : Seq(Nat), data : Seq(Nat)]

Server == [pc : ServerPCs, ctrlq : Seq(Tasks), dataq : Seq(Tasks),
           task : Tasks \cup {NoTask}, peer : Tasks \cup {NoTask}, log : Nat]

(***************************************************************************)
(* Types.  A server is visited by the tasks of its own client only.        *)
(***************************************************************************)
TaskType ==
  /\ mpc \in [Tasks -> Labels] /\ kind \in [Tasks -> 0..N]
  /\ \A t \in Tasks : mpc[t] \notin Idle => kind[t] \in Kinds
  /\ buffer \in [Tasks -> Int] /\ open \subseteq Tasks
  /\ taken \in [Tasks -> {NoTask, Other} \cup Tasks]

OtherType ==
  /\ has \in [Clients -> SUBSET Kinds] /\ sent \subseteq Tasks \X Kinds
  /\ crashed \in BOOLEAN /\ foreign \in BOOLEAN /\ kills \in 0..MaxKills
  /\ dead \subseteq Tasks /\ lost \subseteq Tasks /\ strayed \in BOOLEAN

SrvOwn ==
  \A c \in Clients :
    /\ srv[c].ctrlq \in Seq(Visitors(c))
    /\ srv[c].pc \in {"recv", "data", "remove"} => srv[c].task \in Visitors(c)
    /\ srv[c].pc \in {"data", "remove"} => srv[c].log \in Kinds
    /\ srv[c].pc = "remove" => srv[c].peer \in Tasks

NetType == net \in [Tasks -> Streams]

SrvType == srv \in [Clients -> Server] /\ SrvOwn

TypeInv == TaskType /\ OtherType /\ NetType /\ SrvType

(***************************************************************************)
(* The steps of one client, and those that are of neither side.            *)
(***************************************************************************)
ServerStep(c) ==
  \/ ctrl_server(c) \/ DataAcceptFails(c) \/ Kill(c) \/ Vanish(c) \/ Restart(c)
  \/ \E k \in Kinds : LogAppears(c, k)

OtherStep ==
  OtherOpens \/ OtherCloses \/ \E t \in Tasks : RecvOther(t) \/ Reset(t)

LEMMA Steps ==
  ASSUME Next
  PROVE  /\ Runs
         /\ \/ \E t \in Tasks : ctrl_data_pthread(t)
            \/ OtherStep
            \/ \E c \in Clients : ServerStep(c)
BY Zenon DEF Next, OtherStep, ServerStep

-----------------------------------------------------------------------------
(***************************************************************************)
(* Sequences of at most one element, which is all the streams ever hold    *)
(* except for data.                                                        *)
(***************************************************************************)
LEMMA OneElement ==
  ASSUME NEW k
  PROVE  /\ <<k>> # <<>> /\ Len(<<k>>) = 1 /\ Head(<<k>>) = k /\ Tail(<<k>>) = <<>>
         /\ Append(<<>>, k) = <<k>> /\ <<>> \o <<k>> = <<k>>
OBVIOUS

LEMMA NoElement == Len(<<>>) = 0 /\ <<>> \o <<>> = <<>> /\ \A S : <<>> \in Seq(S)
OBVIOUS

LEMMA OneTyped == ASSUME NEW S, NEW k \in S PROVE <<k>> \in Seq(S)
OBVIOUS

LEMMA Ends1 ==
  ASSUME NEW S, NEW s \in Seq(S), s # <<>>
  PROVE  Head(s) \in S /\ Tail(s) \in Seq(S)
OBVIOUS

LEMMA Appended ==
  ASSUME NEW S, NEW s \in Seq(S), NEW x \in S
  PROVE  /\ Append(s, x) \in Seq(S) /\ Append(s, x) # <<>>
         /\ s # <<>> => Head(Append(s, x)) = Head(s)
OBVIOUS

(***************************************************************************)
(* The streams of one task after a step, all others being as before.       *)
(***************************************************************************)
NetBecomes(t, q, r, d) ==
  /\ net' \in [Tasks -> Streams] /\ \A u \in Tasks : u # t => net'[u] = net[u]
  /\ net'[t].req = q /\ net'[t].rep = r /\ net'[t].data = d

LEMMA PutReq ==
  ASSUME NetType, NEW t \in Tasks, NEW q \in Seq(Kinds), net' = [net EXCEPT ![t].req = q]
  PROVE  NetBecomes(t, q, net[t].rep, net[t].data)
BY DEF NetType, Streams, NetBecomes

LEMMA PutRep ==
  ASSUME NetType, NEW t \in Tasks, NEW r \in Seq(Nat), net' = [net EXCEPT ![t].rep = r]
  PROVE  NetBecomes(t, net[t].req, r, net[t].data)
BY DEF NetType, Streams, NetBecomes

LEMMA PutReqRep ==
  ASSUME NetType, NEW t \in Tasks, NEW q \in Seq(Kinds), NEW r \in Seq(Nat),
         net' = [net EXCEPT ![t].req = q, ![t].rep = r]
  PROVE  NetBecomes(t, q, r, net[t].data)
BY DEF NetType, Streams, NetBecomes

LEMMA PutData ==
  ASSUME NetType, NEW t \in Tasks, NEW d \in Seq(Nat), net' = [net EXCEPT ![t].data = d]
  PROVE  NetBecomes(t, net[t].req, net[t].rep, d)
BY DEF NetType, Streams, NetBecomes

LEMMA NetFields ==
  ASSUME NetType, NEW t \in Tasks
  PROVE  net[t].req \in Seq(Kinds) /\ net[t].rep \in Seq(Nat) /\ net[t].data \in Seq(Nat)
BY DEF NetType, Streams

(***************************************************************************)
(* A new connection in one of a server's two queues.                       *)
(***************************************************************************)
LEMMA HostClient == ASSUME NEW t \in Tasks PROVE Host[t] \in Clients /\ t \in Visitors(Host[t])
BY SessionAssumption DEF Visitors

LEMMA ConnectsCtrl ==
  ASSUME SrvType, NEW t \in Tasks, Connects(t, "ctrlq"), NEW c, c = Host[t]
  PROVE  /\ srv' \in [Clients -> Server] /\ \A d \in Clients : d # c => srv'[d] = srv[d]
         /\ srv[c].pc # "down"
         /\ srv'[c].ctrlq = Append(srv[c].ctrlq, t) /\ srv'[c].dataq = srv[c].dataq
         /\ srv'[c].pc = srv[c].pc /\ srv'[c].task = srv[c].task
         /\ srv'[c].peer = srv[c].peer /\ srv'[c].log = srv[c].log
PROOF
  <1> DEFINE q == Append(srv[c].ctrlq, t)
  <1>1. srv[c].pc # "down"
    BY DEF Connects
  <1>2. srv' = [srv EXCEPT ![c].ctrlq = q]
    BY Zenon DEF Connects
  <1>3. q \in Seq(Tasks) /\ c \in Clients
    BY HostClient DEF SrvType, Server
  <1>4. q = Append(srv[c].ctrlq, t)
    OBVIOUS
  <1> HIDE DEF q
  <1> QED BY <1>1, <1>2, <1>3, <1>4 DEF SrvType, Server

LEMMA ConnectsData ==
  ASSUME SrvType, NEW t \in Tasks, Connects(t, "dataq"), NEW c, c = Host[t]
  PROVE  /\ srv' \in [Clients -> Server] /\ \A d \in Clients : d # c => srv'[d] = srv[d]
         /\ srv[c].pc # "down"
         /\ srv'[c].dataq = Append(srv[c].dataq, t) /\ srv'[c].ctrlq = srv[c].ctrlq
         /\ srv'[c].pc = srv[c].pc /\ srv'[c].task = srv[c].task
         /\ srv'[c].peer = srv[c].peer /\ srv'[c].log = srv[c].log
PROOF
  <1> DEFINE q == Append(srv[c].dataq, t)
  <1>1. srv[c].pc # "down"
    BY DEF Connects
  <1>2. srv' = [srv EXCEPT ![c].dataq = q]
    BY Zenon DEF Connects
  <1>3. q \in Seq(Tasks) /\ c \in Clients
    BY HostClient DEF SrvType, Server
  <1>4. q = Append(srv[c].dataq, t)
    OBVIOUS
  <1> HIDE DEF q
  <1> QED BY <1>1, <1>2, <1>3, <1>4 DEF SrvType, Server


-----------------------------------------------------------------------------
(***************************************************************************)
(* What each step does to the streams.                                     *)
(***************************************************************************)
LEMMA SendNet ==
  ASSUME NetType, NEW t \in Tasks, SendRequest(t)
  PROVE  \/ UNCHANGED net
         \/ /\ t \notin dead \cup lost /\ mpc' = [mpc EXCEPT ![t] = "recv"] /\ kind[t] \in Kinds
            /\ NetBecomes(t, Append(net[t].req, kind[t]), net[t].rep, net[t].data)
PROOF
  <1> DEFINE q == Append(net[t].req, kind[t])
  <1>1. \/ UNCHANGED net
        \/ /\ t \notin dead \cup lost /\ mpc' = [mpc EXCEPT ![t] = "recv"] /\ kind[t] \in Kinds
           /\ net' = [net EXCEPT ![t].req = q]
    BY DEF SendRequest, Goto
  <1>2. kind[t] \in Kinds => q \in Seq(Kinds)
    BY NetFields, Appended
  <1> HIDE DEF q
  <1>3. ASSUME kind[t] \in Kinds, net' = [net EXCEPT ![t].req = q]
        PROVE  NetBecomes(t, q, net[t].rep, net[t].data)
    BY <1>2, <1>3, PutReq
  <1> QED BY <1>1, <1>3 DEF q

LEMMA TakeRep ==
  ASSUME NetType, NEW t \in Tasks, net[t].rep # <<>>, net' = [net EXCEPT ![t].rep = Tail(@)]
  PROVE  NetBecomes(t, net[t].req, Tail(net[t].rep), net[t].data)
PROOF
  <1> DEFINE r == Tail(net[t].rep)
  <1>1. r \in Seq(Nat) /\ net' = [net EXCEPT ![t].rep = r]
    BY NetFields, Ends1
  <1> HIDE DEF r
  <1>2. NetBecomes(t, net[t].req, r, net[t].data)
    BY <1>1, PutRep
  <1> QED BY <1>2 DEF r

LEMMA TakeData ==
  ASSUME NetType, NEW t \in Tasks, net[t].data # <<>>, net' = [net EXCEPT ![t].data = Tail(@)]
  PROVE  NetBecomes(t, net[t].req, net[t].rep, Tail(net[t].data))
PROOF
  <1> DEFINE d == Tail(net[t].data)
  <1>1. d \in Seq(Nat) /\ net' = [net EXCEPT ![t].data = d]
    BY NetFields, Ends1
  <1> HIDE DEF d
  <1>2. NetBecomes(t, net[t].req, net[t].rep, d)
    BY <1>1, PutData
  <1> QED BY <1>2 DEF d

LEMMA NoData ==
  ASSUME NetType, NEW t \in Tasks, net' = [net EXCEPT ![t].data = <<>>]
  PROVE  NetBecomes(t, net[t].req, net[t].rep, <<>>)
BY PutData, NoElement

EndedData(t) == IF mpc[t] = "read" THEN Append(net[t].data, EOF) ELSE net[t].data

LEMMA EndedType ==
  ASSUME NetType, NEW t \in Tasks
  PROVE  /\ EndedData(t) \in Seq(Nat)
         /\ net[t].data # <<>> => EndedData(t) # <<>> /\ Head(EndedData(t)) = Head(net[t].data)
PROOF
  <1>1. net[t].data \in Seq(Nat) /\ EOF \in Nat
    BY NetFields DEF EOF
  <1> QED BY <1>1, Appended DEF EndedData

LEMMA EndNet ==
  ASSUME NetType, NEW t \in Tasks, net' = Ends(t)
  PROVE  NetBecomes(t, net[t].req, net[t].rep, EndedData(t))
PROOF
  <1> DEFINE d == EndedData(t)
  <1>1. net' = [net EXCEPT ![t].data = d]
    BY DEF Ends, EndedData
  <1>2. d \in Seq(Nat)
    BY EndedType
  <1> HIDE DEF d
  <1>3. NetBecomes(t, net[t].req, net[t].rep, d)
    BY <1>1, <1>2, PutData
  <1> QED BY <1>3 DEF d

LEMMA AnswerNet ==
  ASSUME NetType, SrvType, NEW c \in Clients, ServerAnswer(c), NEW t, t = srv[c].task
  PROVE  /\ t \in Visitors(c) /\ net[t].req # <<>> /\ Head(net[t].req) \in Kinds
         /\ \E r \in {<<>>, <<Yes(Head(net[t].req))>>, <<No(Head(net[t].req))>>} :
              /\ NetBecomes(t, Tail(net[t].req), net[t].rep \o r, net[t].data)
              /\ r = <<Yes(Head(net[t].req))>> =>
                   srv' = [srv EXCEPT ![c] = [srv[c] EXCEPT !.pc = "data", !.log = Head(net[t].req)]]
              /\ r # <<Yes(Head(net[t].req))>> => srv' = srv
PROOF
  <1> DEFINE k == Head(net[t].req)
             q == Tail(net[t].req)
  <1>1. t \in Visitors(c) /\ t \in Tasks /\ net[t].req # <<>>
    BY DEF ServerAnswer, Serving, SrvType, SrvOwn, Visitors
  <1>2. k \in Kinds /\ q \in Seq(Kinds) /\ Yes(k) \in Nat /\ No(k) \in Nat /\ Yes(k) # No(k)
    <2>1. net[t].req \in Seq(Kinds)
      BY <1>1, NetFields
    <2>2. k \in Kinds /\ q \in Seq(Kinds)
      BY <1>1, <2>1, Ends1
    <2> HIDE DEF k
    <2>3. Yes(k) \in Nat /\ No(k) \in Nat /\ Yes(k) # No(k)
      BY <2>2, SessionAssumption DEF Yes, No, Kinds
    <2> QED BY <2>2, <2>3
  <1>3. PICK r \in {<<>>, <<Yes(k)>>, <<No(k)>>} :
          /\ net' = [net EXCEPT ![t].req = Tail(@), ![t].rep = @ \o r]
          /\ r = <<Yes(k)>> =>
               srv' = [srv EXCEPT ![c] = [srv[c] EXCEPT !.pc = "data", !.log = k]]
          /\ r # <<Yes(k)>> => srv' = srv
    <2>1. <<>> # <<Yes(k)>> /\ <<No(k)>> # <<Yes(k)>>
      BY <1>2
    <2>2. \E r \in {<<>>, <<Yes(k)>>, <<No(k)>>} :
            /\ net' = [net EXCEPT ![t].req = Tail(@), ![t].rep = @ \o r]
            /\ \/ /\ r = <<Yes(k)>>
                  /\ srv' = [srv EXCEPT ![c] = [srv[c] EXCEPT !.pc = "data", !.log = k]]
               \/ r # <<Yes(k)>> /\ srv' = srv
      BY <2>1, Zenon DEF ServerAnswer, Become
    <2> QED BY <2>2, Zenon
  <1> DEFINE p == net[t].rep \o r
  <1>4. p \in Seq(Nat)
    <2>1. r \in Seq(Nat)
      <3>1. <<Yes(k)>> \in Seq(Nat) /\ <<No(k)>> \in Seq(Nat) /\ <<>> \in Seq(Nat)
        BY <1>2, OneTyped, NoElement
      <3> QED BY <3>1
    <2>2. net[t].rep \in Seq(Nat)
      BY <1>1, NetFields
    <2> QED BY <2>1, <2>2
  <1>5. net' = [net EXCEPT ![t].req = q, ![t].rep = p]
    BY <1>3
  <1> HIDE DEF p, q
  <1>6. NetBecomes(t, q, p, net[t].data)
    BY <1>1, <1>2, <1>4, <1>5, PutReqRep
  <1> QED BY <1>1, <1>2, <1>3, <1>6 DEF p, q

(***************************************************************************)
(* The file is sent to the task whose connection was accepted.             *)
(***************************************************************************)
FileSent(c, t) ==
  \E n \in Sizes :
    /\ n \in Nat /\ NetBecomes(t, net[t].req, net[t].rep, [i \in 1..n |-> i])
    /\ sent' = IF n = 0 THEN sent ELSE sent \cup {<<srv[c].task, srv[c].log>>}

LEMMA ServerDataNet ==
  ASSUME NetType, SrvType, NEW c \in Clients, ServerData(c), NEW t, t = Head(srv[c].dataq)
  PROVE  t \in Tasks /\ (FileSent(c, t) \/ (net' = net /\ sent' = sent))
PROOF
  <1>1. t \in Tasks
    <2>1. srv[c].dataq \in Seq(Tasks) /\ srv[c].dataq # <<>>
      BY DEF ServerData, SrvType, Server
    <2> QED BY <2>1, Ends1
  <1>2. \/ net' = net /\ sent' = sent
        \/ \E n \in Sizes :
             /\ net' = [net EXCEPT ![t].data = [i \in 1..n |-> i]]
             /\ sent' = IF n = 0 THEN sent ELSE sent \cup {<<srv[c].task, srv[c].log>>}
    BY DEF ServerData
  <1>3. ASSUME NEW n \in Sizes,
               net' = [net EXCEPT ![t].data = [i \in 1..n |-> i]],
               sent' = IF n = 0 THEN sent ELSE sent \cup {<<srv[c].task, srv[c].log>>}
        PROVE  FileSent(c, t)
    <2> DEFINE d == [i \in 1..n |-> i]
    <2>1. n \in Nat /\ d \in Seq(Nat) /\ net' = [net EXCEPT ![t].data = d]
      BY <1>3, SessionAssumption
    <2> HIDE DEF d
    <2>2. NetBecomes(t, net[t].req, net[t].rep, d)
      BY <1>1, <2>1, PutData
    <2> QED BY <1>3, <2>1, <2>2 DEF d, FileSent
  <1> QED BY <1>1, <1>2, <1>3

(***************************************************************************)
(* The end of a client, and of a host: requests are gone; an answer or     *)
(* data, which may be followed by the end of the stream, is kept, or lost  *)
(* with the host.                                                          *)
(***************************************************************************)
KeepsStreams(t) ==
  net'[t].rep = net[t].rep /\ (net'[t].data = EndedData(t) \/ net'[t].data = net[t].data)

LEMMA KillNet ==
  ASSUME NetType, NEW c \in Clients, Kill(c)
  PROVE  /\ net' \in [Tasks -> Streams]
         /\ \A t \in Tasks :
              /\ Host[t] # c => net'[t] = net[t]
              /\ Host[t] = c => net'[t].req = <<>> /\ KeepsStreams(t)
PROOF
  <1>1. PICK forgotten \in SUBSET lost :
          net' = [t \in Tasks |->
            IF Host[t] # c THEN net[t]
            ELSE [net[t] EXCEPT !.req = <<>>,
                                !.data = IF t \in forgotten THEN @ ELSE Ends(t)[t].data]]
    BY DEF Kill
  <1>2. ASSUME NEW t \in Tasks
        PROVE  Ends(t)[t].data = EndedData(t)
    BY <1>2 DEF Ends, EndedData, NetType, Streams
  <1>3. ASSUME NEW t \in Tasks
        PROVE  /\ net'[t] \in Streams
               /\ Host[t] # c => net'[t] = net[t]
               /\ Host[t] = c => net'[t].req = <<>> /\ KeepsStreams(t)
    <2> DEFINE d == IF t \in forgotten THEN net[t].data ELSE EndedData(t)
    <2>1. d \in Seq(Nat) /\ net[t] \in Streams
      BY EndedType, NetFields DEF NetType
    <2>2. net'[t] = IF Host[t] # c THEN net[t] ELSE [net[t] EXCEPT !.req = <<>>, !.data = d]
      BY <1>1, <1>2
    <2>3. d = EndedData(t) \/ d = net[t].data
      OBVIOUS
    <2> HIDE DEF d
    <2>4. CASE Host[t] = c
      <3>1. net'[t] = [net[t] EXCEPT !.req = <<>>, !.data = d]
        BY <2>2, <2>4
      <3>2. /\ net'[t] \in Streams
            /\ net'[t].req = <<>> /\ net'[t].rep = net[t].rep /\ net'[t].data = d
        BY <2>1, <3>1, NoElement DEF Streams
      <3> QED BY <2>3, <2>4, <3>2 DEF KeepsStreams
    <2>5. CASE Host[t] # c
      BY <2>1, <2>2, <2>5
    <2> QED BY <2>4, <2>5
  <1>4. net' = [t \in Tasks |-> net'[t]]
    BY <1>1
  <1> QED BY <1>3, <1>4

LEMMA VanishNet ==
  ASSUME NetType, NEW c \in Clients, Vanish(c)
  PROVE  /\ net' \in [Tasks -> Streams]
         /\ \A t \in Tasks :
              /\ Host[t] # c => net'[t] = net[t]
              /\ Host[t] = c => net'[t].req = <<>>
              /\ Host[t] = c => KeepsStreams(t)
                                  \/ (t \in lost' /\ net'[t].rep = <<>> /\ net'[t].data = <<>>)
PROOF
  <1>1. PICK missing \in SUBSET {t \in open : Host[t] = c} :
          net' = [t \in Tasks |->
            IF t \in missing THEN [req |-> <<>>, rep |-> <<>>, data |-> <<>>]
            ELSE IF Host[t] = c THEN [net[t] EXCEPT !.req = <<>>]
            ELSE net[t]]
    BY DEF Vanish
  <1>2. lost' = lost \cup {t \in open : Host[t] = c}
    BY DEF Vanish
  <1>3. ASSUME NEW t \in Tasks
        PROVE  /\ net'[t] \in Streams
               /\ Host[t] # c => net'[t] = net[t]
               /\ Host[t] = c => net'[t].req = <<>>
               /\ Host[t] = c => KeepsStreams(t)
                                   \/ (t \in lost' /\ net'[t].rep = <<>> /\ net'[t].data = <<>>)
    <2>1. net[t] \in Streams
      BY DEF NetType
    <2>2. CASE t \in missing
      <3>1. net'[t] = [req |-> <<>>, rep |-> <<>>, data |-> <<>>] /\ Host[t] = c /\ t \in lost'
        BY <1>1, <1>2, <2>2
      <3> QED BY <3>1, NoElement DEF Streams
    <2>3. CASE t \notin missing /\ Host[t] = c
      <3>1. net'[t] = [net[t] EXCEPT !.req = <<>>]
        BY <1>1, <2>3
      <3>2. /\ net'[t] \in Streams
            /\ net'[t].req = <<>> /\ net'[t].rep = net[t].rep /\ net'[t].data = net[t].data
        BY <2>1, <3>1, NoElement DEF Streams
      <3> QED BY <2>3, <3>2 DEF KeepsStreams
    <2>4. CASE t \notin missing /\ Host[t] # c
      BY <1>1, <2>1, <2>4
    <2> QED BY <2>2, <2>3, <2>4
  <1>4. net' = [t \in Tasks |-> net'[t]]
    BY <1>1
  <1> QED BY <1>3, <1>4

-----------------------------------------------------------------------------
(***************************************************************************)
(* What each step does to the servers: the fields of one of them.          *)
(***************************************************************************)
SrvBecomes(c, label, cq, dq, t, p, k) ==
  /\ srv' \in [Clients -> Server] /\ \A d \in Clients : d # c => srv'[d] = srv[d]
  /\ srv'[c].pc = label /\ srv'[c].ctrlq = cq /\ srv'[c].dataq = dq
  /\ srv'[c].task = t /\ srv'[c].peer = p /\ srv'[c].log = k

LEMMA SrvFields ==
  ASSUME SrvType, NEW c \in Clients
  PROVE  /\ srv[c] \in Server /\ srv[c].pc \in ServerPCs
         /\ srv[c].ctrlq \in Seq(Tasks) /\ srv[c].dataq \in Seq(Tasks) /\ srv[c].log \in Nat
         /\ srv[c].task \in Tasks \cup {NoTask} /\ srv[c].peer \in Tasks \cup {NoTask}
BY DEF SrvType, Server

LEMMA AcceptSrv ==
  ASSUME SrvType, NEW c \in Clients, ServerAccept(c)
  PROVE  LET s == srv[c]
         IN  /\ s.pc = "accept" /\ s.ctrlq # <<>>
             /\ SrvBecomes(c, "recv", Tail(s.ctrlq), s.dataq, Head(s.ctrlq), s.peer, s.log)
PROOF
  <1> DEFINE t == Head(srv[c].ctrlq)
             q == Tail(srv[c].ctrlq)
  <1>1. srv[c].pc = "accept" /\ srv[c].ctrlq # <<>> /\ t \in Tasks /\ q \in Seq(Tasks)
    BY SrvFields, Ends1 DEF ServerAccept, Serving
  <1>2. srv' = [srv EXCEPT ![c] = [srv[c] EXCEPT !.pc = "recv", !.task = t, !.ctrlq = q]]
    BY DEF ServerAccept, Become
  <1>3. /\ t = Head(srv[c].ctrlq) /\ q = Tail(srv[c].ctrlq) /\ "recv" \in ServerPCs
        /\ srv \in [Clients -> Server]
    BY DEF ServerPCs, SrvType
  <1> HIDE DEF t, q
  <1> QED BY <1>1, <1>2, <1>3 DEF Server, SrvBecomes

LEMMA PromiseSrv ==
  ASSUME SrvType, NEW c \in Clients, NEW k \in Nat,
         srv' = [srv EXCEPT ![c] = [srv[c] EXCEPT !.pc = "data", !.log = k]]
  PROVE  LET s == srv[c] IN SrvBecomes(c, "data", s.ctrlq, s.dataq, s.task, s.peer, k)
PROOF
  <1>1. "data" \in ServerPCs /\ srv \in [Clients -> Server]
    BY DEF ServerPCs, SrvType
  <1> QED BY <1>1 DEF Server, SrvBecomes

LEMMA DataSrv ==
  ASSUME SrvType, NEW c \in Clients, ServerData(c)
  PROVE  LET s == srv[c]
         IN  /\ s.pc = "data" /\ s.dataq # <<>>
             /\ \/ SrvBecomes(c, "remove", s.ctrlq, Tail(s.dataq), s.task, Head(s.dataq), s.log)
                \/ /\ SrvBecomes(c, "recv", s.ctrlq, Tail(s.dataq), s.task, s.peer, 0)
                   /\ net' = net /\ sent' = sent
PROOF
  <1> DEFINE t == Head(srv[c].dataq)
             q == Tail(srv[c].dataq)
  <1>1. srv[c].pc = "data" /\ srv[c].dataq # <<>> /\ t \in Tasks /\ q \in Seq(Tasks)
    BY SrvFields, Ends1 DEF ServerData, Serving
  <1>2. \/ srv' = [srv EXCEPT ![c] = [srv[c] EXCEPT !.pc = "remove", !.peer = t, !.dataq = q]]
        \/ /\ srv' = [srv EXCEPT ![c] = [srv[c] EXCEPT !.pc = "recv", !.log = 0, !.dataq = q]]
           /\ net' = net /\ sent' = sent
    BY <1>1 DEF ServerData, Become, SrvType, Server
  <1>3. /\ t = Head(srv[c].dataq) /\ q = Tail(srv[c].dataq)
        /\ "remove" \in ServerPCs /\ "recv" \in ServerPCs /\ 0 \in Nat
        /\ srv \in [Clients -> Server]
    BY DEF ServerPCs, SrvType
  <1> HIDE DEF t, q
  <1>4. ASSUME srv' = [srv EXCEPT ![c] = [srv[c] EXCEPT !.pc = "remove", !.peer = t, !.dataq = q]]
        PROVE  SrvBecomes(c, "remove", srv[c].ctrlq, q, srv[c].task, t, srv[c].log)
    BY <1>1, <1>3, <1>4 DEF Server, SrvBecomes
  <1>5. ASSUME srv' = [srv EXCEPT ![c] = [srv[c] EXCEPT !.pc = "recv", !.log = 0, !.dataq = q]]
        PROVE  SrvBecomes(c, "recv", srv[c].ctrlq, q, srv[c].task, srv[c].peer, 0)
    BY <1>1, <1>3, <1>5 DEF Server, SrvBecomes
  <1> QED BY <1>1, <1>2, <1>3, <1>4, <1>5

LEMMA NoAcceptSrv ==
  ASSUME SrvType, NEW c \in Clients, DataAcceptFails(c)
  PROVE  LET s == srv[c]
         IN  s.pc = "data" /\ SrvBecomes(c, "recv", s.ctrlq, s.dataq, s.task, s.peer, 0)
PROOF
  <1>1. srv[c].pc = "data" /\ "recv" \in ServerPCs /\ 0 \in Nat /\ srv \in [Clients -> Server]
    BY DEF DataAcceptFails, Serving, ServerPCs, SrvType
  <1>2. srv' = [srv EXCEPT ![c] = [srv[c] EXCEPT !.pc = "recv", !.log = 0]]
    BY DEF DataAcceptFails, Become
  <1> QED BY <1>1, <1>2 DEF Server, SrvBecomes

LEMMA RemoveSrv ==
  ASSUME SrvType, NEW c \in Clients, ServerRemove(c)
  PROVE  LET s == srv[c]
         IN  s.pc = "remove" /\ SrvBecomes(c, "recv", s.ctrlq, s.dataq, s.task, NoTask, 0)
PROOF
  <1>1. srv[c].pc = "remove" /\ "recv" \in ServerPCs /\ 0 \in Nat /\ srv \in [Clients -> Server]
    BY DEF ServerRemove, Serving, ServerPCs, SrvType
  <1>2. srv' = [srv EXCEPT ![c] = [srv[c] EXCEPT !.pc = "recv", !.peer = NoTask, !.log = 0]]
    BY DEF ServerRemove, Become
  <1> QED BY <1>1, <1>2 DEF Server, SrvBecomes

LEMMA EndSrv ==
  ASSUME SrvType, NEW c \in Clients, ServerEnd(c)
  PROVE  LET s == srv[c]
         IN  s.pc = "recv" /\ SrvBecomes(c, "accept", s.ctrlq, s.dataq, NoTask, s.peer, s.log)
PROOF
  <1>1. srv[c].pc = "recv" /\ "accept" \in ServerPCs /\ srv \in [Clients -> Server]
    BY DEF ServerEnd, Serving, ServerPCs, SrvType
  <1>2. srv' = [srv EXCEPT ![c] = [srv[c] EXCEPT !.pc = "accept", !.task = NoTask]]
    BY DEF ServerEnd, Become
  <1> QED BY <1>1, <1>2 DEF Server, SrvBecomes

LEMMA FreshServer ==
  /\ Fresh \in Server /\ [Fresh EXCEPT !.pc = "down"] \in Server
  /\ [Fresh EXCEPT !.pc = "down"]
       = [pc |-> "down", ctrlq |-> <<>>, dataq |-> <<>>, task |-> NoTask, peer |-> NoTask, log |-> 0]
PROOF
  <1>1. <<>> \in Seq(Tasks) /\ "accept" \in ServerPCs /\ "down" \in ServerPCs /\ 0 \in Nat
    BY NoElement DEF ServerPCs
  <1>2. [Fresh EXCEPT !.pc = "down"]
          = [pc |-> "down", ctrlq |-> <<>>, dataq |-> <<>>, task |-> NoTask, peer |-> NoTask, log |-> 0]
    BY DEF Fresh
  <1> QED BY <1>1, <1>2 DEF Fresh, Server

LEMMA KillSrv ==
  ASSUME SrvType, NEW c \in Clients, Kill(c) \/ Vanish(c)
  PROVE  srv[c].pc # "down" /\ SrvBecomes(c, "down", <<>>, <<>>, NoTask, NoTask, 0)
PROOF
  <1>1. /\ srv' = [srv EXCEPT ![c] = [Fresh EXCEPT !.pc = "down"]] /\ srv \in [Clients -> Server]
        /\ srv[c].pc # "down"
    BY DEF Kill, Vanish, Become, Serving, SrvType
  <1> QED BY <1>1, FreshServer DEF SrvBecomes

LEMMA RestartSrv ==
  ASSUME SrvType, NEW c \in Clients, Restart(c)
  PROVE  srv[c].pc = "down" /\ SrvBecomes(c, "accept", <<>>, <<>>, NoTask, NoTask, 0)
PROOF
  <1>1. /\ srv' = [srv EXCEPT ![c] = Fresh] /\ srv \in [Clients -> Server] /\ srv[c].pc = "down"
    BY DEF Restart, Become, Serving, SrvType
  <1> QED BY <1>1, FreshServer DEF SrvBecomes, Fresh

-----------------------------------------------------------------------------
(***************************************************************************)
(* The types hold at first, and every step keeps them.                     *)
(***************************************************************************)
LEMMA TypeInit == ASSUME Init PROVE TypeInv
PROOF
  <1>1. TaskType
    <2>1. ASSUME NEW t \in Tasks
          PROVE  mpc[t] = "connect" /\ kind[t] = 0 /\ buffer[t] = 0
      BY DEF Init
    <2>2. "connect" \in Labels /\ "connect" \in Idle /\ 0 \in 0..N /\ 0 \in Int
      BY SessionAssumption DEF Labels, Idle
    <2>3. /\ mpc \in [Tasks -> Labels] /\ kind \in [Tasks -> 0..N] /\ buffer \in [Tasks -> Int]
          /\ open \subseteq Tasks /\ taken \in [Tasks -> {NoTask, Other} \cup Tasks]
      BY <2>2 DEF Init
    <2> QED BY <2>1, <2>2, <2>3 DEF TaskType
  <1>2. OtherType
    <2>1. crashed \in BOOLEAN /\ foreign \in BOOLEAN /\ strayed \in BOOLEAN
      BY Zenon DEF Init
    <2>2. /\ has \in [Clients -> SUBSET Kinds] /\ sent \subseteq Tasks \X Kinds /\ kills \in 0..MaxKills
          /\ dead \subseteq Tasks /\ lost \subseteq Tasks
      BY SessionAssumption DEF Init
    <2> QED BY <2>1, <2>2 DEF OtherType
  <1>3. NetType
    <2>1. [req |-> <<>>, rep |-> <<>>, data |-> <<>>] \in Streams
      BY NoElement DEF Streams
    <2> QED BY <2>1 DEF Init, NetType
  <1>4. SrvType
    <2>1. srv \in [Clients -> Server]
      BY FreshServer DEF Init
    <2>2. ASSUME NEW c \in Clients
          PROVE  srv[c].ctrlq \in Seq(Visitors(c)) /\ srv[c].pc = "accept"
      <3>1. srv[c] = Fresh
        BY DEF Init
      <3>2. srv[c].ctrlq = <<>> /\ srv[c].pc = "accept"
        BY <3>1 DEF Fresh
      <3> QED BY <3>2, NoElement
    <2> QED BY <2>1, <2>2 DEF SrvType, SrvOwn
  <1> QED BY <1>1, <1>2, <1>3, <1>4 DEF TypeInv

LEMMA GoesType ==                                (* a task that goes on or takes the next log *)
  ASSUME TaskType, NEW t \in Tasks, NEW label \in Labels,
         \/ Goto(t, label) /\ kind' = kind /\ (label \in Idle \/ mpc[t] \notin Idle)
         \/ NextKind(t) /\ mpc[t] \notin Idle
         \/ Goto(t, label) /\ kind' = kind /\ kind[t] \in Kinds
  PROVE  /\ mpc' \in [Tasks -> Labels] /\ kind' \in [Tasks -> 0..N]
         /\ \A u \in Tasks : mpc'[u] \notin Idle => kind'[u] \in Kinds
BY SessionAssumption DEF TaskType, Goto, NextKind, Labels, Idle, Kinds

TakenType == taken \in [Tasks -> {NoTask, Other} \cup Tasks]

LEMMA GivesType ==
  ASSUME TakenType, NEW T, NEW x \in {NoTask, Other} \cup Tasks, Gives(T, x)
  PROVE  TakenType'
BY DEF TakenType, Gives

LEMMA NewSocketType ==
  ASSUME TakenType, NEW x \in {NoTask, Other} \cup Tasks, NewSocket(x)
  PROVE  TakenType'
PROOF
  <1>1. PICK T : Gives(T, x)
    BY Zenon DEF NewSocket
  <1> QED BY <1>1, GivesType

LEMMA LeavesType ==
  ASSUME TaskType, NEW t \in Tasks, mpc[t] = "again", LeavesLoop(t) \/ Steals, UNCHANGED <<buffer, open>>
  PROVE  TaskType'
PROOF
  <1>1. CASE LeavesLoop(t)
    <2>1. NextKind(t) /\ taken' = [taken EXCEPT ![t] = NoTask] /\ mpc[t] \notin Idle
      BY <1>1 DEF LeavesLoop, Idle
    <2> QED BY <2>1, GoesType DEF TaskType, Labels
  <1>2. CASE Steals
    BY <1>2 DEF Steals, TaskType
  <1> QED BY <1>1, <1>2

LEMMA TaskNext ==
  ASSUME TypeInv, NEW t \in Tasks, ctrl_data_pthread(t)
  PROVE  TaskType'
PROOF
  <1> USE DEF TypeInv, At
  <1>0. TakenType
    BY DEF TaskType, TakenType
  <1>1. CASE Connect(t)
    <2>1. /\ \/ Goto(t, "send") \/ Goto(t, "done")
          /\ kind' = kind /\ buffer' = buffer
          /\ (open' = open \cup {t} /\ NewSocket(t)) \/ (open' = open /\ taken' = taken)
      BY <1>1 DEF Connect, Fails
    <2>2. TakenType'
      BY <1>0, <2>1, NewSocketType DEF TakenType
    <2> QED BY <2>1, <2>2, GoesType DEF TaskType, TakenType, Labels, Idle
  <1>2. CASE SendRequest(t)
    <2>1. /\ Goto(t, "recv") \/ Goto(t, "done")
          /\ kind[t] \in Kinds
          /\ UNCHANGED <<kind, buffer, open, taken>>
      BY <1>2 DEF SendRequest
    <2> QED BY <2>1, GoesType DEF TaskType, Labels, Idle
  <1>3. CASE Die(t)
    <2>1. /\ mpc' = [s \in Tasks |-> IF mpc[s] = "connect" THEN "connect" ELSE "gone"]
          /\ open' = {} /\ taken' = [s \in Tasks |-> NoTask]
          /\ UNCHANGED <<kind, buffer>>
      BY <1>3 DEF Die
    <2> QED BY <2>1 DEF TaskType, Labels, Idle
  <1>4. CASE Close(t)
    <2>1. /\ Goto(t, "done") /\ open' = open \ {t} /\ UNCHANGED <<kind, buffer>>
          /\ \E T : Gives(T, NoTask)
      BY <1>4, Zenon DEF Close
    <2>2. TakenType'
      BY <1>0, <2>1, GivesType
    <2> QED BY <2>1, <2>2, GoesType DEF TaskType, TakenType, Labels, Idle
  <1>5. CASE Skip(t) \/ EndOfData(t) \/ RecvClosed(t)
    <2>1. NextKind(t) /\ mpc[t] \notin Idle /\ UNCHANGED <<buffer, open, taken>>
      BY <1>5 DEF Skip, EndOfData, RecvClosed, Idle
    <2> QED BY <2>1, GoesType DEF TaskType, Labels
  <1>6. CASE SetDir(t) \/ AppendIp(t) \/ AppendName(t)
    <2>1. /\ Goto(t, "data") \/ Goto(t, "name") \/ Goto(t, "store")
          /\ mpc[t] \notin Idle /\ UNCHANGED <<kind, buffer, open, taken>>
      BY <1>6 DEF SetDir, AppendIp, AppendName, Idle
    <2> QED BY <2>1, GoesType DEF TaskType, Labels
  <1>7. CASE DataConnect(t)
    <2>1. /\ Goto(t, "read") \/ Goto(t, "done")
          /\ mpc[t] \notin Idle /\ UNCHANGED <<kind, buffer, open, taken>>
      BY <1>7 DEF DataConnect, Fails, Idle
    <2> QED BY <2>1, GoesType DEF TaskType, Labels, Idle
  <1>8. CASE ReadBuffer(t)
    <2>1. /\ Goto(t, "ip") /\ mpc[t] \notin Idle /\ UNCHANGED <<kind, open, taken>>
          /\ buffer' = [buffer EXCEPT ![t] = Head(net[t].data)] /\ net[t].data # <<>>
      BY <1>8 DEF ReadBuffer, Idle
    <2>2. Head(net[t].data) \in Nat
      BY <2>1, NetFields, Ends1
    <2>3. buffer' \in [Tasks -> Int]
      BY <2>1, <2>2 DEF TaskType
    <2> QED BY <2>1, <2>3, GoesType DEF TaskType, Labels
  <1>9. CASE Store(t)
    <2>1. /\ Goto(t, "again") /\ mpc[t] \notin Idle /\ UNCHANGED <<kind, open, taken>>
          /\ buffer' = [buffer EXCEPT ![t] = 0]
      BY <1>9 DEF Store, Idle
    <2> QED BY <2>1, GoesType DEF TaskType, Labels
  <1>10. CASE RecvForeign(t)
    <2>1. mpc[t] = "again" /\ (LeavesLoop(t) \/ Steals) /\ UNCHANGED <<buffer, open>>
      BY <1>10, Zenon DEF RecvForeign
    <2> QED BY <2>1, LeavesType
  <1> QED BY <1>1, <1>2, <1>3, <1>4, <1>5, <1>6, <1>7, <1>8, <1>9, <1>10 DEF ctrl_data_pthread

LEMMA OtherTaskNext == ASSUME TypeInv, OtherStep PROVE TaskType'
PROOF
  <1> USE DEF TypeInv
  <1>1. CASE OtherOpens \/ OtherCloses
    <2>1. /\ UNCHANGED <<mpc, kind, buffer, open>>
          /\ NewSocket(Other) \/ \E T : Gives(T, NoTask)
      BY <1>1, Zenon DEF OtherOpens, OtherCloses
    <2>2. TakenType
      BY DEF TaskType, TakenType
    <2>3. TakenType'
      BY <2>1, <2>2, NewSocketType, GivesType
    <2> QED BY <2>1, <2>3 DEF TaskType, TakenType
  <1>2. ASSUME NEW t \in Tasks, RecvOther(t)
        PROVE  TaskType'
    BY <1>2, LeavesType DEF RecvOther, At
  <1>3. ASSUME NEW t \in Tasks, Reset(t)
        PROVE  TaskType'
    BY <1>3 DEF Reset, taskVars, TaskType
  <1> QED BY <1>1, <1>2, <1>3 DEF OtherStep

LEMMA ServerTaskNext == ASSUME TypeInv, NEW c \in Clients, ServerStep(c) PROVE TaskType'
PROOF
  <1>1. UNCHANGED taskVars
    BY Zenon DEF ServerStep, ctrl_server, ServerAccept, ServerAnswer, ServerData, ServerRemove, ServerEnd,
       DataAcceptFails, Kill, Vanish, Restart, LogAppears
  <1> QED BY <1>1 DEF taskVars, TypeInv, TaskType

LEMMA OtherNext == ASSUME TypeInv, Next PROVE OtherType'
PROOF
  <1> USE DEF TypeInv, OtherType
  <1>1. ASSUME NEW t \in Tasks, ctrl_data_pthread(t)
        PROVE  OtherType'
    <2>1. has' = has /\ sent' = sent /\ kills' = kills /\ dead' = dead /\ lost' = lost
      BY <1>1, Zenon DEF ctrl_data_pthread, Connect, SendRequest, Die, Close, Skip, SetDir, DataConnect,
         EndOfData, ReadBuffer, AppendIp, AppendName, Store, RecvClosed, RecvForeign, clientVars, linkVars
    <2>2. crashed' \in BOOLEAN
      BY <1>1, Zenon DEF ctrl_data_pthread, Connect, SendRequest, Die, Close, Skip, SetDir, DataConnect,
         EndOfData, ReadBuffer, AppendIp, AppendName, AppendTo, Store, RecvClosed, RecvForeign, fileVars
    <2>3. foreign' \in BOOLEAN
      BY <1>1, Zenon DEF ctrl_data_pthread, Connect, SendRequest, Die, Close, Skip, SetDir, DataConnect,
         EndOfData, ReadBuffer, AppendIp, AppendName, Store, RecvClosed, RecvForeign, LeavesLoop, Steals,
         fileVars
    <2>4. strayed' \in BOOLEAN
      BY <1>1, Zenon DEF ctrl_data_pthread, Connect, SendRequest, Die, Close, Skip, SetDir, DataConnect,
         EndOfData, ReadBuffer, AppendIp, AppendName, Store, RecvClosed, RecvForeign, linkVars
    <2> QED BY <2>1, <2>2, <2>3, <2>4
  <1>2. ASSUME OtherStep
        PROVE  OtherType'
    <2>1. /\ UNCHANGED <<has, sent, kills, crashed, lost, strayed>>
          /\ foreign' = foreign \/ foreign'
      BY <1>2, Zenon DEF OtherStep, OtherOpens, OtherCloses, RecvOther, Reset, LeavesLoop, Steals,
         fileVars, clientVars, linkVars
    <2>2. foreign' \in BOOLEAN
      BY <1>2, Zenon DEF OtherStep, OtherOpens, OtherCloses, RecvOther, Reset, LeavesLoop, Steals, fileVars
    <2>3. dead' = dead \/ \E t \in Tasks : dead' = dead \cup {t}
      BY <1>2, Zenon DEF OtherStep, OtherOpens, OtherCloses, RecvOther, Reset, linkVars
    <2> QED BY <2>1, <2>2, <2>3
  <1>3. ASSUME NEW c \in Clients, ServerStep(c)
        PROVE  OtherType'
    <2> USE DEF ServerStep, ctrl_server
    <2>1. UNCHANGED fileVars
      BY <1>3, Zenon DEF ServerAccept, ServerAnswer, ServerData, ServerRemove, ServerEnd, DataAcceptFails,
         Kill, Vanish, Restart, LogAppears
    <2>2. kills' \in 0..MaxKills
      <3>1. CASE Kill(c) \/ Vanish(c)
        <4>1. kills < MaxKills /\ kills' = kills + 1
          BY <3>1, Zenon DEF Kill, Vanish
        <4>2. kills \in 0..MaxKills
          OBVIOUS
        <4> HIDE DEF TypeInv, OtherType
        <4> QED BY <4>1, <4>2, SessionAssumption
      <3>2. CASE ~(Kill(c) \/ Vanish(c))
        BY <1>3, <3>2 DEF ServerAccept, ServerAnswer, ServerData, ServerRemove,
           ServerEnd, DataAcceptFails, Restart, LogAppears
      <3> QED BY <3>1, <3>2
    <2>3. has' \in [Clients -> SUBSET Kinds]
      BY <1>3 DEF ServerAccept, ServerAnswer, ServerData, ServerRemove, ServerEnd, DataAcceptFails,
         Kill, Vanish, Restart, LogAppears
    <2>4. sent' \subseteq Tasks \X Kinds
      <3>1. CASE ServerData(c)
        <4>1. srv[c].task \in Tasks /\ srv[c].log \in Kinds
          BY <3>1 DEF ServerData, Serving, SrvType, SrvOwn, Visitors
        <4>2. sent' = sent \/ sent' = sent \cup {<<srv[c].task, srv[c].log>>}
          BY <3>1 DEF ServerData
        <4> QED BY <4>1, <4>2
      <3>2. CASE ~ServerData(c)
        BY <1>3, <3>2 DEF ServerAccept, ServerAnswer, ServerRemove, ServerEnd, DataAcceptFails,
           Kill, Vanish, Restart, LogAppears
      <3> QED BY <3>1, <3>2
    <2>5. dead' \subseteq Tasks /\ lost' \subseteq Tasks
      BY <1>3 DEF ServerAccept, ServerAnswer, ServerData, ServerRemove, ServerEnd, DataAcceptFails,
         Kill, Vanish, Restart, LogAppears, linkVars, TaskType
    <2>6. strayed' \in BOOLEAN
      BY <1>3, Zenon DEF ServerAccept, ServerAnswer, ServerData, ServerRemove, ServerEnd, DataAcceptFails,
         Kill, Vanish, Restart, LogAppears, linkVars
    <2> QED BY <2>1, <2>2, <2>3, <2>4, <2>5, <2>6 DEF fileVars
  <1> QED BY <1>1, <1>2, <1>3, Steps

LEMMA NetNext == ASSUME TypeInv, Next PROVE NetType'
PROOF
  <1> USE DEF TypeInv
  <1>1. ASSUME NEW t \in Tasks, NEW q, NEW r, NEW d, NetBecomes(t, q, r, d)
        PROVE  NetType'
    BY <1>1 DEF NetBecomes, NetType
  <1>2. ASSUME net' = net
        PROVE  NetType'
    BY <1>2 DEF NetType
  <1>3. ASSUME NEW t \in Tasks, ctrl_data_pthread(t)
        PROVE  NetType'
    <2>1. CASE SendRequest(t)
      BY <2>1, <1>1, <1>2, SendNet
    <2>2. CASE Skip(t) \/ SetDir(t)
      <3>1. \/ net' = net
            \/ net[t].rep # <<>> /\ net' = [net EXCEPT ![t].rep = Tail(@)]
        BY <2>2, Zenon DEF Skip, SetDir
      <3> QED BY <3>1, <1>1, <1>2, TakeRep
    <2>3. CASE DataConnect(t) \/ Store(t) \/ EndOfData(t)
      <3>1. net' = [net EXCEPT ![t].data = <<>>]
        BY <2>3, Zenon DEF DataConnect, Store, EndOfData
      <3> QED BY <3>1, <1>1, NoData
    <2>4. CASE ReadBuffer(t)
      <3>1. net[t].data # <<>> /\ net' = [net EXCEPT ![t].data = Tail(@)]
        BY <2>4, Zenon DEF ReadBuffer
      <3> QED BY <3>1, <1>1, TakeData
    <2>5. CASE \/ Connect(t) \/ Die(t) \/ Close(t) \/ AppendIp(t) \/ AppendName(t) \/ RecvClosed(t)
               \/ RecvForeign(t)
      BY <2>5, <1>2 DEF Connect, Die, Close, AppendIp, AppendName, RecvClosed, RecvForeign
    <2> QED BY <1>3, <2>1, <2>2, <2>3, <2>4, <2>5 DEF ctrl_data_pthread
  <1>4. ASSUME NEW c \in Clients, ServerStep(c)
        PROVE  NetType'
    <2>1. CASE ServerAnswer(c)
      <3> DEFINE t == srv[c].task
      <3>1. t = srv[c].task
        OBVIOUS
      <3> HIDE DEF t
      <3>2. net' \in [Tasks -> Streams]
        BY <2>1, <3>1, AnswerNet DEF NetBecomes
      <3> QED BY <3>2 DEF NetType
    <2>2. CASE ServerData(c)
      BY <2>2, <1>1, <1>2, ServerDataNet DEF FileSent
    <2>3. CASE ServerRemove(c)
      <3>1. srv[c].peer \in Tasks
        BY <2>3 DEF ServerRemove, Serving, SrvType, SrvOwn
      <3>2. net' = Ends(srv[c].peer) \/ net' = net
        BY <2>3 DEF ServerRemove
      <3> QED BY <3>1, <3>2, <1>1, <1>2, EndNet
    <2>4. CASE Kill(c) \/ Vanish(c)
      BY <2>4, KillNet, VanishNet DEF NetType
    <2>5. CASE \/ ServerAccept(c) \/ ServerEnd(c) \/ DataAcceptFails(c) \/ Restart(c)
               \/ \E k \in Kinds : LogAppears(c, k)
      BY <2>5, <1>2 DEF ServerAccept, ServerEnd, DataAcceptFails, Restart, LogAppears
    <2> QED BY <1>4, <2>1, <2>2, <2>3, <2>4, <2>5 DEF ServerStep, ctrl_server
  <1>5. ASSUME OtherStep
        PROVE  NetType'
    BY <1>5, <1>2 DEF OtherStep, OtherOpens, OtherCloses, RecvOther, Reset
  <1> QED BY <1>3, <1>4, <1>5, Steps

(***************************************************************************)
(* The server's own part of the type, after a step of that server alone or *)
(* of one of its visitors.                                                 *)
(***************************************************************************)
LEMMA OwnBecomes ==
  ASSUME SrvType, NEW c \in Clients, NEW label, NEW cq, NEW dq, NEW t, NEW p, NEW k,
         SrvBecomes(c, label, cq, dq, t, p, k),
         cq \in Seq(Visitors(c)),
         label \in {"recv", "data", "remove"} => t \in Visitors(c),
         label \in {"data", "remove"} => k \in Kinds,
         label = "remove" => p \in Tasks
  PROVE  SrvType'
PROOF
  <1>1. srv' \in [Clients -> Server]
    BY DEF SrvBecomes
  <1>2. ASSUME NEW d \in Clients
        PROVE  /\ srv'[d].ctrlq \in Seq(Visitors(d))
               /\ srv'[d].pc \in {"recv", "data", "remove"} => srv'[d].task \in Visitors(d)
               /\ srv'[d].pc \in {"data", "remove"} => srv'[d].log \in Kinds
               /\ srv'[d].pc = "remove" => srv'[d].peer \in Tasks
    <2>1. CASE d = c
      BY <2>1 DEF SrvBecomes
    <2>2. CASE d # c
      <3>1. srv'[d] = srv[d]
        BY <2>2 DEF SrvBecomes
      <3> QED BY <3>1 DEF SrvType, SrvOwn
    <2> QED BY <2>1, <2>2
  <1> QED BY <1>1, <1>2 DEF SrvType, SrvOwn, Visitors

LEMMA SrvNext == ASSUME TypeInv, Next PROVE SrvType'
PROOF
  <1> USE DEF TypeInv
  <1>1. ASSUME srv' = srv
        PROVE  SrvType'
    BY <1>1 DEF SrvType, SrvOwn, Visitors
  <1>2. ASSUME NEW c \in Clients
        PROVE  /\ srv[c].ctrlq \in Seq(Visitors(c))
               /\ srv[c].pc \in {"recv", "data", "remove"} => srv[c].task \in Visitors(c)
               /\ srv[c].pc \in {"data", "remove"} => srv[c].log \in Kinds
               /\ srv[c].pc = "remove" => srv[c].peer \in Tasks
    BY DEF SrvType, SrvOwn
  <1>3. ASSUME NEW t \in Tasks, Connects(t, "ctrlq")
        PROVE  SrvType'
    <2> DEFINE c == Host[t]
               q == Append(srv[c].ctrlq, t)
    <2>1. c \in Clients /\ t \in Visitors(c)
      BY HostClient
    <2>2. SrvBecomes(c, srv[c].pc, q, srv[c].dataq, srv[c].task, srv[c].peer, srv[c].log)
      BY <1>3, ConnectsCtrl DEF SrvBecomes
    <2>3. q \in Seq(Visitors(c))
      BY <1>2, <2>1, Appended
    <2> HIDE DEF c, q
    <2> QED BY <1>2, <2>1, <2>2, <2>3, OwnBecomes
  <1>4. ASSUME NEW t \in Tasks, Connects(t, "dataq")
        PROVE  SrvType'
    <2> DEFINE c == Host[t]
               q == Append(srv[c].dataq, t)
    <2>1. c \in Clients
      BY HostClient
    <2>2. SrvBecomes(c, srv[c].pc, srv[c].ctrlq, q, srv[c].task, srv[c].peer, srv[c].log)
      BY <1>4, ConnectsData DEF SrvBecomes
    <2> HIDE DEF c, q
    <2> QED BY <1>2, <2>1, <2>2, OwnBecomes
  <1>5. ASSUME NEW t \in Tasks, ctrl_data_pthread(t)
        PROVE  SrvType'
    <2>1. srv' = srv \/ Connects(t, "ctrlq") \/ Connects(t, "dataq")
      BY <1>5, Zenon DEF ctrl_data_pthread, Connect, SendRequest, Die, Close, Skip, SetDir, DataConnect,
         Fails, EndOfData, ReadBuffer, AppendIp, AppendName, Store, RecvClosed, RecvForeign, clientVars
    <2> QED BY <1>1, <1>3, <1>4, <2>1
  <1>6. ASSUME NEW c \in Clients, ServerStep(c)
        PROVE  SrvType'
    <2>1. CASE ServerAccept(c)
      <3> DEFINE q == Tail(srv[c].ctrlq)
                 t == Head(srv[c].ctrlq)
      <3>1. SrvBecomes(c, "recv", q, srv[c].dataq, t, srv[c].peer, srv[c].log) /\ srv[c].ctrlq # <<>>
        BY <2>1, AcceptSrv
      <3>2. t \in Visitors(c) /\ q \in Seq(Visitors(c))
        BY <1>2, <3>1, Ends1
      <3> HIDE DEF q, t
      <3> QED BY <3>1, <3>2, OwnBecomes
    <2>2. CASE ServerAnswer(c)
      <3> DEFINE t == srv[c].task
                 k == Head(net[t].req)
      <3>1. t = srv[c].task /\ srv[c].pc = "recv"
        BY <2>2 DEF ServerAnswer, Serving
      <3> HIDE DEF t
      <3>2. /\ k \in Kinds
            /\ \/ srv' = srv
               \/ srv' = [srv EXCEPT ![c] = [srv[c] EXCEPT !.pc = "data", !.log = k]]
        BY <2>2, <3>1, AnswerNet
      <3>3. k \in Nat
        BY <3>2, SessionAssumption DEF Kinds
      <3> HIDE DEF k
      <3>4. CASE srv' = [srv EXCEPT ![c] = [srv[c] EXCEPT !.pc = "data", !.log = k]]
        <4>1. SrvBecomes(c, "data", srv[c].ctrlq, srv[c].dataq, srv[c].task, srv[c].peer, k)
          BY <3>3, <3>4, PromiseSrv
        <4> QED BY <1>2, <3>1, <3>2, <4>1, OwnBecomes
      <3> QED BY <1>1, <3>2, <3>4
    <2>3. CASE ServerData(c)
      <3> DEFINE q == Tail(srv[c].dataq)
                 t == Head(srv[c].dataq)
      <3>1. /\ \/ SrvBecomes(c, "remove", srv[c].ctrlq, q, srv[c].task, t, srv[c].log)
               \/ SrvBecomes(c, "recv", srv[c].ctrlq, q, srv[c].task, srv[c].peer, 0)
            /\ srv[c].pc = "data" /\ srv[c].dataq # <<>>
        BY <2>3, DataSrv
      <3>2. t \in Tasks
        BY <3>1, SrvFields, Ends1
      <3> HIDE DEF q, t
      <3> QED BY <1>2, <3>1, <3>2, OwnBecomes
    <2>4. CASE ServerRemove(c)
      BY <1>2, <2>4, RemoveSrv, OwnBecomes
    <2>5. CASE ServerEnd(c)
      BY <1>2, <2>5, EndSrv, OwnBecomes
    <2>6. CASE Kill(c) \/ Vanish(c)
      BY <2>6, KillSrv, OwnBecomes, NoElement
    <2>7. CASE Restart(c)
      BY <2>7, RestartSrv, OwnBecomes, NoElement
    <2>8. CASE \E k \in Kinds : LogAppears(c, k)
      BY <2>8, <1>1 DEF LogAppears
    <2>9. CASE DataAcceptFails(c)
      BY <1>2, <2>9, NoAcceptSrv, OwnBecomes
    <2> QED BY <1>6, <2>1, <2>2, <2>3, <2>4, <2>5, <2>6, <2>7, <2>8, <2>9 DEF ServerStep, ctrl_server
  <1>7. ASSUME OtherStep
        PROVE  SrvType'
    BY <1>7, <1>1 DEF OtherStep, OtherOpens, OtherCloses, RecvOther, Reset, clientVars
  <1> QED BY <1>5, <1>6, <1>7, Steps

LEMMA TypeNext == ASSUME TypeInv, [Next]_vars PROVE TypeInv'
PROOF
  <1>1. CASE Next
    <2>1. TaskType'
      BY <1>1, TaskNext, OtherTaskNext, ServerTaskNext, Steps
    <2> QED BY <1>1, <2>1, OtherNext, NetNext, SrvNext DEF TypeInv
  <1>2. CASE UNCHANGED vars
    BY <1>2 DEF vars, taskVars, fileVars, clientVars, linkVars, TypeInv, TaskType, OtherType, NetType, SrvType,
                SrvOwn, Visitors
  <1> QED BY <1>1, <1>2

-----------------------------------------------------------------------------
(***************************************************************************)
(* Requests and answers.  A task and its client's server have a request    *)
(* under way, or an answer, or nothing; only a task that waits in recv, or *)
(* ended with the Master, has something under way; and no request is under *)
(* way to a client that has ended or vanished.                             *)
(***************************************************************************)
Storing == {"ip", "name", "store"}

Silent(t) == net[t].req = <<>> /\ net[t].rep = <<>>

Asked(t) ==
  /\ net[t].rep = <<>>
  /\ \E k \in Kinds : net[t].req = <<k>> /\ (mpc[t] # "gone" => mpc[t] = "recv" /\ k = kind[t])

Replied(t) ==
  /\ net[t].req = <<>>
  /\ \E k \in Kinds : \E y \in {Yes(k), No(k)} :
       net[t].rep = <<y>> /\ (mpc[t] # "gone" => mpc[t] = "recv" /\ k = kind[t])

Exchange == \A t \in Tasks : Silent(t) \/ Asked(t) \/ Replied(t)

Quiet == \A t \in dead \cup lost : net[t].req = <<>>

AnswerInv == Exchange /\ Quiet

LEMMA AnswerInit == ASSUME Init PROVE AnswerInv
PROOF
  <1>1. ASSUME NEW t \in Tasks
        PROVE  Silent(t)
    BY DEF Init, Silent
  <1>2. dead = {} /\ lost = {}
    BY DEF Init
  <1> QED BY <1>1, <1>2 DEF AnswerInv, Exchange, Quiet

(***************************************************************************)
(* What is not under way: a task that does not wait has nothing.           *)
(***************************************************************************)
LEMMA SilentElsewhere ==
  ASSUME Exchange, NEW t \in Tasks, mpc[t] \notin {"recv", "gone"}
  PROVE  Silent(t)
BY DEF Exchange, Asked, Replied

(***************************************************************************)
(* A step after which a task has the same under way, and is at the same    *)
(* place with the same log, or gone, or had and has nothing under way.     *)
(***************************************************************************)
LEMMA ExchangeKept ==
  ASSUME Exchange, NEW t \in Tasks, net'[t].req = net[t].req, net'[t].rep = net[t].rep,
         \/ mpc'[t] = mpc[t] /\ kind'[t] = kind[t]
         \/ mpc'[t] = "gone"
         \/ Silent(t)
  PROVE  Silent(t)' \/ Asked(t)' \/ Replied(t)'
BY DEF Exchange, Silent, Asked, Replied

SameTalk == \A u \in Tasks : net'[u].req = net[u].req /\ net'[u].rep = net[u].rep

LEMMA TalkAsBefore ==
  ASSUME NEW t \in Tasks, NEW d, NetBecomes(t, net[t].req, net[t].rep, d)
  PROVE  SameTalk
BY DEF NetBecomes, SameTalk

(***************************************************************************)
(* A step of a task that does not wait for an answer, and opens nothing.   *)
(***************************************************************************)
(***************************************************************************)
(* A step after which every task has the same under way, and a task that   *)
(* has something is where it was or is gone.                               *)
(***************************************************************************)
LEMMA AnswerKept ==
  ASSUME AnswerInv, SameTalk, dead' \subseteq dead \cup lost, lost' = lost, TypeInv,
         \A u \in Tasks : \/ mpc'[u] = mpc[u] /\ kind'[u] = kind[u]
                         \/ mpc'[u] = "gone"
                         \/ mpc[u] \notin {"recv", "gone"}
  PROVE  AnswerInv'
PROOF
  <1>1. ASSUME NEW u \in Tasks
        PROVE  net'[u].req = net[u].req /\ net'[u].rep = net[u].rep
    BY DEF SameTalk
  <1>2. ASSUME NEW u \in Tasks
        PROVE  Silent(u)' \/ Asked(u)' \/ Replied(u)'
    <2>1. mpc[u] \notin {"recv", "gone"} => Silent(u)
      BY SilentElsewhere DEF AnswerInv
    <2> QED BY <1>1, <2>1, ExchangeKept DEF AnswerInv
  <1>3. Exchange'
    BY <1>2 DEF Exchange
  <1>4. Quiet'
    BY <1>1 DEF Quiet, AnswerInv, TypeInv, OtherType
  <1> QED BY <1>3, <1>4 DEF AnswerInv

(***************************************************************************)
(* A step that changes what one task has under way, which is then what     *)
(* Exchange allows, and changes the place and log of no other task.        *)
(***************************************************************************)
LEMMA ExchangeOfOne ==
  ASSUME Exchange, NEW t \in Tasks,
         \A u \in Tasks : u # t => net'[u] = net[u] /\ mpc'[u] = mpc[u] /\ kind'[u] = kind[u],
         Silent(t)' \/ Asked(t)' \/ Replied(t)'
  PROVE  Exchange'
PROOF
  <1>1. ASSUME NEW u \in Tasks
        PROVE  Silent(u)' \/ Asked(u)' \/ Replied(u)'
    <2>1. CASE u = t
      BY <2>1
    <2>2. CASE u # t
      BY <2>2, ExchangeKept
    <2> QED BY <2>1, <2>2
  <1> QED BY <1>1 DEF Exchange

(***************************************************************************)
(* A step that changes what one task has under way, as Exchange allows.    *)
(***************************************************************************)
LEMMA AnswerOfOne ==
  ASSUME TypeInv, AnswerInv, NEW t \in Tasks,
         \A u \in Tasks : u # t => net'[u] = net[u] /\ mpc'[u] = mpc[u] /\ kind'[u] = kind[u],
         Silent(t)' \/ Asked(t)' \/ Replied(t)',
         UNCHANGED <<dead, lost>>, t \in dead \cup lost => net'[t].req = <<>>
  PROVE  AnswerInv'
PROOF
  <1>1. Exchange'
    BY ExchangeOfOne DEF AnswerInv
  <1>2. Quiet'
    BY DEF Quiet, AnswerInv, TypeInv, OtherType
  <1> QED BY <1>1, <1>2 DEF AnswerInv

LEMMA OneMoves ==
  ASSUME TaskType, NEW t \in Tasks, NEW label, Goto(t, label), kind' = kind
  PROVE  \A u \in Tasks : mpc'[u] = (IF u = t THEN label ELSE mpc[u]) /\ kind'[u] = kind[u]
BY DEF TaskType, Goto

LEMMA OneNext ==
  ASSUME TaskType, NEW t \in Tasks, NextKind(t)
  PROVE  /\ \A u \in Tasks : mpc'[u] = (IF u = t THEN "send" ELSE mpc[u])
         /\ \A u \in Tasks : u # t => kind'[u] = kind[u]
         /\ kind'[t] = kind[t] + 1
BY DEF TaskType, Goto, NextKind

LEMMA AnswerSend ==
  ASSUME TypeInv, AnswerInv, NEW t \in Tasks, SendRequest(t)
  PROVE  AnswerInv'
PROOF
  <1> USE DEF TypeInv
  <1>1. mpc[t] = "send" /\ (Goto(t, "recv") \/ Goto(t, "done")) /\ UNCHANGED <<kind, dead, lost>>
    BY Zenon DEF SendRequest, At, linkVars
  <1>2. \A u \in Tasks : kind'[u] = kind[u] /\ (u # t => mpc'[u] = mpc[u])
    BY <1>1, OneMoves
  <1>3. CASE net' = net
    <2>1. SameTalk
      BY <1>3 DEF SameTalk
    <2>2. mpc[t] \notin {"recv", "gone"}
      BY <1>1
    <2> QED BY <1>1, <1>2, <2>1, <2>2, AnswerKept
  <1>4. CASE net' # net
    <2>1. /\ t \notin dead \cup lost /\ mpc'[t] = "recv" /\ kind[t] \in Kinds
          /\ NetBecomes(t, Append(net[t].req, kind[t]), net[t].rep, net[t].data)
      BY <1>4, SendNet DEF TaskType
    <2>2. Silent(t)
      BY <1>1, SilentElsewhere DEF AnswerInv
    <2>3. net'[t].req = <<kind[t]>> /\ net'[t].rep = <<>>
      BY <2>1, <2>2 DEF Silent, NetBecomes
    <2>4. \A u \in Tasks : u # t => net'[u] = net[u]
      BY <2>1 DEF NetBecomes
    <2>5. Asked(t)'
      BY <1>2, <2>1, <2>3 DEF Asked
    <2> QED BY <1>1, <1>2, <2>1, <2>4, <2>5, AnswerOfOne
  <1> QED BY <1>3, <1>4

(***************************************************************************)
(* Taking an answer, or going on without one, which the task does only     *)
(* when its client is dead: the task then has nothing under way.           *)
(***************************************************************************)
LEMMA AnswerTaken ==
  ASSUME TypeInv, AnswerInv, NEW t \in Tasks, Skip(t) \/ SetDir(t)
  PROVE  AnswerInv'
PROOF
  <1> USE DEF TypeInv
  <1>1. /\ NextKind(t) \/ (Goto(t, "data") /\ kind' = kind)
        /\ UNCHANGED <<dead, lost>>
        /\ \/ net[t].rep = <<>> /\ t \in dead /\ net' = net
           \/ net[t].rep # <<>> /\ net' = [net EXCEPT ![t].rep = Tail(@)]
    BY Zenon DEF Skip, SetDir, linkVars
  <1>2. \A u \in Tasks : u # t => mpc'[u] = mpc[u] /\ kind'[u] = kind[u]
    BY <1>1, OneMoves, OneNext
  <1>3. CASE net[t].rep = <<>> /\ t \in dead /\ net' = net
    <2>1. Silent(t)'
      BY <1>3 DEF AnswerInv, Quiet, Silent
    <2> QED BY <1>1, <1>2, <1>3, <2>1, AnswerOfOne DEF Silent
  <1>4. CASE net[t].rep # <<>> /\ net' = [net EXCEPT ![t].rep = Tail(@)]
    <2>1. NetBecomes(t, net[t].req, Tail(net[t].rep), net[t].data)
      BY <1>4, TakeRep
    <2>2. net[t].req = <<>> /\ Tail(net[t].rep) = <<>>
      BY <1>4, OneElement DEF AnswerInv, Exchange, Silent, Asked, Replied
    <2>3. Silent(t)'
      BY <2>1, <2>2 DEF NetBecomes, Silent
    <2>4. \A u \in Tasks : u # t => net'[u] = net[u]
      BY <2>1 DEF NetBecomes
    <2> QED BY <1>1, <1>2, <2>3, <2>4, AnswerOfOne DEF Silent
  <1> QED BY <1>1, <1>3, <1>4

LEMMA AnswerDie ==
  ASSUME TypeInv, AnswerInv, NEW t \in Tasks, Die(t)
  PROVE  AnswerInv'
PROOF
  <1>1. /\ net' = net /\ dead' = dead /\ lost' = lost /\ kind' = kind
        /\ mpc' = [s \in Tasks |-> IF mpc[s] = "connect" THEN "connect" ELSE "gone"]
    BY DEF Die, linkVars
  <1>2. SameTalk
    BY <1>1 DEF SameTalk
  <1>3. \A u \in Tasks : mpc'[u] = mpc[u] \/ mpc'[u] = "gone"
    BY <1>1
  <1> QED BY <1>1, <1>2, <1>3, AnswerKept

(***************************************************************************)
(* The other steps of a task change neither what is under way nor a task   *)
(* that waits for it.                                                      *)
(***************************************************************************)
QuietStep(t) ==
  \/ Connect(t) \/ Close(t) \/ DataConnect(t) \/ EndOfData(t) \/ ReadBuffer(t)
  \/ AppendIp(t) \/ AppendName(t) \/ Store(t) \/ RecvClosed(t) \/ RecvForeign(t) \/ RecvOther(t)

LEMMA QuietNet ==
  ASSUME NetType, NEW t \in Tasks, QuietStep(t)
  PROVE  \/ net' = net
         \/ \E d : NetBecomes(t, net[t].req, net[t].rep, d)
PROOF
  <1>1. CASE DataConnect(t) \/ EndOfData(t) \/ Store(t)
    <2>1. net' = [net EXCEPT ![t].data = <<>>]
      BY <1>1, Zenon DEF DataConnect, EndOfData, Store
    <2> QED BY <2>1, NoData
  <1>2. CASE ReadBuffer(t)
    <2>1. net[t].data # <<>> /\ net' = [net EXCEPT ![t].data = Tail(@)]
      BY <1>2, Zenon DEF ReadBuffer
    <2> QED BY <2>1, TakeData
  <1>3. CASE ~(DataConnect(t) \/ EndOfData(t) \/ Store(t) \/ ReadBuffer(t))
    BY <1>3, Zenon DEF QuietStep, Connect, Close, AppendIp, AppendName, RecvClosed, RecvForeign, RecvOther
  <1> QED BY <1>1, <1>2, <1>3

LEMMA AnswerQuiet ==
  ASSUME TypeInv, AnswerInv, NEW t \in Tasks, QuietStep(t)
  PROVE  AnswerInv'
PROOF
  <1> USE DEF TypeInv
  <1>1. SameTalk
    BY QuietNet, TalkAsBefore DEF SameTalk
  <1>2. UNCHANGED <<dead, lost>> /\ mpc[t] \notin {"recv", "gone"}
    BY DEF QuietStep, Connect, Close, DataConnect, EndOfData, ReadBuffer, AppendIp, AppendName, Store,
       RecvClosed, RecvForeign, RecvOther, At, linkVars
  <1>3. \/ NextKind(t)
        \/ mpc' = mpc /\ kind' = kind
        \/ \E label : Goto(t, label) /\ kind' = kind
    BY Zenon DEF QuietStep, Connect, Close, DataConnect, Fails, EndOfData, ReadBuffer, AppendIp, AppendName, Store,
       RecvClosed, RecvForeign, RecvOther, LeavesLoop, Steals
  <1>4. \A u \in Tasks : u # t => mpc'[u] = mpc[u] /\ kind'[u] = kind[u]
    BY <1>3, OneMoves, OneNext
  <1> QED BY <1>1, <1>2, <1>4, AnswerKept

LEMMA AnswerAnswered ==
  ASSUME TypeInv, AnswerInv, NEW c \in Clients, ServerAnswer(c)
  PROVE  AnswerInv'
PROOF
  <1> USE DEF TypeInv, TaskType, AnswerInv
  <1>1. UNCHANGED <<mpc, kind, dead, lost>>
    BY DEF ServerAnswer, taskVars, linkVars
  <1>0. PICK t \in Tasks : t = srv[c].task
    BY AnswerNet DEF Visitors
  <1>2. PICK k \in Kinds :
          /\ k = Head(net[t].req) /\ net[t].req # <<>>
          /\ \E r \in {<<>>, <<Yes(k)>>, <<No(k)>>} :
               NetBecomes(t, Tail(net[t].req), net[t].rep \o r, net[t].data)
    BY <1>0, AnswerNet
  <1>3. Asked(t)
    BY <1>2 DEF Exchange, Silent, Replied
  <1>4. /\ net[t].rep = <<>> /\ net[t].req = <<k>>
        /\ mpc[t] # "gone" => mpc[t] = "recv" /\ k = kind[t]
    BY <1>2, <1>3, OneElement DEF Asked
  <1>5. PICK r \in {<<>>, <<Yes(k)>>, <<No(k)>>} :
          NetBecomes(t, Tail(net[t].req), net[t].rep \o r, net[t].data)
    BY <1>2
  <1>6. net'[t].req = <<>> /\ net'[t].rep = r
    <2>1. Tail(net[t].req) = <<>>
      BY <1>4, OneElement
    <2>2. net[t].rep \o r = r
      BY <1>4, OneElement, NoElement
    <2> QED BY <1>5, <2>1, <2>2 DEF NetBecomes
  <1>7. Silent(t)' \/ Replied(t)'
    <2>1. CASE r = <<>>
      BY <1>6, <2>1 DEF Silent
    <2>2. ASSUME NEW y \in {Yes(k), No(k)}, r = <<y>>
          PROVE  Replied(t)'
      <3>1. mpc'[t] # "gone" => mpc'[t] = "recv" /\ k = kind'[t]
        BY <1>1, <1>4
      <3>2. net'[t].req = <<>> /\ net'[t].rep = <<y>> /\ k \in Kinds
        BY <1>2, <1>6, <2>2
      <3> QED BY <3>1, <3>2 DEF Replied, Yes, No
    <2> QED BY <2>1, <2>2
  <1>8. \A u \in Tasks : u # t => net'[u] = net[u] /\ mpc'[u] = mpc[u] /\ kind'[u] = kind[u]
    BY <1>1, <1>5 DEF NetBecomes
  <1> QED BY <1>1, <1>6, <1>7, <1>8, AnswerOfOne

LEMMA AnswerCut ==
  ASSUME TypeInv, AnswerInv, NEW c \in Clients, Kill(c) \/ Vanish(c)
  PROVE  AnswerInv'
PROOF
  <1> USE DEF TypeInv, AnswerInv
  <1>1. /\ UNCHANGED <<mpc, kind>>
        /\ \A t \in Tasks : t \in dead' \cup lost' => t \in dead \cup lost \/ Host[t] = c
    BY DEF Kill, Vanish, taskVars
  <1>2. ASSUME NEW u \in Tasks
        PROVE  /\ net'[u].rep = net[u].rep \/ net'[u].rep = <<>>
               /\ net'[u].req = net[u].req \/ net'[u].req = <<>>
               /\ Host[u] = c => net'[u].req = <<>>
               /\ net'[u].req = <<>> \/ net'[u] = net[u]
    BY KillNet, VanishNet DEF KeepsStreams
  <1>3. ASSUME NEW u \in Tasks
        PROVE  Silent(u)' \/ Asked(u)' \/ Replied(u)'
    <2>1. CASE net'[u] = net[u]
      BY <1>1, <2>1, ExchangeKept
    <2>2. CASE net'[u].req = <<>>
      <3>1. CASE net'[u].rep = <<>>
        BY <2>2, <3>1 DEF Silent
      <3>2. CASE net'[u].rep # <<>>
        <4>1. Replied(u) /\ net'[u].rep = net[u].rep
          BY <1>2, <3>2 DEF Exchange, Silent, Asked
        <4> QED BY <1>1, <2>2, <4>1 DEF Replied
      <3> QED BY <3>1, <3>2
    <2> QED BY <1>2, <2>1, <2>2
  <1>4. Exchange'
    BY <1>3 DEF Exchange
  <1>5. Quiet'
    <2>1. dead' \subseteq Tasks /\ lost' \subseteq Tasks
      BY DEF Kill, Vanish, OtherType, TaskType
    <2> QED BY <1>1, <1>2, <2>1 DEF Quiet
  <1> QED BY <1>4, <1>5

LEMMA AnswerNext == ASSUME TypeInv, AnswerInv, [Next]_vars PROVE AnswerInv'
PROOF
  <1> USE DEF TypeInv
  <1>0. ASSUME SameTalk, UNCHANGED <<mpc, kind, lost>>, dead' \subseteq dead \cup lost
        PROVE  AnswerInv'
    BY <1>0, AnswerKept
  <1>1. ASSUME NEW c \in Clients, ServerStep(c), ~ServerAnswer(c), ~(Kill(c) \/ Vanish(c))
        PROVE  AnswerInv'
    <2>1. UNCHANGED <<mpc, kind, dead, lost>>
      BY <1>1, Zenon DEF ServerStep, ctrl_server, ServerAccept, ServerData, ServerRemove, ServerEnd,
         DataAcceptFails, Restart, LogAppears, taskVars, linkVars
    <2>2. SameTalk
      <3>1. CASE ServerData(c)
        <4> DEFINE t == Head(srv[c].dataq)
        <4>1. t = Head(srv[c].dataq)
          OBVIOUS
        <4> HIDE DEF t
        <4>2. t \in Tasks /\ (FileSent(c, t) \/ net' = net)
          BY <3>1, <4>1, ServerDataNet
        <4> QED BY <4>2, TalkAsBefore DEF FileSent, SameTalk
      <3>2. CASE ServerRemove(c)
        <4>1. srv[c].peer \in Tasks
          BY <3>2 DEF ServerRemove, Serving, SrvType, SrvOwn
        <4>2. net' = net \/ net' = Ends(srv[c].peer)
          BY <3>2 DEF ServerRemove
        <4> QED BY <4>1, <4>2, EndNet, TalkAsBefore DEF SameTalk
      <3>3. CASE ~ServerData(c) /\ ~ServerRemove(c)
        <4>1. net' = net
          BY <1>1, <3>3 DEF ServerStep, ctrl_server, ServerAccept, ServerEnd, DataAcceptFails, Restart, LogAppears
        <4> QED BY <4>1 DEF SameTalk
      <3> QED BY <3>1, <3>2, <3>3
    <2> QED BY <1>0, <2>1, <2>2
  <1>2. ASSUME NEW t \in Tasks, ctrl_data_pthread(t) \/ RecvOther(t)
        PROVE  AnswerInv'
    BY <1>2, AnswerSend, AnswerTaken, AnswerDie, AnswerQuiet DEF ctrl_data_pthread, QuietStep
  <1>3. ASSUME OtherStep, \A t \in Tasks : ~RecvOther(t)
        PROVE  AnswerInv'
    <2>1. UNCHANGED <<mpc, kind, net, lost>> /\ dead' \subseteq dead \cup lost
      BY <1>3 DEF OtherStep, OtherOpens, OtherCloses, Reset, linkVars, taskVars
    <2> QED BY <1>0, <2>1 DEF SameTalk
  <1>4. CASE Next
    BY <1>1, <1>2, <1>3, <1>4, Steps, AnswerAnswered, AnswerCut DEF OtherStep
  <1>5. CASE UNCHANGED vars
    <2>1. SameTalk /\ UNCHANGED <<mpc, kind, dead, lost>>
      BY <1>5 DEF vars, taskVars, linkVars, SameTalk
    <2> QED BY <1>0, <2>1
  <1> QED BY <1>4, <1>5

(***************************************************************************)
(* The types of DataSession, in particular that no more than one request   *)
(* and one answer of a task are ever in flight.                            *)
(***************************************************************************)
LEMMA TypeHolds == ASSUME TypeInv, AnswerInv PROVE TypeOK
PROOF
  <1>1. ASSUME NEW t \in Tasks
        PROVE  Len(net[t].req) <= 1 /\ Len(net[t].rep) <= 1
    <2>1. \/ net[t].req = <<>>
          \/ \E k \in Kinds : net[t].req = <<k>>
      BY DEF AnswerInv, Exchange, Silent, Asked, Replied
    <2>2. \/ net[t].rep = <<>>
          \/ \E k \in Kinds : net[t].rep = <<Yes(k)>> \/ net[t].rep = <<No(k)>>
      <3>1. CASE Silent(t) \/ Asked(t)
        BY <3>1 DEF Silent, Asked
      <3>2. CASE Replied(t)
        BY <3>2 DEF Replied
      <3> QED BY <3>1, <3>2 DEF AnswerInv, Exchange
    <2>3. Len(net[t].req) = 0 \/ Len(net[t].req) = 1
      BY <2>1, OneElement, NoElement, Zenon
    <2>4. Len(net[t].rep) = 0 \/ Len(net[t].rep) = 1
      <3>1. \/ net[t].rep = <<>>
            \/ \E y : net[t].rep = <<y>>
        BY <2>2, Zenon
      <3> QED BY <3>1, OneElement, NoElement, Zenon
    <2>5. \A n : n = 0 \/ n = 1 => n <= 1
      OBVIOUS
    <2> QED BY <2>3, <2>4, <2>5, Zenon
  <1>2. ASSUME NEW c \in Clients
        PROVE  /\ srv[c].pc \in {"accept", "recv", "data", "remove", "down"}
               /\ srv[c].pc \in {"recv", "data", "remove"} => srv[c].task \in Tasks
    BY DEF TypeInv, SrvType, SrvOwn, Server, ServerPCs, Visitors
  <1>3. crashed \in BOOLEAN /\ foreign \in BOOLEAN /\ strayed \in BOOLEAN
    BY DEF TypeInv, OtherType
  <1>4. /\ mpc \in [Tasks -> {"connect", "send", "recv", "data", "read", "ip", "name", "store",
                             "again", "done", "gone"}]
        /\ \A t \in Tasks : mpc[t] \notin {"connect", "send", "done", "gone"} => kind[t] \in Kinds
    BY DEF TypeInv, TaskType, Labels, Idle
  <1>5. /\ kind \in [Tasks -> 0..N] /\ open \subseteq Tasks /\ dead \subseteq Tasks /\ lost \subseteq Tasks
        /\ taken \in [Tasks -> {NoTask, Other} \cup Tasks]
        /\ has \in [Clients -> SUBSET Kinds] /\ sent \subseteq Tasks \X Kinds /\ kills \in 0..MaxKills
    BY DEF TypeInv, TaskType, OtherType
  <1> HIDE DEF TypeInv
  <1> QED BY <1>1, <1>2, <1>3, <1>4, <1>5, Zenon DEF TypeOK

LEMMA AnswersHold == ASSUME AnswerInv PROVE AnswerFitsRequest
PROOF
  <1> SUFFICES ASSUME NEW t \in Tasks, mpc[t] # "gone"
               PROVE  /\ net[t].rep # <<>> => mpc[t] = "recv" /\ net[t].req = <<>>
                      /\ net[t].rep # <<>> => Head(net[t].rep) \in {Yes(kind[t]), No(kind[t])}
                      /\ net[t].req # <<>> => mpc[t] = "recv" /\ Head(net[t].req) = kind[t]
    BY DEF AnswerFitsRequest
  <1>1. CASE Silent(t)
    BY <1>1 DEF Silent
  <1>2. CASE Asked(t)
    BY <1>2, OneElement DEF Asked
  <1>3. CASE Replied(t)
    BY <1>3, OneElement DEF Replied
  <1> QED BY <1>1, <1>2, <1>3 DEF AnswerInv, Exchange

-----------------------------------------------------------------------------
(***************************************************************************)
(* The control connection of a task at work is open, so that the end of    *)
(* the client, or of its host, is the end of it.                           *)
(***************************************************************************)
Working == {"send", "recv", "data", "read", "ip", "name", "store", "again"}

OpenInv == \A t \in Tasks : mpc[t] \in Working => t \in open

LEMMA OpenInit == ASSUME Init PROVE OpenInv
BY DEF Init, OpenInv, Working

LEMMA OpenNext == ASSUME TypeInv, OpenInv, [Next]_vars PROVE OpenInv'
PROOF
  <1> USE DEF TypeInv, TaskType
  <1>1. ASSUME UNCHANGED <<mpc, open>>
        PROVE  OpenInv'
    BY <1>1 DEF OpenInv
  <1>2. ASSUME NEW t \in Tasks, NEW label, mpc' = [mpc EXCEPT ![t] = label],
               \/ open' = open /\ mpc[t] \in Working
               \/ open' = open \cup {t}
               \/ label \notin Working /\ (open' = open \/ open' = open \ {t})
        PROVE  OpenInv'
    BY <1>2 DEF OpenInv
  <1>3. ASSUME NEW t \in Tasks, ctrl_data_pthread(t), ~Die(t)
        PROVE  OpenInv'
    <2>1. CASE Connect(t)
      <3>1. \/ mpc' = [mpc EXCEPT ![t] = "send"] /\ open' = open \cup {t}
            \/ mpc' = [mpc EXCEPT ![t] = "done"] /\ open' = open
        BY <2>1, Zenon DEF Connect, Fails, Goto
      <3> QED BY <1>2, <3>1 DEF Working
    <2>2. CASE Close(t)
      BY <1>2, <2>2 DEF Close, Goto, Working
    <2>3. CASE ~Connect(t) /\ ~Close(t)
      <3>1. /\ open' = open /\ mpc[t] \in Working
            /\ mpc' = mpc \/ \E label : mpc' = [mpc EXCEPT ![t] = label]
        <4>1. open' = open
          BY <1>3, <2>3, Zenon DEF ctrl_data_pthread, SendRequest, Skip, SetDir, DataConnect, EndOfData,
             ReadBuffer, AppendIp, AppendName, Store, RecvClosed, RecvForeign
        <4>2. mpc[t] \in Working
          BY <1>3, <2>3 DEF ctrl_data_pthread, SendRequest, Skip, SetDir, DataConnect, EndOfData,
             ReadBuffer, AppendIp, AppendName, Store, RecvClosed, RecvForeign, At, Working
        <4>3. mpc' = mpc \/ \E label : mpc' = [mpc EXCEPT ![t] = label]
          BY <1>3, <2>3, Zenon DEF ctrl_data_pthread, SendRequest, Skip, SetDir, DataConnect, Fails, EndOfData,
             ReadBuffer, AppendIp, AppendName, Store, RecvClosed, RecvForeign, LeavesLoop, Steals,
             NextKind, Goto
        <4> QED BY <4>1, <4>2, <4>3
      <3> QED BY <1>1, <1>2, <3>1
    <2> QED BY <2>1, <2>2, <2>3
  <1>4. ASSUME NEW t \in Tasks, Die(t)
        PROVE  OpenInv'
    BY <1>4 DEF Die, OpenInv, Working
  <1>5. ASSUME NEW c \in Clients, ServerStep(c)
        PROVE  OpenInv'
    <2>1. UNCHANGED taskVars
      BY <1>5, Zenon DEF ServerStep, ctrl_server, ServerAccept, ServerAnswer, ServerData, ServerRemove,
         ServerEnd, DataAcceptFails, Kill, Vanish, Restart, LogAppears
    <2> QED BY <1>1, <2>1 DEF taskVars
  <1>6. ASSUME OtherStep
        PROVE  OpenInv'
    <2>1. ASSUME NEW t \in Tasks, RecvOther(t)
          PROVE  OpenInv'
      <3>1. /\ open' = open /\ mpc[t] = "again"
            /\ mpc' = mpc \/ mpc' = [mpc EXCEPT ![t] = "send"]
        BY <2>1, Zenon DEF RecvOther, At, LeavesLoop, Steals, NextKind, Goto
      <3> QED BY <1>1, <1>2, <3>1 DEF Working
    <2>2. CASE \A t \in Tasks : ~RecvOther(t)
      <3>1. UNCHANGED <<mpc, open>>
        BY <1>6, <2>2 DEF OtherStep, OtherOpens, OtherCloses, Reset, taskVars
      <3> QED BY <1>1, <3>1
    <2> QED BY <2>1, <2>2
  <1>7. CASE Next
    BY <1>3, <1>4, <1>5, <1>6, <1>7, Steps
  <1>8. CASE UNCHANGED vars
    BY <1>1, <1>8 DEF vars, taskVars
  <1> QED BY <1>7, <1>8

(***************************************************************************)
(* A connection that is cut stays cut, and a data connection that missed   *)
(* its session is never made good.                                         *)
(***************************************************************************)
CutStays == \A u \in Tasks : u \in dead \cup lost => u \in dead' \cup lost'

LEMMA LinksKept ==
  ASSUME TypeInv, Next
  PROVE  CutStays /\ (strayed => strayed')
PROOF
  <1>0. strayed \in BOOLEAN /\ strayed' \in BOOLEAN
    BY OtherNext DEF TypeInv, OtherType
  <1>1. ASSUME NEW t \in Tasks, ctrl_data_pthread(t)
        PROVE  UNCHANGED <<dead, lost>> /\ (strayed => strayed')
    <2>1. CASE DataConnect(t)
      <3>1. UNCHANGED <<dead, lost>>
        BY <2>1 DEF DataConnect
      <3>2. strayed' = (strayed \/ (t \in dead \cup lost /\ srv' # srv))
        BY <2>1, Zenon DEF DataConnect
      <3> QED BY <1>0, <3>1, <3>2
    <2>2. CASE ~DataConnect(t)
      <3>1. UNCHANGED linkVars
        BY <1>1, <2>2, Zenon DEF ctrl_data_pthread, Connect, SendRequest, Die, Close, Skip, SetDir,
           EndOfData, ReadBuffer, AppendIp, AppendName, Store, RecvClosed, RecvForeign
      <3> QED BY <3>1 DEF linkVars
    <2> QED BY <2>1, <2>2
  <1>2. ASSUME OtherStep
        PROVE  dead \subseteq dead' /\ lost' = lost /\ strayed' = strayed
    BY <1>2 DEF OtherStep, OtherOpens, OtherCloses, RecvOther, Reset, linkVars
  <1>3. ASSUME NEW c \in Clients, ServerStep(c)
        PROVE  dead \subseteq dead' /\ lost \subseteq lost' /\ (strayed => strayed')
    <2>1. CASE DataAcceptFails(c)
      <3>1. strayed' = TRUE /\ dead' = dead /\ lost' = lost
        BY <2>1, Zenon DEF DataAcceptFails
      <3>2. dead \subseteq dead' /\ lost \subseteq lost'
        BY <3>1
      <3> QED BY <1>0, <3>1, <3>2
    <2>2. CASE Kill(c) \/ Vanish(c)
      <3>1. dead \subseteq dead' /\ lost \subseteq lost' /\ strayed' = strayed
        BY <2>2 DEF Kill, Vanish
      <3> QED BY <3>1
    <2>3. CASE ~DataAcceptFails(c) /\ ~Kill(c) /\ ~Vanish(c)
      <3>1. UNCHANGED linkVars
        BY <1>3, <2>3, Zenon DEF ServerStep, ctrl_server, ServerAccept, ServerAnswer, ServerData,
           ServerRemove, ServerEnd, Restart, LogAppears
      <3> QED BY <3>1 DEF linkVars
    <2> QED BY <2>1, <2>2, <2>3
  <1> QED BY <1>1, <1>2, <1>3, Steps DEF CutStays

-----------------------------------------------------------------------------
(***************************************************************************)
(* Data connections.  A task that was promised a log, and has not opened   *)
(* its data connection yet, has the server to itself: it waits in accept   *)
(* for that task and that log, unless the task's connection is cut.  So    *)
(* what is in a data queue is the one connection the server waits for, of  *)
(* a task that reads from it, or has given it up and asks for no other log.*)
(* This holds until a data connection misses its session.                  *)
(***************************************************************************)
Promised(t) == mpc[t] = "data" \/ (mpc[t] = "recv" /\ net[t].rep = <<Yes(kind[t])>>)

WaitsFor(c, t) == srv[c].pc = "data" /\ srv[c].task = t /\ srv[c].log = kind[t]

QueuedOwn ==
  \A c \in Clients :
    srv[c].dataq # <<>> =>
      /\ srv[c].dataq = <<srv[c].task>> /\ WaitsFor(c, srv[c].task)
      /\ mpc[srv[c].task] \in {"read", "done", "gone"}
      /\ mpc[srv[c].task] = "read" => net[srv[c].task].data = <<>>

PeerIsTask == \A c \in Clients : srv[c].pc = "remove" => srv[c].peer = srv[c].task

PromiseKept ==
  \A t \in Tasks : Promised(t) =>
    t \in dead \cup lost \/ (WaitsFor(Host[t], t) /\ srv[Host[t]].dataq = <<>>)

DataInv == QueuedOwn /\ PeerIsTask /\ PromiseKept

LEMMA DataInit == ASSUME Init PROVE DataInv
PROOF
  <1>1. ASSUME NEW c \in Clients
        PROVE  srv[c].dataq = <<>> /\ srv[c].pc = "accept"
    BY DEF Init, Fresh
  <1>2. \A t \in Tasks : mpc[t] = "connect"
    BY DEF Init
  <1> QED BY <1>1, <1>2 DEF DataInv, QueuedOwn, PeerIsTask, PromiseKept, Promised

(***************************************************************************)
(* A step of a task that leaves the queues of the data ports alone.        *)
(***************************************************************************)
SameServer ==
  \A c \in Clients :
    /\ srv'[c].pc = srv[c].pc /\ srv'[c].task = srv[c].task /\ srv'[c].peer = srv[c].peer
    /\ srv'[c].log = srv[c].log /\ srv'[c].dataq = srv[c].dataq

LEMMA DataGoesOn ==
  ASSUME TypeInv, DataInv, SameServer, CutStays, NEW t \in Tasks, NEW label,
         mpc[t] \notin {"done", "gone"}, mpc[t] = "read" => net[t].data # <<>>,
         mpc' = [mpc EXCEPT ![t] = label], \A u \in Tasks : u # t => kind'[u] = kind[u],
         \A u \in Tasks : /\ net[u].data = <<>> => net'[u].data = <<>>
                          /\ net'[u].rep # <<>> => net'[u].rep = net[u].rep,
         label = "recv" => net'[t].rep = <<>>,
         label = "data" => Promised(t) /\ kind'[t] = kind[t]
  PROVE  DataInv'
PROOF
  <1> USE DEF TypeInv, TaskType
  <1>1. ASSUME NEW u \in Tasks
        PROVE  u # t => mpc'[u] = mpc[u] /\ kind'[u] = kind[u]
    OBVIOUS
  <1>2. mpc'[t] = label
    OBVIOUS
  <1>3. QueuedOwn'
    <2> SUFFICES ASSUME NEW c \in Clients, srv'[c].dataq # <<>>, NEW u, u = srv'[c].task
                 PROVE  /\ srv'[c].dataq = <<u>> /\ srv'[c].pc = "data" /\ srv'[c].log = kind'[u]
                        /\ mpc'[u] \in {"read", "done", "gone"}
                        /\ mpc'[u] = "read" => net'[u].data = <<>>
      BY DEF QueuedOwn, WaitsFor
    <2>1. /\ srv[c].dataq = <<u>> /\ srv[c].pc = "data" /\ srv[c].log = kind[u] /\ u = srv[c].task
          /\ mpc[u] \in {"read", "done", "gone"}
          /\ mpc[u] = "read" => net[u].data = <<>>
      BY DEF DataInv, QueuedOwn, WaitsFor, SameServer
    <2>2. u \in Tasks
      BY <2>1 DEF SrvType, SrvOwn, Visitors
    <2>3. u # t
      BY <2>1
    <2> QED BY <1>1, <2>1, <2>2, <2>3 DEF SameServer
  <1>4. PeerIsTask'
    BY DEF DataInv, PeerIsTask, SameServer
  <1>5. PromiseKept'
    <2> SUFFICES ASSUME NEW u \in Tasks, Promised(u)'
                 PROVE  \/ u \in dead' \cup lost'
                        \/ /\ srv'[Host[u]].pc = "data" /\ srv'[Host[u]].task = u
                           /\ srv'[Host[u]].log = kind'[u] /\ srv'[Host[u]].dataq = <<>>
      BY DEF PromiseKept, WaitsFor
    <2>1. Promised(u) /\ kind'[u] = kind[u]
      <3>1. CASE u = t
        <4>1. label = "data"
          BY <1>2, <3>1, OneElement DEF Promised
        <4> QED BY <3>1, <4>1
      <3>2. CASE u # t
        BY <1>1, <3>2, OneElement DEF Promised
      <3> QED BY <3>1, <3>2
    <2>2. \/ u \in dead \cup lost
          \/ /\ srv[Host[u]].pc = "data" /\ srv[Host[u]].task = u
             /\ srv[Host[u]].log = kind[u] /\ srv[Host[u]].dataq = <<>>
      BY <2>1 DEF DataInv, PromiseKept, WaitsFor
    <2> QED BY <2>1, <2>2, HostClient DEF SameServer, CutStays
  <1> QED BY <1>3, <1>4, <1>5 DEF DataInv

(***************************************************************************)
(* A step of one client, after which nothing is in its data queue.         *)
(***************************************************************************)
LEMMA DataServed ==
  ASSUME TypeInv, DataInv, CutStays, NEW c \in Clients, UNCHANGED <<mpc, kind>>,
         \A d \in Clients : d # c => srv'[d] = srv[d],
         srv'[c].dataq = <<>>, srv'[c].pc = "remove" => srv'[c].peer = srv'[c].task,
         \A u \in Tasks : u \notin Visitors(c) => net'[u].rep = net[u].rep /\ net'[u].data = net[u].data,
         \A u \in Visitors(c) : Promised(u)' =>
           \/ u \in dead' \cup lost'
           \/ srv'[c].pc = "data" /\ srv'[c].task = u /\ srv'[c].log = kind[u]
  PROVE  DataInv'
PROOF
  <1>1. QueuedOwn'
    <2> SUFFICES ASSUME NEW d \in Clients, srv'[d].dataq # <<>>, NEW u, u = srv'[d].task
                 PROVE  /\ srv'[d].dataq = <<u>> /\ srv'[d].pc = "data" /\ srv'[d].log = kind'[u]
                        /\ mpc'[u] \in {"read", "done", "gone"}
                        /\ mpc'[u] = "read" => net'[u].data = <<>>
      BY DEF QueuedOwn, WaitsFor
    <2>1. d # c /\ srv'[d] = srv[d]
      OBVIOUS
    <2>2. /\ srv[d].dataq = <<u>> /\ srv[d].pc = "data" /\ srv[d].log = kind[u] /\ u = srv[d].task
          /\ mpc[u] \in {"read", "done", "gone"}
          /\ mpc[u] = "read" => net[u].data = <<>>
      BY <2>1 DEF DataInv, QueuedOwn, WaitsFor
    <2>3. u \in Tasks /\ u \notin Visitors(c)
      BY <2>1, <2>2 DEF TypeInv, SrvType, SrvOwn, Visitors
    <2> QED BY <2>1, <2>2, <2>3
  <1>2. PeerIsTask'
    BY DEF DataInv, PeerIsTask
  <1>3. PromiseKept'
    <2> SUFFICES ASSUME NEW u \in Tasks, Promised(u)'
                 PROVE  \/ u \in dead' \cup lost'
                        \/ /\ srv'[Host[u]].pc = "data" /\ srv'[Host[u]].task = u
                           /\ srv'[Host[u]].log = kind'[u] /\ srv'[Host[u]].dataq = <<>>
      BY DEF PromiseKept, WaitsFor
    <2>1. CASE Host[u] = c
      BY <2>1 DEF Visitors
    <2>2. CASE Host[u] # c
      <3>1. Promised(u) /\ srv'[Host[u]] = srv[Host[u]]
        BY <2>2, HostClient DEF Promised, Visitors
      <3> QED BY <3>1 DEF DataInv, PromiseKept, WaitsFor, CutStays
    <2> QED BY <2>1, <2>2
  <1> QED BY <1>1, <1>2, <1>3 DEF DataInv

(***************************************************************************)
(* A task whose connection is cut cannot connect without going astray.     *)
(***************************************************************************)
LEMMA Strayed ==
  ASSUME SrvType, NEW t \in Tasks, DataConnect(t), Connects(t, "dataq"), ~strayed'
  PROVE  t \notin dead \cup lost
PROOF
  <1>1. PICK c \in Clients : c = Host[t]
    BY HostClient
  <1>2. srv'[c].dataq = Append(srv[c].dataq, t) /\ srv[c].dataq \in Seq(Tasks)
    BY <1>1, ConnectsData, SrvFields
  <1>3. srv' # srv
    <2>1. Append(srv[c].dataq, t) # srv[c].dataq
      BY <1>2
    <2> QED BY <1>2, <2>1
  <1> QED BY <1>3 DEF DataConnect

(***************************************************************************)
(* Opening a data connection: the server was promised to this task, or the *)
(* connection misses its session.                                          *)
(***************************************************************************)
LEMMA DataOpened ==
  ASSUME TypeInv, DataInv, NEW t \in Tasks, DataConnect(t), ~strayed'
  PROVE  DataInv'
PROOF
  <1>0. CutStays /\ UNCHANGED <<dead, lost>> /\ (t \in dead \cup lost => srv' = srv)
    BY DEF DataConnect, CutStays
  <1> USE DEF TypeInv, TaskType
  <1>1. /\ mpc[t] = "data" /\ kind' = kind
        /\ mpc' = [mpc EXCEPT ![t] = "read"] \/ mpc' = [mpc EXCEPT ![t] = "done"]
        /\ net' = [net EXCEPT ![t].data = <<>>]
        /\ \/ Connects(t, "dataq")
           \/ srv' = srv /\ mpc' = [mpc EXCEPT ![t] = "done"]
    BY Zenon DEF DataConnect, Fails, At, Goto
  <1>2. /\ net'[t].data = <<>> /\ \A u \in Tasks : u # t => net'[u] = net[u] /\ mpc'[u] = mpc[u]
        /\ \A u \in Tasks : net'[u].rep = net[u].rep /\ (net[u].data = <<>> => net'[u].data = <<>>)
    <2>1. NetBecomes(t, net[t].req, net[t].rep, <<>>)
      BY <1>1, NoData
    <2> QED BY <1>1, <2>1 DEF NetBecomes
  <1>3. CASE srv' = srv
    <2>1. SameServer
      BY <1>3 DEF SameServer
    <2>2. CASE mpc' = [mpc EXCEPT ![t] = "read"]
      BY <1>0, <1>1, <1>2, <2>1, <2>2, DataGoesOn
    <2>3. CASE mpc' = [mpc EXCEPT ![t] = "done"]
      BY <1>0, <1>1, <1>2, <2>1, <2>3, DataGoesOn
    <2> QED BY <1>1, <2>2, <2>3
  <1>4. CASE Connects(t, "dataq")
    <2>1. PICK c \in Clients : c = Host[t]
      BY HostClient
    <2>2. /\ \A d \in Clients : d # c => srv'[d] = srv[d]
          /\ srv[c].pc # "down"
          /\ srv'[c].dataq = Append(srv[c].dataq, t)
          /\ srv'[c].pc = srv[c].pc /\ srv'[c].task = srv[c].task
          /\ srv'[c].peer = srv[c].peer /\ srv'[c].log = srv[c].log
      BY <1>4, <2>1, ConnectsData
    <2>3. srv[c].pc = "data" /\ srv[c].task = t /\ srv[c].log = kind[t] /\ srv[c].dataq = <<>>
      <3>2. t \notin dead \cup lost
        BY <1>4, Strayed
      <3> QED BY <1>1, <2>1, <3>2 DEF DataInv, PromiseKept, Promised, WaitsFor
    <2>4. srv'[c].dataq = <<t>>
      BY <2>2, <2>3, OneElement
    <2>5. mpc'[t] \in {"read", "done"}
      BY <1>1
    <2>6. QueuedOwn'
      <3> SUFFICES ASSUME NEW d \in Clients, srv'[d].dataq # <<>>, NEW u, u = srv'[d].task
                   PROVE  /\ srv'[d].dataq = <<u>> /\ srv'[d].pc = "data" /\ srv'[d].log = kind'[u]
                          /\ mpc'[u] \in {"read", "done", "gone"}
                          /\ mpc'[u] = "read" => net'[u].data = <<>>
        BY DEF QueuedOwn, WaitsFor
      <3>1. CASE d = c
        BY <1>1, <1>2, <2>2, <2>3, <2>4, <2>5, <3>1
      <3>2. CASE d # c
        <4>1. /\ srv[d].dataq = <<u>> /\ srv[d].pc = "data" /\ srv[d].log = kind[u] /\ u = srv[d].task
              /\ mpc[u] \in {"read", "done", "gone"}
              /\ mpc[u] = "read" => net[u].data = <<>>
          BY <2>2, <3>2 DEF DataInv, QueuedOwn, WaitsFor
        <4>2. u \in Tasks /\ u # t
          <5>1. mpc[t] = "data"
            BY <1>1
          <5> QED BY <4>1, <5>1 DEF SrvType, SrvOwn, Visitors
        <4> QED BY <1>1, <1>2, <2>2, <3>2, <4>1, <4>2
      <3> QED BY <3>1, <3>2
    <2>7. PeerIsTask'
      BY <2>2 DEF DataInv, PeerIsTask
    <2>8. PromiseKept'
      <3> SUFFICES ASSUME NEW u \in Tasks, Promised(u)'
                   PROVE  \/ u \in dead' \cup lost'
                          \/ /\ srv'[Host[u]].pc = "data" /\ srv'[Host[u]].task = u
                             /\ srv'[Host[u]].log = kind'[u] /\ srv'[Host[u]].dataq = <<>>
        BY DEF PromiseKept, WaitsFor
      <3>1. u # t /\ Promised(u)
        BY <1>1, <1>2, <2>5 DEF Promised
      <3>2. \/ u \in dead \cup lost
            \/ /\ srv[Host[u]].pc = "data" /\ srv[Host[u]].task = u
               /\ srv[Host[u]].log = kind[u] /\ srv[Host[u]].dataq = <<>>
        BY <3>1 DEF DataInv, PromiseKept, WaitsFor
      <3>3. u \in dead \cup lost \/ Host[u] # c
        BY <2>2, <2>3, <3>1, <3>2
      <3> QED BY <1>0, <1>1, <2>2, <3>2, <3>3, HostClient
    <2> QED BY <2>6, <2>7, <2>8 DEF DataInv
  <1> QED BY <1>1, <1>3, <1>4

(***************************************************************************)
(* A task in recv on the number it closed takes nothing of its own.        *)
(***************************************************************************)
LEMMA DataSame ==
  ASSUME TypeInv, DataInv, CutStays, UNCHANGED <<mpc, kind, net, srv>>
  PROVE  DataInv'
BY DEF DataInv, QueuedOwn, WaitsFor, PeerIsTask, PromiseKept, Promised, CutStays

LEMMA DataElsewhere ==
  ASSUME TypeInv, DataInv, CutStays, NEW t \in Tasks, mpc[t] = "again", UNCHANGED <<net, clientVars>>,
         LeavesLoop(t) \/ Steals
  PROVE  DataInv'
PROOF
  <1>1. srv' = srv
    BY DEF clientVars
  <1>2. CASE Steals
    BY <1>1, <1>2, DataSame DEF Steals
  <1>3. CASE LeavesLoop(t)
    <2>1. mpc' = [mpc EXCEPT ![t] = "send"] /\ \A u \in Tasks : u # t => kind'[u] = kind[u]
      BY <1>3 DEF LeavesLoop, NextKind, Goto, TypeInv, TaskType
    <2>2. SameServer
      BY <1>1 DEF SameServer
    <2> QED BY <2>1, <2>2, DataGoesOn
  <1> QED BY <1>2, <1>3

LEMMA DataTask ==
  ASSUME TypeInv, AnswerInv, DataInv, NEW t \in Tasks, ctrl_data_pthread(t), CutStays, ~strayed'
  PROVE  DataInv'
PROOF
  <1> USE DEF TypeInv
  <1>1. CASE Connect(t)
    <2>1. /\ mpc[t] = "connect" /\ kind' = kind /\ net' = net
          /\ mpc' = [mpc EXCEPT ![t] = "send"] \/ mpc' = [mpc EXCEPT ![t] = "done"]
          /\ Connects(t, "ctrlq") \/ srv' = srv
      BY <1>1, Zenon DEF Connect, Fails, At, Goto
    <2>2. SameServer
      <3>1. CASE srv' = srv
        BY <3>1 DEF SameServer
      <3>2. CASE Connects(t, "ctrlq")
        BY <3>2, ConnectsCtrl DEF SameServer
      <3> QED BY <2>1, <3>1, <3>2
    <2> QED BY <2>1, <2>2, DataGoesOn
  <1>2. CASE SendRequest(t)
    <2>1. /\ mpc[t] = "send" /\ kind' = kind /\ srv' = srv
          /\ mpc' = [mpc EXCEPT ![t] = "recv"] \/ mpc' = [mpc EXCEPT ![t] = "done"]
      BY <1>2, Zenon DEF SendRequest, At, Goto, clientVars
    <2>2. /\ net'[t].rep = <<>>
          /\ \A u \in Tasks : net'[u].data = net[u].data /\ net'[u].rep = net[u].rep
      <3>1. net[t].rep = <<>>
        BY <2>1, SilentElsewhere DEF AnswerInv, Silent
      <3> QED BY <1>2, <3>1, SendNet DEF NetBecomes
    <2>3. SameServer
      BY <2>1 DEF SameServer
    <2> QED BY <2>1, <2>2, <2>3, DataGoesOn
  <1>3. CASE Die(t)
    <2>1. /\ mpc' = [s \in Tasks |-> IF mpc[s] = "connect" THEN "connect" ELSE "gone"]
          /\ UNCHANGED <<kind, srv, net>>
      BY <1>3 DEF Die, clientVars
    <2>2. \A u \in Tasks : mpc'[u] \in {"connect", "gone"} /\ (mpc[u] # "connect" => mpc'[u] = "gone")
      BY <2>1
    <2>3. QueuedOwn'
      <3> SUFFICES ASSUME NEW c \in Clients, srv'[c].dataq # <<>>, NEW u, u = srv'[c].task
                   PROVE  /\ srv'[c].dataq = <<u>> /\ srv'[c].pc = "data" /\ srv'[c].log = kind'[u]
                          /\ mpc'[u] = "gone"
        BY DEF QueuedOwn, WaitsFor
      <3>1. /\ srv[c].dataq = <<u>> /\ srv[c].pc = "data" /\ srv[c].log = kind[u] /\ u = srv[c].task
            /\ mpc[u] \in {"read", "done", "gone"}
        BY <2>1 DEF DataInv, QueuedOwn, WaitsFor
      <3>2. u \in Tasks
        BY <3>1 DEF SrvType, SrvOwn, Visitors
      <3> QED BY <2>1, <2>2, <3>1, <3>2
    <2>4. PeerIsTask' /\ PromiseKept'
      BY <2>1, <2>2 DEF DataInv, PeerIsTask, PromiseKept, Promised
    <2> QED BY <2>3, <2>4 DEF DataInv
  <1>4. CASE Skip(t) \/ EndOfData(t) \/ RecvClosed(t)
    <2>1. /\ mpc[t] \in {"recv", "again"} \/ (mpc[t] = "read" /\ net[t].data # <<>>)
          /\ NextKind(t) /\ srv' = srv
          /\ \/ net' = net \/ net' = [net EXCEPT ![t].data = <<>>]
             \/ net[t].rep # <<>> /\ net' = [net EXCEPT ![t].rep = Tail(@)]
      BY <1>4, Zenon DEF Skip, EndOfData, RecvClosed, At, clientVars
    <2>2. mpc' = [mpc EXCEPT ![t] = "send"] /\ \A u \in Tasks : u # t => kind'[u] = kind[u]
      BY <2>1 DEF NextKind, Goto, TaskType
    <2>3. SameServer
      BY <2>1 DEF SameServer
    <2>4. \A u \in Tasks : /\ net[u].data = <<>> => net'[u].data = <<>>
                           /\ net'[u].rep # <<>> => net'[u].rep = net[u].rep
      <3>1. CASE net' = net
        BY <3>1
      <3>3. CASE net' = [net EXCEPT ![t].data = <<>>]
        BY <3>3, NoData DEF NetBecomes
      <3>2. CASE net[t].rep # <<>> /\ net' = [net EXCEPT ![t].rep = Tail(@)]
        <4>1. NetBecomes(t, net[t].req, Tail(net[t].rep), net[t].data)
          BY <3>2, TakeRep
        <4>2. Tail(net[t].rep) = <<>>
          BY <3>2, OneElement DEF AnswerInv, Exchange, Silent, Asked, Replied
        <4> QED BY <4>1, <4>2 DEF NetBecomes
      <3> QED BY <2>1, <3>1, <3>2, <3>3
    <2>5. mpc[t] \notin {"done", "gone"} /\ (mpc[t] = "read" => net[t].data # <<>>)
      BY <2>1
    <2> QED BY <2>2, <2>3, <2>4, <2>5, DataGoesOn
  <1>5. CASE SetDir(t)
    <2>1. /\ mpc[t] = "recv" /\ net[t].rep # <<>> /\ Head(net[t].rep) = Yes(kind[t])
          /\ mpc' = [mpc EXCEPT ![t] = "data"] /\ kind' = kind /\ srv' = srv
          /\ net' = [net EXCEPT ![t].rep = Tail(@)]
      BY <1>5, Zenon DEF SetDir, At, Goto, clientVars
    <2>2. SameServer
      BY <2>1 DEF SameServer
    <2>3. net[t].rep = <<Yes(kind[t])>> /\ Tail(net[t].rep) = <<>>
      <3>1. net[t].rep # <<>> /\ Head(net[t].rep) = Yes(kind[t])
        BY <2>1
      <3>2. \E y : net[t].rep = <<y>>
        BY <3>1 DEF AnswerInv, Exchange, Silent, Asked, Replied
      <3> QED BY <3>1, <3>2, OneElement, Zenon
    <2>4. NetBecomes(t, net[t].req, Tail(net[t].rep), net[t].data)
      BY <2>1, TakeRep
    <2>5. \A u \in Tasks : net'[u].data = net[u].data /\ (net'[u].rep # <<>> => net'[u].rep = net[u].rep)
      BY <2>3, <2>4 DEF NetBecomes
    <2>6. Promised(t)
      BY <2>1, <2>3 DEF Promised
    <2> QED BY <2>1, <2>2, <2>5, <2>6, DataGoesOn
  <1>6. CASE ReadBuffer(t)
    <2>1. /\ mpc[t] = "read" /\ net[t].data # <<>> /\ mpc' = [mpc EXCEPT ![t] = "ip"]
          /\ kind' = kind /\ srv' = srv /\ net' = [net EXCEPT ![t].data = Tail(@)]
      BY <1>6, Zenon DEF ReadBuffer, At, Goto, clientVars
    <2>2. SameServer
      BY <2>1 DEF SameServer
    <2>3. \A u \in Tasks : net'[u].rep = net[u].rep /\ (net[u].data = <<>> => net'[u].data = <<>>)
      BY <2>1, TakeData DEF NetBecomes
    <2> QED BY <2>1, <2>2, <2>3, DataGoesOn
  <1>7. CASE Close(t) \/ AppendIp(t) \/ AppendName(t)
    <2>1. /\ mpc[t] \in {"send", "ip", "name"} /\ UNCHANGED <<kind, srv, net>>
          /\ \/ mpc' = [mpc EXCEPT ![t] = "done"]
             \/ mpc' = [mpc EXCEPT ![t] = "name"]
             \/ mpc' = [mpc EXCEPT ![t] = "store"]
      BY <1>7, Zenon DEF Close, AppendIp, AppendName, At, Goto, clientVars
    <2>2. SameServer
      BY <2>1 DEF SameServer
    <2> QED BY <2>1, <2>2, DataGoesOn
  <1>8. CASE Store(t)
    <2>1. /\ mpc[t] = "store" /\ UNCHANGED <<kind, srv>> /\ mpc' = [mpc EXCEPT ![t] = "again"]
          /\ net' = [net EXCEPT ![t].data = <<>>]
      BY <1>8, Zenon DEF Store, At, Goto, clientVars
    <2>2. SameServer
      BY <2>1 DEF SameServer
    <2>3. \A u \in Tasks : net'[u].rep = net[u].rep /\ (net[u].data = <<>> => net'[u].data = <<>>)
      BY <2>1, NoData DEF NetBecomes
    <2> QED BY <2>1, <2>2, <2>3, DataGoesOn
  <1>9. CASE RecvForeign(t)
    BY <1>9, DataElsewhere DEF RecvForeign, At
  <1> QED BY <1>1, <1>2, <1>3, <1>4, <1>5, <1>6, <1>7, <1>8, <1>9, DataOpened DEF ctrl_data_pthread

LEMMA DataServer ==
  ASSUME TypeInv, AnswerInv, OpenInv, DataInv, NEW c \in Clients, ServerStep(c), CutStays, ~strayed'
  PROVE  DataInv'
PROOF
  <1> USE DEF TypeInv
  <1>1. UNCHANGED <<mpc, kind>>
    BY Zenon DEF ServerStep, ctrl_server, ServerAccept, ServerAnswer, ServerData, ServerRemove, ServerEnd,
       DataAcceptFails, Kill, Vanish, Restart, LogAppears, taskVars
  <1>2. ASSUME NEW t \in Visitors(c), Promised(t)
        PROVE  t \in dead \cup lost \/ (WaitsFor(c, t) /\ srv[c].dataq = <<>>)
    BY <1>2 DEF DataInv, PromiseKept, Visitors
  <1>3. srv[c].pc # "data" => srv[c].dataq = <<>>
    BY DEF DataInv, QueuedOwn, WaitsFor
  <1>4. CASE ServerAccept(c)
    <2>1. /\ srv[c].pc = "accept" /\ net' = net /\ \A d \in Clients : d # c => srv'[d] = srv[d]
          /\ srv'[c].pc = "recv" /\ srv'[c].dataq = srv[c].dataq
      <3>1. net' = net
        BY <1>4 DEF ServerAccept
      <3> QED BY <1>4, <3>1, AcceptSrv DEF SrvBecomes
    <2>2. \A u \in Visitors(c) : Promised(u)' => u \in dead' \cup lost'
      BY <1>1, <1>2, <2>1 DEF Promised, WaitsFor, CutStays, Visitors
    <2> QED BY <1>1, <1>3, <2>1, <2>2, DataServed
  <1>5. CASE ServerEnd(c)
    <2>1. /\ srv[c].pc = "recv" /\ net' = net /\ \A d \in Clients : d # c => srv'[d] = srv[d]
          /\ srv'[c].pc = "accept" /\ srv'[c].dataq = srv[c].dataq
      <3>1. net' = net
        BY <1>5 DEF ServerEnd
      <3> QED BY <1>5, <3>1, EndSrv DEF SrvBecomes
    <2>2. \A u \in Visitors(c) : Promised(u)' => u \in dead' \cup lost'
      BY <1>1, <1>2, <2>1 DEF Promised, WaitsFor, CutStays, Visitors
    <2> QED BY <1>1, <1>3, <2>1, <2>2, DataServed
  <1>6. CASE ServerAnswer(c)
    <2>1. srv[c].pc = "recv"
      BY <1>6 DEF ServerAnswer, Serving
    <2>2. PICK t \in Visitors(c) : t = srv[c].task
      BY <1>6, AnswerNet
    <2>3. PICK k \in Kinds : k = Head(net[t].req) /\ net[t].req # <<>>
      BY <1>6, <2>2, AnswerNet
    <2>4. PICK r \in {<<>>, <<Yes(k)>>, <<No(k)>>} :
            /\ NetBecomes(t, Tail(net[t].req), net[t].rep \o r, net[t].data)
            /\ r = <<Yes(k)>> =>
                 srv' = [srv EXCEPT ![c] = [srv[c] EXCEPT !.pc = "data", !.log = k]]
            /\ r # <<Yes(k)>> => srv' = srv
      BY <1>6, <2>2, <2>3, AnswerNet
    <2>5. /\ net'[t].rep = r
          /\ mpc[t] # "gone" => k = kind[t]
      <3>1. t \in Tasks
        BY DEF Visitors
      <3>2. Asked(t)
        BY <2>3, <3>1 DEF AnswerInv, Exchange, Silent, Replied
      <3>3. net[t].rep = <<>> /\ \E y : net[t].req = <<y>> /\ (mpc[t] # "gone" => y = kind[t])
        BY <3>2 DEF Asked
      <3>4. mpc[t] # "gone" => k = kind[t]
        BY <2>3, <3>3, OneElement, Zenon
      <3>5. net[t].rep \o r = r
        BY <3>3, OneElement, NoElement
      <3> QED BY <2>4, <3>4, <3>5 DEF NetBecomes
    <2>6. /\ \A d \in Clients : d # c => srv'[d] = srv[d]
          /\ srv'[c].dataq = <<>> /\ srv'[c].pc # "remove"
          /\ r = <<Yes(k)>> => srv'[c].pc = "data" /\ srv'[c].task = t /\ srv'[c].log = k
      <3>1. CASE r = <<Yes(k)>>
        <4>1. k \in Nat
          BY SessionAssumption DEF Kinds
        <4>2. SrvBecomes(c, "data", srv[c].ctrlq, srv[c].dataq, srv[c].task, srv[c].peer, k)
          BY <2>4, <3>1, <4>1, PromiseSrv
        <4> QED BY <1>3, <2>1, <2>2, <4>2 DEF SrvBecomes
      <3>2. CASE r # <<Yes(k)>>
        BY <1>3, <2>1, <2>4, <3>2
      <3> QED BY <3>1, <3>2
    <2>7. \A u \in Tasks : u # t => net'[u] = net[u]
      BY <2>4 DEF NetBecomes
    <2>8. ASSUME NEW u \in Visitors(c), Promised(u)', u \notin dead' \cup lost'
          PROVE  srv'[c].pc = "data" /\ srv'[c].task = u /\ srv'[c].log = kind[u]
      <3>0. u \in Tasks /\ u \notin dead \cup lost
        BY <2>8 DEF CutStays, Visitors
      <3>1. u = t
        BY <1>1, <1>2, <2>1, <2>7, <2>8, <3>0 DEF Promised, WaitsFor
      <3>2. mpc[t] # "data"
        BY <1>2, <2>1, <3>0, <3>1 DEF Promised, WaitsFor
      <3>3. r = <<Yes(kind[t])>> /\ mpc[t] # "gone"
        BY <1>1, <2>5, <2>8, <3>1, <3>2 DEF Promised
      <3> QED BY <2>5, <2>6, <3>1, <3>3
    <2>9. \A u \in Tasks : u \notin Visitors(c) => net'[u].rep = net[u].rep /\ net'[u].data = net[u].data
      BY <2>7
    <2> QED BY <1>1, <2>6, <2>8, <2>9, DataServed
  <1>7. CASE ServerData(c)
    <2>1. /\ srv[c].dataq # <<>> /\ \A d \in Clients : d # c => srv'[d] = srv[d]
          /\ srv'[c].dataq = Tail(srv[c].dataq) /\ srv'[c].task = srv[c].task
          /\ srv'[c].pc = "remove" => srv'[c].peer = Head(srv[c].dataq)
      BY <1>7, DataSrv DEF SrvBecomes
    <2>2. PICK t \in Visitors(c) : t = srv[c].task
      BY <2>1 DEF DataInv, QueuedOwn, WaitsFor, SrvType, SrvOwn
    <2>3. srv[c].dataq = <<t>> /\ mpc[t] \in {"read", "done", "gone"}
      BY <2>1, <2>2 DEF DataInv, QueuedOwn
    <2>4. t = Head(srv[c].dataq) /\ Tail(srv[c].dataq) = <<>>
      BY <2>3, OneElement
    <2>5. \A u \in Tasks : u # t => net'[u] = net[u]
      <3>1. net' = net \/ \E n \in Sizes : NetBecomes(t, net[t].req, net[t].rep, [i \in 1..n |-> i])
        BY <1>7, <2>4, ServerDataNet DEF FileSent
      <3> QED BY <3>1, Zenon DEF NetBecomes
    <2>6. \A u \in Visitors(c) : Promised(u)' => u \in dead' \cup lost'
      <3> SUFFICES ASSUME NEW u \in Visitors(c), Promised(u)', u \notin dead' \cup lost'
                   PROVE  FALSE
        OBVIOUS
      <3>0. u \notin dead \cup lost
        BY DEF CutStays, Visitors
      <3>1. u # t
        BY <1>1, <2>3 DEF Promised
      <3>2. Promised(u)
        BY <1>1, <2>5, <3>1 DEF Promised, Visitors
      <3>3. srv[c].pc = "data" /\ srv[c].task # u
        BY <2>1, <2>2, <3>1 DEF DataInv, QueuedOwn, WaitsFor
      <3> QED BY <1>2, <3>0, <3>2, <3>3 DEF WaitsFor
    <2>7. \A u \in Tasks : u \notin Visitors(c) => net'[u].rep = net[u].rep /\ net'[u].data = net[u].data
      BY <2>5
    <2> QED BY <1>1, <2>1, <2>2, <2>4, <2>6, <2>7, DataServed
  <1>8. CASE ServerRemove(c)
    <2>1. /\ srv[c].pc = "remove" /\ \A d \in Clients : d # c => srv'[d] = srv[d]
          /\ srv'[c].dataq = srv[c].dataq /\ srv'[c].pc = "recv"
      BY <1>8, RemoveSrv DEF SrvBecomes
    <2>2. PICK t \in Visitors(c) : t = srv[c].peer
      BY <2>1 DEF DataInv, PeerIsTask, SrvType, SrvOwn
    <2>3. /\ \A u \in Tasks : net'[u].rep = net[u].rep
          /\ \A u \in Tasks : u # t => net'[u] = net[u]
      <3>1. net' = net \/ net' = Ends(t)
        BY <1>8, <2>2 DEF ServerRemove
      <3>2. t \in Tasks
        BY DEF Visitors
      <3> QED BY <3>1, <3>2, EndNet DEF NetBecomes
    <2>4. \A u \in Visitors(c) : Promised(u)' => u \in dead' \cup lost'
      BY <1>1, <1>2, <2>1, <2>3 DEF Promised, WaitsFor, Visitors, CutStays
    <2>5. \A u \in Tasks : u \notin Visitors(c) => net'[u].rep = net[u].rep /\ net'[u].data = net[u].data
      BY <2>3
    <2> QED BY <1>1, <1>3, <2>1, <2>4, <2>5, DataServed
  <1>9. CASE Kill(c) \/ Vanish(c)
    <2>1. /\ \A d \in Clients : d # c => srv'[d] = srv[d]
          /\ srv'[c].dataq = <<>> /\ srv'[c].pc = "down"
      BY <1>9, KillSrv DEF SrvBecomes
    <2>2. \A u \in Tasks : u \notin Visitors(c) => net'[u].rep = net[u].rep /\ net'[u].data = net[u].data
      BY <1>9, KillNet, VanishNet DEF Visitors
    <2>3. ASSUME NEW u \in Visitors(c), Promised(u)'
          PROVE  u \in dead' \cup lost'
      <3>1. u \in Tasks /\ Host[u] = c /\ u \in open
        BY <1>1, <2>3 DEF Promised, OpenInv, Working, Visitors
      <3> QED BY <1>9, <3>1 DEF Kill, Vanish
    <2> QED BY <1>1, <2>1, <2>2, <2>3, DataServed
  <1>10. CASE Restart(c)
    <2>1. /\ net' = net /\ \A d \in Clients : d # c => srv'[d] = srv[d]
          /\ srv'[c].pc = "accept" /\ srv'[c].dataq = <<>> /\ srv[c].pc = "down"
      <3>1. net' = net
        BY <1>10 DEF Restart
      <3> QED BY <1>10, <3>1, RestartSrv DEF SrvBecomes
    <2>2. \A u \in Visitors(c) : Promised(u)' => u \in dead' \cup lost'
      BY <1>1, <1>2, <2>1 DEF Promised, WaitsFor, CutStays, Visitors
    <2> QED BY <1>1, <2>1, <2>2, DataServed
  <1>11. CASE \E k \in Kinds : LogAppears(c, k)
    <2>1. UNCHANGED <<srv, net>>
      BY <1>11 DEF LogAppears
    <2> QED BY <1>1, <2>1, DataSame
  <1>12. CASE DataAcceptFails(c)
    BY <1>12 DEF DataAcceptFails
  <1> QED BY <1>4, <1>5, <1>6, <1>7, <1>8, <1>9, <1>10, <1>11, <1>12 DEF ServerStep, ctrl_server

LEMMA DataNext ==
  ASSUME TypeInv, AnswerInv, OpenInv, DataInv, [Next]_vars, ~strayed'
  PROVE  DataInv'
PROOF
  <1>1. CASE Next
    <2>1. ASSUME OtherStep, CutStays
          PROVE  DataInv'
      <3>1. ASSUME NEW t \in Tasks, RecvOther(t)
            PROVE  DataInv'
        BY <2>1, <3>1, DataElsewhere DEF RecvOther, At
      <3>2. CASE \A t \in Tasks : ~RecvOther(t)
        <4>1. UNCHANGED <<mpc, kind, net, srv>>
          BY <2>1, <3>2 DEF OtherStep, OtherOpens, OtherCloses, Reset, taskVars, clientVars
        <4> QED BY <2>1, <4>1, DataSame
      <3> QED BY <3>1, <3>2
    <2> QED BY <1>1, <2>1, DataTask, DataServer, LinksKept, Steps
  <1>2. CASE UNCHANGED vars
    <2>1. UNCHANGED <<mpc, kind, net, srv>> /\ CutStays
      BY <1>2 DEF vars, taskVars, clientVars, linkVars, CutStays
    <2> QED BY <2>1, DataSame
  <1> QED BY <1>1, <1>2

LEMMA DataHolds == ASSUME DataInv PROVE SessionsKeepData
PROOF
  <1> SUFFICES ASSUME NEW c \in Clients
               PROVE  /\ \A i \in DOMAIN srv[c].dataq :
                           /\ srv[c].pc = "data" /\ srv[c].dataq[i] = srv[c].task
                           /\ kind[srv[c].dataq[i]] = srv[c].log
                      /\ srv[c].pc = "remove" => srv[c].peer = srv[c].task
    BY DEF SessionsKeepData
  <1>1. CASE srv[c].dataq = <<>>
    BY <1>1 DEF DataInv, PeerIsTask
  <1>2. CASE srv[c].dataq # <<>>
    <2>1. srv[c].dataq = <<srv[c].task>> /\ srv[c].pc = "data" /\ srv[c].log = kind[srv[c].task]
      BY <1>2 DEF DataInv, QueuedOwn, WaitsFor
    <2>2. \A i \in DOMAIN srv[c].dataq : srv[c].dataq[i] = srv[c].task
      BY <2>1
    <2> QED BY <2>1, <2>2 DEF DataInv, PeerIsTask
  <1> QED BY <1>1, <1>2

-----------------------------------------------------------------------------
(***************************************************************************)
(* Logs that were sent.  A task's connection is closed by nobody but the   *)
(* task itself, at its end; so the task a server sends a log to still      *)
(* waits for it, or has given it up with its control connection open, or   *)
(* died with the Master.  What a host that vanished had sent may be lost.  *)
(***************************************************************************)
FirstStored(t, k) == \E s \in stored : s[2] = t /\ s[3] = k /\ s[4] = 1

FirstUnderWay(t, k) ==
  \/ mpc[t] = "read" /\ kind[t] = k /\ net[t].data # <<>> /\ Head(net[t].data) = 1
  \/ mpc[t] \in {"ip", "name", "store"} /\ kind[t] = k /\ buffer[t] = 1
  \/ mpc[t] = "done" /\ t \in open /\ kind[t] = k
  \/ mpc[t] = "gone"

SentOwn ==
  \A t \in Tasks, k \in Kinds :
    <<t, k>> \in sent => t \in lost \/ FirstStored(t, k) \/ FirstUnderWay(t, k)

QueueOpen ==
  \A c \in Clients : srv[c].dataq # <<>> /\ mpc[srv[c].task] = "done" => srv[c].task \in open

SentInv == QueueOpen /\ SentOwn

LEMMA SentInit == ASSUME Init PROVE SentInv
PROOF
  <1>1. ASSUME NEW c \in Clients
        PROVE  srv[c].dataq = <<>>
    BY DEF Init, Fresh
  <1>2. sent = {}
    BY DEF Init
  <1> QED BY <1>1, <1>2 DEF SentInv, QueueOpen, SentOwn

LEMMA StoredStays ==
  ASSUME stored \subseteq stored', NEW t, NEW k, FirstStored(t, k)
  PROVE  FirstStored(t, k)'
BY DEF FirstStored

(***************************************************************************)
(* A step of one task.                                                     *)
(***************************************************************************)
LEMMA SentGoesOn ==
  ASSUME TypeInv, SentInv, NEW t \in Tasks, NEW label,
         mpc' = [mpc EXCEPT ![t] = label], UNCHANGED <<sent, lost>>, stored \subseteq stored',
         \A u \in Tasks : u # t => /\ kind'[u] = kind[u] /\ buffer'[u] = buffer[u]
                                   /\ net'[u].data = net[u].data /\ (u \in open => u \in open'),
         \A c \in Clients : srv'[c].dataq # <<>> =>
           \/ srv'[c].task = t /\ (label = "done" => t \in open')
           \/ srv'[c].task \in Tasks \ {t} /\ srv[c].dataq # <<>> /\ srv[c].task = srv'[c].task
  PROVE  /\ QueueOpen'
         /\ (\A k \in Kinds : FirstUnderWay(t, k) => FirstStored(t, k)' \/ FirstUnderWay(t, k)') => SentOwn'
PROOF
  <1> USE DEF TypeInv, TaskType
  <1>1. \A u \in Tasks : mpc'[u] = IF u = t THEN label ELSE mpc[u]
    OBVIOUS
  <1>2. QueueOpen'
    <2>2. ASSUME NEW c \in Clients, srv'[c].dataq # <<>>, mpc'[srv'[c].task] = "done"
          PROVE  srv'[c].task \in open'
      <3>1. CASE srv'[c].task = t
        BY <1>1, <2>2, <3>1
      <3>2. CASE srv'[c].task # t
        BY <1>1, <2>2, <3>2 DEF SentInv, QueueOpen
      <3> QED BY <3>1, <3>2
    <2> QED BY <2>2 DEF QueueOpen
  <1>3. ASSUME \A k \in Kinds : FirstUnderWay(t, k) => FirstStored(t, k)' \/ FirstUnderWay(t, k)'
        PROVE  SentOwn'
    <2> SUFFICES ASSUME NEW u \in Tasks, NEW k \in Kinds, <<u, k>> \in sent, u \notin lost
                 PROVE  FirstStored(u, k)' \/ FirstUnderWay(u, k)'
      BY DEF SentOwn
    <2>1. CASE FirstStored(u, k)
      BY <2>1, StoredStays
    <2>2. CASE FirstUnderWay(u, k)
      <3>1. CASE u = t
        BY <1>3, <2>2, <3>1
      <3>2. CASE u # t
        BY <1>1, <2>2, <3>2 DEF FirstUnderWay
      <3> QED BY <3>1, <3>2
    <2> QED BY <2>1, <2>2 DEF SentInv, SentOwn
  <1> QED BY <1>2, <1>3

(***************************************************************************)
(* What is in a data queue belongs to a task at one of three places.       *)
(***************************************************************************)
LEMMA QueueOwner ==
  ASSUME TypeInv, DataInv, NEW c \in Clients, srv[c].dataq # <<>>
  PROVE  /\ srv[c].task \in Visitors(c) /\ mpc[srv[c].task] \in {"read", "done", "gone"}
         /\ mpc[srv[c].task] = "read" => net[srv[c].task].data = <<>>
         /\ srv[c].dataq = <<srv[c].task>> /\ kind[srv[c].task] = srv[c].log
BY DEF DataInv, QueuedOwn, WaitsFor, TypeInv, SrvType, SrvOwn

LEMMA QueueSame ==
  ASSUME TypeInv, DataInv, SameServer, NEW t \in Tasks,
         mpc[t] \notin {"read", "done", "gone"} \/ (mpc[t] = "read" /\ net[t].data # <<>>)
  PROVE  \A c \in Clients : srv'[c].dataq # <<>> =>
           srv'[c].task \in Tasks \ {t} /\ srv[c].dataq # <<>> /\ srv[c].task = srv'[c].task
BY QueueOwner DEF SameServer, Visitors

LEMMA NotUnderWay ==
  ASSUME NEW t, mpc[t] \notin {"read", "ip", "name", "store", "done", "gone"}, NEW k
  PROVE  ~FirstUnderWay(t, k)
BY DEF FirstUnderWay

LEMMA SentConnect ==
  ASSUME TypeInv, DataInv, SentInv, NEW t \in Tasks, Connect(t)
  PROVE  SentInv'
PROOF
  <1> USE DEF TypeInv, TaskType
  <1>1. /\ mpc[t] = "connect" /\ UNCHANGED <<kind, buffer, net, sent, stored, lost>>
        /\ \/ mpc' = [mpc EXCEPT ![t] = "send"] /\ open' = open \cup {t}
           \/ mpc' = [mpc EXCEPT ![t] = "done"] /\ open' = open
        /\ Connects(t, "ctrlq") \/ srv' = srv
    BY Zenon DEF Connect, Fails, At, Goto, fileVars, linkVars
  <1>2. SameServer
    <2>1. CASE srv' = srv
      BY <2>1 DEF SameServer
    <2>2. CASE Connects(t, "ctrlq")
      BY <2>2, ConnectsCtrl DEF SameServer
    <2> QED BY <1>1, <2>1, <2>2
  <1>4. \A c \in Clients : srv'[c].dataq # <<>> =>
          srv'[c].task \in Tasks \ {t} /\ srv[c].dataq # <<>> /\ srv[c].task = srv'[c].task
    BY <1>1, <1>2, QueueSame
  <1>5. \A k \in Kinds : ~FirstUnderWay(t, k)
    BY <1>1, NotUnderWay
  <1>6. /\ UNCHANGED <<sent, lost>> /\ stored \subseteq stored'
        /\ \A u \in Tasks : u # t => /\ kind'[u] = kind[u] /\ buffer'[u] = buffer[u]
                                     /\ net'[u].data = net[u].data /\ (u \in open => u \in open')
    BY <1>1
  <1>7. ASSUME NEW label, mpc' = [mpc EXCEPT ![t] = label]
        PROVE  SentInv'
    BY <1>4, <1>5, <1>6, <1>7, SentGoesOn DEF SentInv
  <1> QED BY <1>1, <1>7

LEMMA SentDie ==
  ASSUME TypeInv, OpenInv, DataInv, SentInv, NEW t \in Tasks, Die(t)
  PROVE  SentInv'
PROOF
  <1> USE DEF TypeInv, TaskType
  <1>1. /\ mpc' = [s \in Tasks |-> IF mpc[s] = "connect" THEN "connect" ELSE "gone"]
        /\ UNCHANGED <<sent, stored, srv, lost>>
    BY DEF Die, clientVars, linkVars
  <1>2. \A u \in Tasks : mpc'[u] \in {"connect", "gone"} /\ (mpc[u] # "connect" => mpc'[u] = "gone")
    BY <1>1
  <1>3. QueueOpen'
    <2>1. ASSUME NEW c \in Clients, srv'[c].dataq # <<>>
          PROVE  mpc'[srv'[c].task] # "done"
      BY <1>1, <1>2, <2>1, QueueOwner DEF Visitors
    <2> QED BY <2>1 DEF QueueOpen
  <1>4. SentOwn'
    <2> SUFFICES ASSUME NEW u \in Tasks, NEW k \in Kinds, <<u, k>> \in sent, u \notin lost
                 PROVE  FirstStored(u, k)' \/ FirstUnderWay(u, k)'
      BY <1>1 DEF SentOwn
    <2>1. CASE mpc[u] = "connect"
      BY <1>1, <2>1, NotUnderWay, StoredStays DEF SentInv, SentOwn
    <2>2. CASE mpc[u] # "connect"
      BY <1>2, <2>2 DEF FirstUnderWay
    <2> QED BY <2>1, <2>2
  <1> QED BY <1>3, <1>4 DEF SentInv

LEMMA SentDataConnect ==
  ASSUME TypeInv, OpenInv, DataInv, SentInv, NEW t \in Tasks, DataConnect(t), ~strayed'
  PROVE  SentInv'
PROOF
  <1> USE DEF TypeInv, TaskType
  <1>1. /\ mpc[t] = "data" /\ UNCHANGED <<kind, buffer, sent, stored, open, lost>>
        /\ mpc' = [mpc EXCEPT ![t] = "read"] \/ mpc' = [mpc EXCEPT ![t] = "done"]
        /\ Connects(t, "dataq") \/ srv' = srv
    BY Zenon DEF DataConnect, Fails, At, Goto, fileVars
  <1>2. t \in open
    BY <1>1 DEF OpenInv, Working
  <1>4. \A c \in Clients : srv'[c].dataq # <<>> =>
          \/ srv'[c].task = t
          \/ srv'[c].task \in Tasks \ {t} /\ srv[c].dataq # <<>> /\ srv[c].task = srv'[c].task
    <2>1. CASE srv' = srv
      BY <1>1, <2>1, QueueOwner DEF Visitors
    <2>2. CASE Connects(t, "dataq")
      <3>1. PICK c \in Clients : c = Host[t]
        BY HostClient
      <3>2. /\ \A d \in Clients : d # c => srv'[d] = srv[d]
            /\ srv[c].pc # "down" /\ srv'[c].task = srv[c].task
        BY <2>2, <3>1, ConnectsData
      <3>4. t \notin dead \cup lost
        BY <2>2, Strayed
      <3>3. srv[c].task = t
        BY <1>1, <3>1, <3>4 DEF DataInv, PromiseKept, Promised, WaitsFor
      <3> QED BY <1>1, <3>2, <3>3, QueueOwner DEF Visitors
    <2> QED BY <1>1, <2>1, <2>2
  <1>5. \A k \in Kinds : ~FirstUnderWay(t, k)
    BY <1>1, NotUnderWay
  <1>6. /\ UNCHANGED <<sent, lost>> /\ stored \subseteq stored' /\ t \in open'
        /\ \A u \in Tasks : u # t => /\ kind'[u] = kind[u] /\ buffer'[u] = buffer[u]
                                     /\ net'[u].data = net[u].data /\ (u \in open => u \in open')
    <2>1. \A u \in Tasks : u # t => net'[u].data = net[u].data
      <3>1. net' = [net EXCEPT ![t].data = <<>>]
        BY Zenon DEF DataConnect
      <3>2. NetBecomes(t, net[t].req, net[t].rep, <<>>)
        BY <3>1, NoData
      <3> QED BY <3>2 DEF NetBecomes
    <2> QED BY <1>1, <1>2, <2>1
  <1>7. ASSUME NEW label, mpc' = [mpc EXCEPT ![t] = label]
        PROVE  SentInv'
    BY <1>4, <1>5, <1>6, <1>7, SentGoesOn DEF SentInv
  <1> QED BY <1>1, <1>7

(***************************************************************************)
(* The steps between connecting and the end of the thread, none of which   *)
(* opens a connection.                                                     *)
(***************************************************************************)
LEMMA SentMoves ==
  ASSUME TypeInv, OpenInv, DataInv, SentInv, NEW t \in Tasks, NEW label \in Labels,
         mpc[t] \notin {"connect", "read", "done", "gone"} \/ (mpc[t] = "read" /\ net[t].data # <<>>),
         mpc' = [mpc EXCEPT ![t] = label], UNCHANGED <<sent, srv, lost>>, stored \subseteq stored',
         \A u \in Tasks : u # t => kind'[u] = kind[u] /\ buffer'[u] = buffer[u] /\ net'[u].data = net[u].data,
         open' = open \/ (open' = open \ {t} /\ label = "done")
  PROVE  /\ QueueOpen'
         /\ (\A k \in Kinds : FirstUnderWay(t, k) => FirstStored(t, k)' \/ FirstUnderWay(t, k)') => SentOwn'
PROOF
  <1> USE DEF TypeInv, TaskType
  <1>2. SameServer
    BY DEF SameServer
  <1>3. \A c \in Clients : srv'[c].dataq # <<>> =>
          srv'[c].task \in Tasks \ {t} /\ srv[c].dataq # <<>> /\ srv[c].task = srv'[c].task
    BY <1>2, QueueSame
  <1>4. t \in open
    BY DEF OpenInv, Working, Labels
  <1>6. UNCHANGED <<sent, lost>> /\ \A u \in Tasks : u # t => (u \in open => u \in open')
    OBVIOUS
  <1> QED BY <1>3, <1>4, <1>6, SentGoesOn

LEMMA SentSame ==
  ASSUME TypeInv, SentInv, UNCHANGED <<mpc, kind, buffer, open, stored, sent, net, srv, lost>>
  PROVE  SentInv'
BY DEF SentInv, QueueOpen, SentOwn, FirstStored, FirstUnderWay

LEMMA SentElsewhere ==
  ASSUME TypeInv, OpenInv, DataInv, SentInv, NEW t \in Tasks, mpc[t] = "again", LeavesLoop(t) \/ Steals,
         UNCHANGED <<buffer, open, stored, net, clientVars, lost>>
  PROVE  SentInv'
PROOF
  <1>1. UNCHANGED <<sent, srv>>
    BY DEF clientVars
  <1>2. CASE Steals
    BY <1>1, <1>2, SentSame DEF Steals
  <1>3. CASE LeavesLoop(t)
    <2>1. mpc' = [mpc EXCEPT ![t] = "send"] /\ \A u \in Tasks : u # t => kind'[u] = kind[u]
      BY <1>3 DEF LeavesLoop, NextKind, Goto, TypeInv, TaskType
    <2>2. "send" \in Labels /\ \A k \in Kinds : ~FirstUnderWay(t, k)
      BY NotUnderWay DEF Labels
    <2> QED BY <1>1, <2>1, <2>2, SentMoves DEF SentInv
  <1> QED BY <1>2, <1>3

LEMMA SentTask ==
  ASSUME TypeInv, AnswerInv, OpenInv, DataInv, SentInv, NEW t \in Tasks, ctrl_data_pthread(t), ~strayed'
  PROVE  crashed' \/ SentInv'
PROOF
  <1> USE DEF TypeInv
  <1>2. "send" \in Labels /\ "recv" \in Labels /\ "data" \in Labels /\ "ip" \in Labels
        /\ "name" \in Labels /\ "store" \in Labels /\ "again" \in Labels /\ "done" \in Labels
    BY DEF Labels
  <1>3. CASE SendRequest(t) \/ Close(t) \/ Skip(t) \/ SetDir(t) \/ RecvClosed(t)
    <2>1. /\ mpc[t] \in {"send", "recv", "again"} /\ UNCHANGED <<sent, srv, stored, buffer, lost>>
          /\ \/ mpc' = [mpc EXCEPT ![t] = "recv"] /\ kind' = kind /\ open' = open
             \/ mpc' = [mpc EXCEPT ![t] = "data"] /\ kind' = kind /\ open' = open
             \/ mpc' = [mpc EXCEPT ![t] = "done"] /\ kind' = kind /\ (open' = open \/ open' = open \ {t})
             \/ NextKind(t) /\ open' = open
      BY <1>3, Zenon DEF SendRequest, Close, Skip, SetDir, RecvClosed, At, Goto, fileVars, clientVars,
         linkVars
    <2>2. ASSUME NextKind(t)
          PROVE  mpc' = [mpc EXCEPT ![t] = "send"] /\ \A u \in Tasks : u # t => kind'[u] = kind[u]
      BY <2>2 DEF NextKind, Goto, TaskType
    <2>3. \A u \in Tasks : u # t => net'[u].data = net[u].data
      <3>1. \/ net' = net
            \/ net[t].rep # <<>> /\ net' = [net EXCEPT ![t].rep = Tail(@)]
            \/ SendRequest(t)
        BY <1>3, Zenon DEF Close, Skip, SetDir, RecvClosed
      <3> QED BY <3>1, TakeRep, SendNet DEF NetBecomes
    <2>4. \A k \in Kinds : ~FirstUnderWay(t, k)
      BY <2>1, NotUnderWay
    <2>5. /\ UNCHANGED <<sent, srv, lost>> /\ stored \subseteq stored'
          /\ mpc[t] \notin {"connect", "read", "done", "gone"}
          /\ \A u \in Tasks : u # t => buffer'[u] = buffer[u] /\ kind'[u] = kind[u]
      BY <2>1, <2>2
    <2> DEFINE Goes(label) == mpc' = [mpc EXCEPT ![t] = label]
    <2>6. ASSUME NEW label \in {"send", "recv", "data", "done"}, Goes(label),
                 open' = open \/ (open' = open \ {t} /\ label = "done")
          PROVE  SentInv'
      <3>1. label \in Labels
        BY <1>2
      <3> QED BY <2>3, <2>4, <2>5, <2>6, <3>1, SentMoves DEF SentInv
    <2>7. \/ Goes("send") /\ open' = open
          \/ Goes("recv") /\ open' = open
          \/ Goes("data") /\ open' = open
          \/ Goes("done") /\ (open' = open \/ open' = open \ {t})
      BY <2>1, <2>2, Zenon
    <2> HIDE DEF Goes
    <2> QED BY <2>6, <2>7
  <1>4. CASE EndOfData(t)
    <2>1. /\ mpc[t] = "read" /\ net[t].data # <<>> /\ Head(net[t].data) = EOF /\ NextKind(t)
          /\ UNCHANGED <<sent, srv, stored, open, buffer, lost>>
          /\ net' = [net EXCEPT ![t].data = <<>>]
      BY <1>4, Zenon DEF EndOfData, At, fileVars, clientVars, linkVars
    <2>2. mpc' = [mpc EXCEPT ![t] = "send"] /\ \A u \in Tasks : u # t => kind'[u] = kind[u]
      BY <2>1 DEF NextKind, Goto, TaskType
    <2>3. \A k \in Kinds : ~FirstUnderWay(t, k)
      BY <2>1 DEF FirstUnderWay, EOF
    <2>4. \A u \in Tasks : u # t => net'[u].data = net[u].data
      BY <2>1, NoData DEF NetBecomes
    <2> QED BY <1>2, <2>1, <2>2, <2>3, <2>4, SentMoves DEF SentInv
  <1>5. CASE ReadBuffer(t)
    <2>1. /\ mpc[t] = "read" /\ net[t].data # <<>> /\ mpc' = [mpc EXCEPT ![t] = "ip"]
          /\ buffer' = [buffer EXCEPT ![t] = Head(net[t].data)]
          /\ UNCHANGED <<sent, srv, stored, open, kind, lost>>
          /\ net' = [net EXCEPT ![t].data = Tail(@)]
      BY <1>5, Zenon DEF ReadBuffer, At, Goto, fileVars, clientVars, linkVars
    <2>2. \A u \in Tasks : u # t => net'[u].data = net[u].data /\ buffer'[u] = buffer[u]
      BY <2>1, TakeData DEF NetBecomes, TaskType
    <2>3. buffer'[t] = Head(net[t].data) /\ mpc'[t] = "ip" /\ kind'[t] = kind[t] /\ mpc[t] = "read"
      BY <2>1 DEF TaskType
    <2>4. \A k \in Kinds : FirstUnderWay(t, k) => FirstUnderWay(t, k)'
      BY <2>3 DEF FirstUnderWay
    <2> QED BY <1>2, <2>1, <2>2, <2>4, SentMoves DEF SentInv
  <1>6. CASE AppendIp(t) \/ AppendName(t)
    <2>1. /\ mpc[t] \in {"ip", "name"}
          /\ mpc' = [mpc EXCEPT ![t] = "name"] \/ mpc' = [mpc EXCEPT ![t] = "store"]
          /\ UNCHANGED <<sent, srv, stored, open, kind, buffer, net, lost>>
      BY <1>6, Zenon DEF AppendIp, AppendName, At, Goto, clientVars, linkVars
    <2>2. \A k \in Kinds : FirstUnderWay(t, k) => FirstUnderWay(t, k)'
      BY <2>1 DEF FirstUnderWay, TaskType
    <2> QED BY <1>2, <2>1, <2>2, SentMoves DEF SentInv
  <1>7. CASE Store(t)
    <2>1. /\ mpc[t] = "store" /\ mpc' = [mpc EXCEPT ![t] = "again"]
          /\ stored' = IF crashed' THEN stored ELSE stored \cup {<<Dir, t, kind[t], buffer[t]>>}
          /\ buffer' = [buffer EXCEPT ![t] = 0] /\ UNCHANGED <<sent, srv, kind, open, lost>>
          /\ net' = [net EXCEPT ![t].data = <<>>]
      BY <1>7, Zenon DEF Store, At, Goto, clientVars, linkVars
    <2>3. \A u \in Tasks : u # t => net'[u].data = net[u].data /\ buffer'[u] = buffer[u]
      BY <2>1, NoData DEF NetBecomes, TaskType
    <2>4. stored \subseteq stored'
      BY <2>1
    <2>5. QueueOpen' /\ ((\A k \in Kinds : FirstUnderWay(t, k) => FirstStored(t, k)' \/ FirstUnderWay(t, k)')
                         => SentOwn')
      BY <1>2, <2>1, <2>3, <2>4, SentMoves
    <2>6. ASSUME ~crashed', NEW k \in Kinds, FirstUnderWay(t, k)
          PROVE  FirstStored(t, k)'
      <3>1. kind[t] = k /\ buffer[t] = 1
        BY <2>1, <2>6 DEF FirstUnderWay
      <3>2. <<Dir, t, kind[t], buffer[t]>> \in stored'
        BY <2>1, <2>6
      <3>3. <<Dir, t, k, 1>> \in stored'
        BY <3>1, <3>2
      <3> QED BY <3>3 DEF FirstStored
    <2> QED BY <2>5, <2>6 DEF SentInv
  <1>8. CASE RecvForeign(t)
    <2>1. /\ mpc[t] = "again" /\ (LeavesLoop(t) \/ Steals) /\ UNCHANGED <<buffer, open, stored, net>>
          /\ UNCHANGED clientVars
      BY <1>8, Zenon DEF RecvForeign, At
    <2>2. lost' = lost
      BY <1>8, Zenon DEF RecvForeign, linkVars
    <2> QED BY <2>1, <2>2, SentElsewhere
  <1> QED BY <1>3, <1>4, <1>5, <1>6, <1>7, <1>8, SentConnect, SentDie, SentDataConnect DEF ctrl_data_pthread

(***************************************************************************)
(* A step of one client which leaves to read what was there to read.       *)
(***************************************************************************)
LEMMA SentServed ==
  ASSUME TypeInv, QueueOpen, NEW c \in Clients, UNCHANGED <<mpc, kind, buffer, open, stored>>,
         lost \subseteq lost',
         \A d \in Clients : d # c => srv'[d] = srv[d],
         srv'[c].dataq # <<>> => srv[c].dataq # <<>> /\ srv'[c].task = srv[c].task,
         \A u \in Tasks : mpc[u] = "read" /\ net[u].data # <<>> /\ u \notin lost' =>
           net'[u].data # <<>> /\ Head(net'[u].data) = Head(net[u].data)
  PROVE  /\ QueueOpen'
         /\ \A u \in Tasks, k \in Kinds :
              u \in lost \/ FirstStored(u, k) \/ FirstUnderWay(u, k)
                => u \in lost' \/ FirstStored(u, k)' \/ FirstUnderWay(u, k)'
PROOF
  <1>1. QueueOpen'
    <2>1. ASSUME NEW d \in Clients, srv'[d].dataq # <<>>, mpc[srv'[d].task] = "done"
          PROVE  srv'[d].task \in open
      <3>1. CASE d = c
        BY <2>1, <3>1 DEF QueueOpen
      <3>2. CASE d # c
        BY <2>1, <3>2 DEF QueueOpen
      <3> QED BY <3>1, <3>2
    <2> QED BY <2>1 DEF QueueOpen
  <1>2. ASSUME NEW u \in Tasks, NEW k \in Kinds, u \in lost \/ FirstStored(u, k) \/ FirstUnderWay(u, k)
        PROVE  u \in lost' \/ FirstStored(u, k)' \/ FirstUnderWay(u, k)'
    <2>1. CASE FirstStored(u, k)
      BY <2>1 DEF FirstStored
    <2>2. CASE FirstUnderWay(u, k)
      BY <2>2 DEF FirstUnderWay
    <2>3. CASE u \in lost
      BY <2>3
    <2> QED BY <1>2, <2>1, <2>2, <2>3
  <1> QED BY <1>1, <1>2

LEMMA SentData ==
  ASSUME TypeInv, DataInv, SentInv, NEW c \in Clients, ServerData(c)
  PROVE  SentInv'
PROOF
  <1> USE DEF TypeInv
  <1>1. /\ srv[c].dataq # <<>> /\ \A d \in Clients : d # c => srv'[d] = srv[d]
        /\ srv'[c].dataq = Tail(srv[c].dataq)
    BY DataSrv DEF SrvBecomes
  <1>2. PICK t \in Visitors(c) : t = srv[c].task
    BY <1>1, QueueOwner
  <1>3. /\ srv[c].dataq = <<t>> /\ mpc[t] \in {"read", "done", "gone"} /\ kind[t] = srv[c].log
        /\ mpc[t] = "read" => net[t].data = <<>>
        /\ mpc[t] = "done" => t \in open
    BY <1>1, <1>2, QueueOwner DEF SentInv, QueueOpen
  <1>4. t = Head(srv[c].dataq) /\ Tail(srv[c].dataq) = <<>> /\ t \in Tasks
    BY <1>3, OneElement DEF Visitors
  <1>5. UNCHANGED <<mpc, kind, buffer, open, stored, lost>>
    BY DEF ServerData, taskVars, fileVars, linkVars
  <1>6. ASSUME \A u \in Tasks : mpc[u] = "read" /\ net[u].data # <<>> =>
                 net'[u].data # <<>> /\ Head(net'[u].data) = Head(net[u].data)
        PROVE  /\ QueueOpen'
               /\ \A u \in Tasks, k \in Kinds :
                    u \in lost \/ FirstStored(u, k) \/ FirstUnderWay(u, k)
                      => u \in lost' \/ FirstStored(u, k)' \/ FirstUnderWay(u, k)'
    BY <1>1, <1>4, <1>5, <1>6, SentServed DEF SentInv
  <1>7. CASE net' = net /\ sent' = sent
    <2>1. /\ QueueOpen'
          /\ \A u \in Tasks, k \in Kinds :
               u \in lost \/ FirstStored(u, k) \/ FirstUnderWay(u, k)
                 => u \in lost' \/ FirstStored(u, k)' \/ FirstUnderWay(u, k)'
      BY <1>6, <1>7, Zenon
    <2> QED BY <1>7, <2>1 DEF SentInv, SentOwn
  <1>8. CASE FileSent(c, t)
    <2>1. PICK n \in Sizes :
            /\ n \in Nat /\ NetBecomes(t, net[t].req, net[t].rep, [i \in 1..n |-> i])
            /\ sent' = IF n = 0 THEN sent ELSE sent \cup {<<srv[c].task, srv[c].log>>}
      BY <1>8 DEF FileSent
    <2>2. /\ \A u \in Tasks : u # t => net'[u] = net[u]
          /\ net'[t].data = [i \in 1..n |-> i]
      BY <2>1 DEF NetBecomes
    <2>3. /\ QueueOpen'
          /\ \A u \in Tasks, k \in Kinds :
               u \in lost \/ FirstStored(u, k) \/ FirstUnderWay(u, k)
                 => u \in lost' \/ FirstStored(u, k)' \/ FirstUnderWay(u, k)'
      <3>1. \A u \in Tasks : mpc[u] = "read" /\ net[u].data # <<>> =>
              net'[u].data # <<>> /\ Head(net'[u].data) = Head(net[u].data)
        BY <1>3, <2>2
      <3> QED BY <1>6, <3>1
    <2>4. n # 0 => FirstUnderWay(t, kind[t])'
      <3> SUFFICES ASSUME n # 0
                   PROVE  FirstUnderWay(t, kind[t])'
        OBVIOUS
      <3>1. net'[t].data # <<>> /\ Head(net'[t].data) = 1
        BY <2>1, <2>2
      <3>2. mpc'[t] \in {"read", "done", "gone"} /\ (mpc'[t] = "done" => t \in open') /\ kind' = kind
        BY <1>3, <1>5
      <3> QED BY <3>1, <3>2 DEF FirstUnderWay
    <2>5. ASSUME NEW u \in Tasks, NEW k \in Kinds, <<u, k>> \in sent', <<u, k>> \notin sent
          PROVE  FirstUnderWay(u, k)'
      <3>1. n # 0 /\ u = t /\ k = kind[t]
        BY <1>2, <1>3, <2>1, <2>5
      <3> QED BY <1>5, <2>4, <3>1
    <2> QED BY <2>3, <2>5 DEF SentInv, SentOwn
  <1> QED BY <1>4, <1>7, <1>8, ServerDataNet

LEMMA SentServer ==
  ASSUME TypeInv, DataInv, SentInv, NEW c \in Clients, ServerStep(c), ~strayed'
  PROVE  SentInv'
PROOF
  <1> USE DEF TypeInv
  <1>1. CASE ServerData(c)
    BY <1>1, SentData
  <1>2. CASE ~ServerData(c)
    <2>1. UNCHANGED <<mpc, kind, buffer, open, stored, sent>>
      BY <1>2, Zenon DEF ServerStep, ctrl_server, ServerAccept, ServerAnswer, ServerRemove, ServerEnd,
         DataAcceptFails, Kill, Vanish, Restart, LogAppears, taskVars, fileVars
    <2>4. lost \subseteq lost'
      <3>1. CASE Vanish(c)
        BY <3>1 DEF Vanish
      <3>2. CASE ~Vanish(c)
        <4>1. lost' = lost
          BY <1>2, <3>2, Zenon DEF ServerStep, ctrl_server, ServerAccept, ServerAnswer, ServerRemove,
             ServerEnd, DataAcceptFails, Kill, Restart, LogAppears, linkVars
        <4> QED BY <4>1
      <3> QED BY <3>1, <3>2
    <2>5. ~DataAcceptFails(c)
      BY DEF DataAcceptFails
    <2>2. /\ \A d \in Clients : d # c => srv'[d] = srv[d]
          /\ srv'[c].dataq # <<>> => srv[c].dataq # <<>> /\ srv'[c].task = srv[c].task
      <3>1. CASE ServerAccept(c) \/ ServerEnd(c)
        <4>1. /\ srv[c].pc # "data" /\ srv'[c].dataq = srv[c].dataq
              /\ \A d \in Clients : d # c => srv'[d] = srv[d]
          BY <3>1, AcceptSrv, EndSrv DEF SrvBecomes
        <4>2. srv[c].dataq = <<>>
          BY <4>1 DEF DataInv, QueuedOwn, WaitsFor
        <4> QED BY <4>1, <4>2
      <3>2. CASE ServerAnswer(c)
        <4>1. PICK t \in Visitors(c) : t = srv[c].task
          BY <3>2, AnswerNet
        <4>2. PICK k \in Kinds : k = Head(net[t].req)
          BY <3>2, <4>1, AnswerNet
        <4>3. \/ srv' = srv
              \/ srv' = [srv EXCEPT ![c] = [srv[c] EXCEPT !.pc = "data", !.log = k]]
          BY <3>2, <4>1, <4>2, AnswerNet
        <4>4. CASE srv' = [srv EXCEPT ![c] = [srv[c] EXCEPT !.pc = "data", !.log = k]]
          <5>1. k \in Nat
            BY SessionAssumption DEF Kinds
          <5>2. SrvBecomes(c, "data", srv[c].ctrlq, srv[c].dataq, srv[c].task, srv[c].peer, k)
            BY <4>4, <5>1, PromiseSrv
          <5> QED BY <5>2 DEF SrvBecomes
        <4> QED BY <4>3, <4>4
      <3>3. CASE ServerRemove(c)
        BY <3>3, RemoveSrv DEF SrvBecomes
      <3>4. CASE Kill(c) \/ Vanish(c) \/ Restart(c)
        BY <3>4, KillSrv, RestartSrv DEF SrvBecomes
      <3>5. CASE \E k \in Kinds : LogAppears(c, k)
        BY <3>5 DEF LogAppears
      <3> QED BY <1>2, <2>5, <3>1, <3>2, <3>3, <3>4, <3>5 DEF ServerStep, ctrl_server
    <2>3. \A u \in Tasks : mpc[u] = "read" /\ net[u].data # <<>> /\ u \notin lost' =>
            net'[u].data # <<>> /\ Head(net'[u].data) = Head(net[u].data)
      <3>1. CASE ServerAnswer(c)
        <4>1. PICK t \in Visitors(c) : t = srv[c].task
          BY <3>1, AnswerNet
        <4>2. \A u \in Tasks : net'[u].data = net[u].data
          <5>1. \E q, r : NetBecomes(t, q, r, net[t].data)
            BY <3>1, <4>1, AnswerNet
          <5> QED BY <5>1 DEF NetBecomes
        <4> QED BY <4>2
      <3>2. CASE ServerRemove(c)
        <4>1. PICK t \in Tasks : t = srv[c].peer
          BY <3>2 DEF ServerRemove, Serving, SrvType, SrvOwn
        <4>2. net' = net \/ net' = Ends(t)
          BY <3>2, <4>1 DEF ServerRemove
        <4> QED BY <4>2, EndNet, EndedType DEF NetBecomes
      <3>3. CASE Kill(c) \/ Vanish(c)
        <4>1. \A u \in Tasks : u \in lost' \/ net'[u].data = EndedData(u) \/ net'[u].data = net[u].data
          BY <3>3, KillNet, VanishNet DEF KeepsStreams
        <4> QED BY <4>1, EndedType
      <3>4. CASE ~ServerAnswer(c) /\ ~ServerRemove(c) /\ ~Kill(c) /\ ~Vanish(c)
        BY <1>2, <2>5, <3>4 DEF ServerStep, ctrl_server, ServerAccept, ServerEnd, Restart, LogAppears
      <3> QED BY <3>1, <3>2, <3>3, <3>4
    <2>6. /\ QueueOpen'
          /\ \A u \in Tasks, k \in Kinds :
               u \in lost \/ FirstStored(u, k) \/ FirstUnderWay(u, k)
                 => u \in lost' \/ FirstStored(u, k)' \/ FirstUnderWay(u, k)'
      BY <2>1, <2>2, <2>3, <2>4, SentServed DEF SentInv
    <2> QED BY <2>1, <2>6 DEF SentInv, SentOwn
  <1> QED BY <1>1, <1>2

LEMMA SentNext ==
  ASSUME TypeInv, AnswerInv, OpenInv, DataInv, SentInv, [Next]_vars, ~strayed'
  PROVE  crashed' \/ SentInv'
PROOF
  <1>1. CASE Next
    <2>1. ASSUME OtherStep
          PROVE  SentInv'
      <3>1. ASSUME NEW t \in Tasks, RecvOther(t)
            PROVE  SentInv'
        BY <3>1, SentElsewhere DEF RecvOther, At, linkVars
      <3>2. CASE \A t \in Tasks : ~RecvOther(t)
        <4>1. UNCHANGED <<mpc, kind, buffer, open, stored, sent, net, srv, lost>>
          BY <2>1, <3>2 DEF OtherStep, OtherOpens, OtherCloses, Reset, taskVars, fileVars, clientVars, linkVars
        <4> QED BY <4>1, SentSame
      <3> QED BY <3>1, <3>2
    <2> QED BY <1>1, <2>1, SentTask, SentServer, Steps
  <1>2. CASE UNCHANGED vars
    <2>1. UNCHANGED <<mpc, kind, buffer, open, stored, sent, net, srv, lost>>
      BY <1>2 DEF vars, taskVars, fileVars, clientVars, linkVars
    <2> QED BY <2>1, SentSame
  <1> QED BY <1>1, <1>2

LEMMA SentHolds == ASSUME SentInv PROVE SentIsStored
PROOF
  <1>1. ASSUME NEW t \in Tasks, NEW k \in Kinds, <<t, k>> \in sent
        PROVE  t \in lost \/ FirstStored(t, k) \/ FirstUnderWay(t, k)
    BY <1>1 DEF SentInv, SentOwn
  <1> QED BY <1>1, Zenon DEF SentIsStored, FirstStored, FirstUnderWay

-----------------------------------------------------------------------------
(***************************************************************************)
(* The inductive invariant of a collection, and what follows from it.  A   *)
(* run that has dereferenced NULL goes no further.                         *)
(***************************************************************************)
Sessions == strayed \/ (DataInv /\ (crashed \/ SentInv))

SessionInv == TypeInv /\ AnswerInv /\ OpenInv /\ Sessions

LEMMA SessionsNext ==
  ASSUME TypeInv, AnswerInv, OpenInv, Sessions, [Next]_vars
  PROVE  Sessions'
PROOF
  <1>1. CASE Next
    <2>1. ~crashed
      BY <1>1, Steps DEF Runs
    <2>2. CASE strayed'
      BY <2>2 DEF Sessions
    <2>3. CASE ~strayed'
      <3>1. ~strayed
        BY <1>1, <2>3, LinksKept
      <3>2. DataInv /\ SentInv
        BY <2>1, <3>1 DEF Sessions
      <3> QED BY <2>3, <3>2, DataNext, SentNext DEF Sessions
    <2> QED BY <2>2, <2>3
  <1>2. CASE UNCHANGED vars
    <2>1. /\ UNCHANGED <<mpc, kind, buffer, open, stored, sent, net, srv, dead, lost>>
          /\ crashed' = crashed /\ strayed' = strayed
      BY <1>2 DEF vars, taskVars, fileVars, clientVars, linkVars
    <2>2. CutStays
      BY <2>1 DEF CutStays
    <2> QED BY <2>1, <2>2, DataSame, SentSame DEF Sessions
  <1> QED BY <1>1, <1>2

LEMMA SessionInvariant == Spec => []SessionInv
PROOF
  <1>1. Init => SessionInv
    BY TypeInit, AnswerInit, OpenInit, DataInit, SentInit DEF SessionInv, Sessions
  <1>2. SessionInv /\ [Next]_vars => SessionInv'
    BY TypeNext, AnswerNext, OpenNext, SessionsNext DEF SessionInv
  <1> QED BY <1>1, <1>2, PTL DEF Spec

(***************************************************************************)
(* Types: variable i of ctrl_data_pthread stays in 0..N, and stays below N *)
(* wherever it names a log; no task has more than one request and one      *)
(* answer in flight.                                                       *)
(***************************************************************************)
THEOREM TypeCorrect == Spec => []TypeOK
PROOF
  <1>1. SessionInv => TypeOK
    BY TypeHolds DEF SessionInv
  <1> QED BY <1>1, SessionInvariant, PTL

(***************************************************************************)
(* However many tasks collect from a client at once, and whoever ends,     *)
(* vanishes or is started again, the answer that ctrl_data_pthread reads   *)
(* is the one to the request it sent last (200 + i or 400 + i for its i),  *)
(* as long as no task has read from the connection of another.             *)
(***************************************************************************)
THEOREM AnswersInStep == Spec => []AnswerFitsRequest
PROOF
  <1>1. SessionInv => AnswerFitsRequest
    BY AnswersHold DEF SessionInv
  <1> QED BY <1>1, SessionInvariant, PTL

(***************************************************************************)
(* The data connection a server accepts is that of the task whose request  *)
(* it answered, and the log it then sends the one that task waits for,     *)
(* though the connection itself does not say so, unless accept failed on   *)
(* the data port or a task connected to a client started again since.      *)
(***************************************************************************)
THEOREM DataToItsSession == Spec => []DataGoesToItsSession
PROOF
  <1>1. SessionInv => DataGoesToItsSession
    BY DataHolds DEF SessionInv, Sessions, DataGoesToItsSession
  <1> QED BY <1>1, SessionInvariant, PTL

(***************************************************************************)
(* A log that send_file took from the client is on its way to be stored or *)
(* is stored, in its first buffer, unless the task ended in one of the     *)
(* ways SentIsStored names.                                                *)
(***************************************************************************)
THEOREM SentNotLost == Spec => []SentIsStored
PROOF
  <1>1. SessionInv => SentIsStored
    <2>1. strayed \/ crashed => SentIsStored
      BY Zenon DEF SentIsStored
    <2> QED BY <2>1, SentHolds DEF SessionInv, Sessions
  <1> QED BY <1>1, SessionInvariant, PTL

-----------------------------------------------------------------------------
(***************************************************************************)
(* Collection.  A log is stored once, when the task is about to go on with *)
(* the next.  For this neither the clients nor the connections matter.     *)
(***************************************************************************)
IsStored(t, k) == \E s \in stored : s[2] = t /\ s[3] = k

StoredPast ==
  \A t \in Tasks, k \in Kinds : IsStored(t, k) =>
    k <= kind[t] /\ (k = kind[t] => mpc[t] \in {"again", "gone"})

StoredNow == \A t \in Tasks : mpc[t] = "again" => IsStored(t, kind[t])

OrderNow == StoredPast /\ StoredNow

OrderInv == foreign \/ crashed \/ OrderNow

LEMMA OrderNowInit == ASSUME Init PROVE OrderNow
PROOF
  <1>1. stored = {} /\ \A t \in Tasks : mpc[t] = "connect"
    BY DEF Init
  <1> QED BY <1>1 DEF OrderNow, StoredPast, StoredNow, IsStored

LEMMA StoredKept ==
  ASSUME TypeInv, OrderNow, NEW t \in Tasks, NEW label, label # "again",
         mpc' = [mpc EXCEPT ![t] = label], \A u \in Tasks : u # t => kind'[u] = kind[u], stored' = stored,
         \/ kind'[t] = kind[t] /\ mpc[t] \notin {"again", "gone"}
         \/ kind'[t] = kind[t] + 1
  PROVE  OrderNow'
PROOF
  <1> USE DEF TypeInv, TaskType, OrderNow
  <1>1. \A u, k : IsStored(u, k)' <=> IsStored(u, k)
    BY DEF IsStored
  <1>2. \A u \in Tasks : mpc'[u] = IF u = t THEN label ELSE mpc[u]
    OBVIOUS
  <1>3. StoredNow'
    BY <1>1, <1>2 DEF StoredNow
  <1>4. ASSUME NEW u \in Tasks, NEW k \in Kinds, IsStored(u, k)
        PROVE  k <= kind'[u] /\ (k = kind'[u] => mpc'[u] \in {"again", "gone"})
    <2>1. k \in Int /\ kind[u] \in Int /\ k <= kind[u] /\ (k = kind[u] => mpc[u] \in {"again", "gone"})
      BY <1>4, SessionAssumption DEF StoredPast, Kinds
    <2> QED BY <1>2, <2>1
  <1> QED BY <1>1, <1>3, <1>4 DEF StoredPast

-----------------------------------------------------------------------------
(***************************************************************************)
(* The status of a log, and the steps of Collection it stands for.         *)
(***************************************************************************)
Promising == {"data", "read", "ip", "name", "store"}

StatusTable == \A t, k :
  /\ k = kind[t] /\ mpc[t] = "recv" => Status(t, k) = "asked"
  /\ k = kind[t] /\ mpc[t] \in Promising => Status(t, k) = "promised"
  /\ ~(k = kind[t] /\ mpc[t] \in Promising \cup {"recv"}) =>
       /\ IsStored(t, k) => Status(t, k) = "stored"
       /\ ~IsStored(t, k) /\ (mpc[t] \in {"done", "gone"} \/ k < kind[t]) => Status(t, k) = "over"
       /\ ~IsStored(t, k) /\ ~(mpc[t] \in {"done", "gone"} \/ k < kind[t]) => Status(t, k) = "todo"

LEMMA StatusIs == StatusTable
PROOF
  <1> SUFFICES ASSUME NEW t, NEW k
               PROVE  /\ k = kind[t] /\ mpc[t] = "recv" => Status(t, k) = "asked"
                      /\ k = kind[t] /\ mpc[t] \in Promising => Status(t, k) = "promised"
                      /\ ~(k = kind[t] /\ mpc[t] \in Promising \cup {"recv"}) =>
                           /\ IsStored(t, k) => Status(t, k) = "stored"
                           /\ ~IsStored(t, k) /\ (mpc[t] \in {"done", "gone"} \/ k < kind[t])
                                => Status(t, k) = "over"
                           /\ ~IsStored(t, k) /\ ~(mpc[t] \in {"done", "gone"} \/ k < kind[t])
                                => Status(t, k) = "todo"
    BY DEF StatusTable
  <1> DEFINE asked == k = kind[t] /\ mpc[t] = "recv"
             promised == k = kind[t] /\ mpc[t] \in {"data", "read", "ip", "name", "store"}
             rest == IF IsStored(t, k) THEN "stored"
                     ELSE IF mpc[t] \in {"done", "gone"} \/ k < kind[t] THEN "over" ELSE "todo"
  <1>1. Status(t, k) = CASE asked -> "asked" [] promised -> "promised" [] OTHER -> rest
    BY Zenon DEF Status, IsStored
  <1>2. ~(asked /\ promised)
    BY Zenon
  <1>3. /\ asked => Status(t, k) = "asked"
        /\ promised => Status(t, k) = "promised"
        /\ ~asked /\ ~promised => Status(t, k) = rest
    BY <1>1, <1>2
  <1> QED BY <1>3 DEF Promising

LEMMA StatusBecomes == StatusTable'
BY StatusIs, PTL

Statuses == [t \in Tasks |-> [k \in Kinds |-> Status(t, k)]]

Void == foreign \/ crashed

orderVars == <<Statuses, Void>>

LEMMA StatusElsewhere ==
  ASSUME NEW u \in Tasks, NEW k \in Kinds, mpc'[u] = mpc[u], kind'[u] = kind[u],
         IsStored(u, k)' <=> IsStored(u, k)
  PROVE  Status(u, k)' = Status(u, k)
PROOF
  <1>1. CASE k = kind[u] /\ mpc[u] = "recv"
    BY <1>1, StatusIs, StatusBecomes, Zenon DEF StatusTable
  <1>2. CASE k = kind[u] /\ mpc[u] \in Promising
    BY <1>2, StatusIs, StatusBecomes, Zenon DEF StatusTable
  <1>3. CASE ~(k = kind[u] /\ mpc[u] \in Promising \cup {"recv"})
    <2>1. ~(k = kind'[u] /\ mpc'[u] \in Promising \cup {"recv"})
      BY <1>3
    <2>2. CASE IsStored(u, k)
      BY <1>3, <2>1, <2>2, StatusIs, StatusBecomes, Zenon DEF StatusTable
    <2>3. CASE ~IsStored(u, k) /\ (mpc[u] \in {"done", "gone"} \/ k < kind[u])
      <3>1. mpc'[u] \in {"done", "gone"} \/ k < kind'[u]
        BY <2>3
      <3> QED BY <1>3, <2>1, <2>3, <3>1, StatusIs, StatusBecomes, Zenon DEF StatusTable
    <2>4. CASE ~IsStored(u, k) /\ ~(mpc[u] \in {"done", "gone"} \/ k < kind[u])
      <3>1. ~(mpc'[u] \in {"done", "gone"} \/ k < kind'[u])
        BY <2>4
      <3> QED BY <1>3, <2>1, <2>4, <3>1, StatusIs, StatusBecomes, Zenon DEF StatusTable
    <2> QED BY <2>2, <2>3, <2>4
  <1> QED BY <1>1, <1>2, <1>3

LEMMA OrderStutter ==
  ASSUME \A u \in Tasks, k \in Kinds : Status(u, k)' = Status(u, k), UNCHANGED <<foreign, crashed>>
  PROVE  UNCHANGED orderVars
BY DEF orderVars, Statuses, Void

LEMMA OrderStop ==
  ASSUME NEW T \in SUBSET Tasks, UNCHANGED <<stored, foreign, crashed>>,
         \A u \in Tasks, k \in Kinds :
           Status(u, k)' = IF u \in T /\ Status(u, k) # "stored" THEN "over" ELSE Status(u, k)
  PROVE  Ordered!Next
PROOF
  <1>1. Statuses' = [u \in Tasks |-> [k \in Kinds |->
                       IF u \in T /\ Statuses[u][k] # "stored" THEN "over" ELSE Statuses[u][k]]]
    BY DEF Statuses
  <1>2. Void' = Void
    BY DEF Void
  <1>3. Ordered!Stop(T)
    BY <1>1, <1>2 DEF Ordered!Stop, Statuses, Void
  <1> QED BY <1>3 DEF Ordered!Next

(***************************************************************************)
(* One log of one task gets a new status.                                  *)
(***************************************************************************)
LEMMA StatusesBecome ==
  ASSUME NEW t \in Tasks, NEW k \in Kinds, NEW v, Status(t, k)' = v,
         \A u \in Tasks, j \in Kinds : u # t \/ j # k => Status(u, j)' = Status(u, j)
  PROVE  Statuses' = [Statuses EXCEPT ![t][k] = v]
BY DEF Statuses

LEMMA OrderLog ==
  ASSUME NEW t \in Tasks, NEW k \in Kinds, NEW v, Status(t, k)' = v,
         \A u \in Tasks, j \in Kinds : u # t \/ j # k => Status(u, j)' = Status(u, j),
         UNCHANGED <<foreign, crashed>>,
         \/ /\ v = "asked" /\ Status(t, k) = "todo"
            /\ \A j \in Kinds : j < k => Status(t, j) \in {"stored", "over"}
         \/ v = "promised" /\ Status(t, k) = "asked"
         \/ v = "over" /\ Status(t, k) \in {"asked", "promised"}
         \/ v = "stored" /\ Status(t, k) = "promised"
  PROVE  Ordered!Next
PROOF
  <1>1. Statuses' = [Statuses EXCEPT ![t][k] = v]
    BY StatusesBecome
  <1>2. \A u \in Tasks, j \in Kinds : Statuses[u][j] = Status(u, j)
    BY DEF Statuses
  <1>4. Void' = Void
    BY DEF Void
  <1>5. CASE v = "asked" /\ Status(t, k) = "todo"
             /\ \A j \in Kinds : j < k => Status(t, j) \in {"stored", "over"}
    <2>1. Ordered!Ask(t, k)
      BY <1>1, <1>2, <1>4, <1>5 DEF Ordered!Ask, Statuses, Void
    <2> QED BY <2>1 DEF Ordered!Next
  <1>6. CASE v = "promised" /\ Status(t, k) = "asked"
    <2>1. Ordered!Promise(t, k)
      BY <1>1, <1>2, <1>4, <1>6 DEF Ordered!Promise, Statuses, Void
    <2> QED BY <2>1 DEF Ordered!Next
  <1>7. CASE v = "over" /\ Status(t, k) \in {"asked", "promised"}
    <2>1. Ordered!Skip(t, k)
      BY <1>1, <1>2, <1>4, <1>7 DEF Ordered!Skip, Statuses, Void
    <2> QED BY <2>1 DEF Ordered!Next
  <1>8. CASE v = "stored" /\ Status(t, k) = "promised"
    <2>1. Ordered!Store(t, k)
      BY <1>1, <1>2, <1>4, <1>8 DEF Ordered!Store, Statuses, Void
    <2> QED BY <2>1 DEF Ordered!Next
  <1> QED BY <1>5, <1>6, <1>7, <1>8

-----------------------------------------------------------------------------
(***************************************************************************)
(* The steps of a task that changes no file, as steps of Collection.       *)
(***************************************************************************)
Moves(t, label) ==
  /\ mpc' = [mpc EXCEPT ![t] = label] /\ UNCHANGED <<stored, foreign, crashed>>
  /\ \A u \in Tasks : u # t => kind'[u] = kind[u]

LEMMA MovesFacts ==
  ASSUME TypeInv, NEW t \in Tasks, NEW label, Moves(t, label)
  PROVE  /\ mpc'[t] = label /\ \A u, k : IsStored(u, k)' <=> IsStored(u, k)
         /\ \A u \in Tasks, k \in Kinds : u # t => Status(u, k)' = Status(u, k)
         /\ \A k \in Kinds : k \in Int /\ kind[t] \in Int
PROOF
  <1>1. mpc'[t] = label /\ \A u \in Tasks : u # t => mpc'[u] = mpc[u] /\ kind'[u] = kind[u]
    BY DEF TypeInv, TaskType, Moves
  <1>2. \A u, k : IsStored(u, k)' <=> IsStored(u, k)
    BY DEF Moves, IsStored
  <1>3. \A k \in Kinds : k \in Int /\ kind[t] \in Int
    BY SessionAssumption DEF Kinds, TypeInv, TaskType
  <1> QED BY <1>1, <1>2, <1>3, StatusElsewhere

LEMMA MovesStutter ==
  ASSUME TypeInv, NEW t \in Tasks, NEW label, Moves(t, label),
         \/ kind'[t] = kind[t] /\ mpc[t] = "connect" /\ label = "send"
         \/ kind'[t] = kind[t] /\ mpc[t] \in Promising /\ label \in Promising
         \/ kind'[t] = kind[t] /\ mpc[t] = "send" /\ label = "done" /\ kind[t] \notin Kinds
         \/ kind'[t] = kind[t] + 1 /\ mpc[t] = "again" /\ label = "send" /\ IsStored(t, kind[t])
  PROVE  UNCHANGED orderVars
PROOF
  <1>1. /\ mpc'[t] = label /\ \A u, k : IsStored(u, k)' <=> IsStored(u, k)
        /\ \A u \in Tasks, k \in Kinds : u # t => Status(u, k)' = Status(u, k)
        /\ \A k \in Kinds : k \in Int /\ kind[t] \in Int
    BY MovesFacts
  <1>2. ASSUME NEW k \in Kinds
        PROVE  Status(t, k)' = Status(t, k)
    <2>1. CASE kind'[t] = kind[t] /\ mpc[t] = "connect" /\ label = "send"
      BY <1>1, <2>1, StatusIs, StatusBecomes DEF StatusTable, Promising
    <2>2. CASE kind'[t] = kind[t] /\ mpc[t] \in Promising /\ label \in Promising
      BY <1>1, <2>2, StatusIs, StatusBecomes DEF StatusTable, Promising
    <2>3. CASE kind'[t] = kind[t] /\ mpc[t] = "send" /\ label = "done" /\ kind[t] \notin Kinds
      <3>1. k < kind[t]
        BY <2>3, SessionAssumption DEF Kinds, TypeInv, TaskType
      <3> QED BY <1>1, <2>3, <3>1, StatusIs, StatusBecomes DEF StatusTable, Promising
    <2>4. CASE kind'[t] = kind[t] + 1 /\ mpc[t] = "again" /\ label = "send" /\ IsStored(t, kind[t])
      <3>1. k < kind'[t] <=> k < kind[t] \/ k = kind[t]
        BY <1>1, <2>4
      <3>2. k = kind[t] => IsStored(t, k)
        BY <2>4
      <3> QED BY <1>1, <2>4, <3>1, <3>2, StatusIs, StatusBecomes DEF StatusTable, Promising
    <2> QED BY <2>1, <2>2, <2>3, <2>4
  <1> QED BY <1>1, <1>2, OrderStutter DEF Moves

LEMMA MovesStop ==                                 (* the task returns *)
  ASSUME TypeInv, OrderNow, NEW t \in Tasks, Moves(t, "done"), kind'[t] = kind[t],
         mpc[t] \in {"connect", "send", "data"}
  PROVE  Ordered!Next
PROOF
  <1>1. /\ mpc'[t] = "done" /\ \A u, k : IsStored(u, k)' <=> IsStored(u, k)
        /\ \A u \in Tasks, k \in Kinds : u # t => Status(u, k)' = Status(u, k)
    BY MovesFacts
  <1>2. ASSUME NEW k \in Kinds
        PROVE  Status(t, k)' = IF Status(t, k) # "stored" THEN "over" ELSE Status(t, k)
    <2>1. k = kind[t] => ~IsStored(t, k)
      BY DEF OrderNow, StoredPast
    <2> QED BY <1>1, <2>1, StatusIs, StatusBecomes DEF StatusTable, Promising
  <1>3. {t} \in SUBSET Tasks /\ UNCHANGED <<stored, foreign, crashed>>
    BY DEF Moves
  <1>4. \A u \in Tasks, k \in Kinds :
          Status(u, k)' = IF u \in {t} /\ Status(u, k) # "stored" THEN "over" ELSE Status(u, k)
    BY <1>1, <1>2
  <1> QED BY <1>3, <1>4, OrderStop

LEMMA MovesLog ==
  ASSUME TypeInv, OrderNow, NEW t \in Tasks, NEW label, Moves(t, label), kind[t] \in Kinds,
         \/ kind'[t] = kind[t] /\ mpc[t] = "send" /\ label = "recv"
         \/ kind'[t] = kind[t] /\ mpc[t] = "recv" /\ label = "data"
         \/ kind'[t] = kind[t] + 1 /\ mpc[t] \in {"recv", "read"} /\ label = "send"
  PROVE  Ordered!Next
PROOF
  <1>0. PICK k \in Kinds : k = kind[t]
    OBVIOUS
  <1>1. /\ mpc'[t] = label /\ \A u, j : IsStored(u, j)' <=> IsStored(u, j)
        /\ \A u \in Tasks, j \in Kinds : u # t => Status(u, j)' = Status(u, j)
        /\ \A j \in Kinds : j \in Int
    BY MovesFacts
  <1>2. k \in Kinds /\ k \in Int /\ ~IsStored(t, k)
    BY <1>0, <1>1 DEF OrderNow, StoredPast
  <1>3. \A j \in Kinds : j > k => ~IsStored(t, j)
    BY <1>0, <1>1, <1>2 DEF OrderNow, StoredPast
  <1>4. ASSUME NEW j \in Kinds, j # k
        PROVE  Status(t, j)' = Status(t, j)
    <2>1. CASE kind'[t] = kind[t]
      BY <1>0, <1>1, <1>4, <2>1, StatusIs, StatusBecomes DEF StatusTable, Promising
    <2>2. CASE kind'[t] = kind[t] + 1 /\ mpc[t] \in {"recv", "read"} /\ label = "send"
      <3>1. j < kind'[t] <=> j < kind[t]
        BY <1>0, <1>1, <1>2, <1>4, <2>2
      <3> QED BY <1>0, <1>1, <1>4, <2>2, <3>1, StatusIs, StatusBecomes DEF StatusTable, Promising
    <2> QED BY <2>1, <2>2
  <1>5. \A u \in Tasks, j \in Kinds : u # t \/ j # k => Status(u, j)' = Status(u, j)
    BY <1>1, <1>4
  <1>6. UNCHANGED <<stored, foreign, crashed>>
    BY DEF Moves
  <1>7. CASE kind'[t] = kind[t] /\ mpc[t] = "send" /\ label = "recv"
    <2>1. Status(t, k)' = "asked" /\ Status(t, k) = "todo"
      BY <1>0, <1>1, <1>2, <1>7, StatusIs, StatusBecomes DEF StatusTable, Promising
    <2>2. \A j \in Kinds : j < k => Status(t, j) \in {"stored", "over"}
      BY <1>0, <1>2, <1>7, StatusIs DEF StatusTable, Promising
    <2> QED BY <1>2, <1>5, <1>6, <2>1, <2>2, OrderLog
  <1>8. CASE kind'[t] = kind[t] /\ mpc[t] = "recv" /\ label = "data"
    <2>1. Status(t, k)' = "promised" /\ Status(t, k) = "asked"
      BY <1>0, <1>1, <1>2, <1>8, StatusIs, StatusBecomes DEF StatusTable, Promising
    <2> QED BY <1>2, <1>5, <1>6, <2>1, OrderLog
  <1>9. CASE kind'[t] = kind[t] + 1 /\ mpc[t] \in {"recv", "read"} /\ label = "send"
    <2>1. Status(t, k)' = "over"
      BY <1>0, <1>1, <1>2, <1>9, StatusBecomes DEF StatusTable, Promising
    <2>2. Status(t, k) \in {"asked", "promised"}
      BY <1>0, <1>9, StatusIs DEF StatusTable, Promising
    <2> QED BY <1>2, <1>5, <1>6, <2>1, <2>2, OrderLog
  <1> QED BY <1>7, <1>8, <1>9

-----------------------------------------------------------------------------
(***************************************************************************)
(* The steps of ctrl_data_pthread.                                         *)
(***************************************************************************)
Implemented == OrderNow' /\ (Ordered!Next \/ UNCHANGED orderVars)

LEMMA OrderMoves ==                                (* a step that changes the place only *)
  ASSUME TypeInv, OrderNow, NEW t \in Tasks,
         UNCHANGED <<kind, stored, foreign, crashed>>,
         \/ mpc[t] = "connect" /\ mpc' = [mpc EXCEPT ![t] = "send"]
         \/ mpc[t] = "send" /\ mpc' = [mpc EXCEPT ![t] = "recv"] /\ kind[t] \in Kinds
         \/ mpc[t] = "recv" /\ mpc' = [mpc EXCEPT ![t] = "data"]
         \/ mpc[t] = "data" /\ mpc' = [mpc EXCEPT ![t] = "read"]
         \/ mpc[t] = "read" /\ mpc' = [mpc EXCEPT ![t] = "ip"]
         \/ mpc[t] = "ip" /\ mpc' = [mpc EXCEPT ![t] = "name"]
         \/ mpc[t] = "name" /\ mpc' = [mpc EXCEPT ![t] = "store"]
         \/ mpc[t] \in {"connect", "send", "data"} /\ mpc' = [mpc EXCEPT ![t] = "done"]
  PROVE  Implemented
PROOF
  <1>1. ASSUME NEW label, label # "again", mpc[t] \notin {"again", "gone"}, mpc' = [mpc EXCEPT ![t] = label]
        PROVE  OrderNow' /\ Moves(t, label) /\ kind'[t] = kind[t]
    <2>1. OrderNow'
      BY <1>1, StoredKept
    <2> QED BY <1>1, <2>1 DEF Moves
  <1>2. CASE mpc[t] = "connect" /\ mpc' = [mpc EXCEPT ![t] = "send"]
    BY <1>1, <1>2, MovesStutter DEF Implemented
  <1>3. CASE mpc[t] = "send" /\ mpc' = [mpc EXCEPT ![t] = "recv"] /\ kind[t] \in Kinds
    BY <1>1, <1>3, MovesLog DEF Implemented
  <1>4. CASE mpc[t] = "recv" /\ mpc' = [mpc EXCEPT ![t] = "data"]
    <2>1. kind[t] \in Kinds
      BY <1>4 DEF TypeInv, TaskType, Idle
    <2> QED BY <1>1, <1>4, <2>1, MovesLog DEF Implemented
  <1>5. ASSUME NEW label \in Promising, mpc[t] \in Promising, mpc' = [mpc EXCEPT ![t] = label]
        PROVE  Implemented
    <2>1. label # "again" /\ mpc[t] \notin {"again", "gone"}
      BY <1>5 DEF Promising
    <2> QED BY <1>1, <1>5, <2>1, MovesStutter DEF Implemented
  <1>6. CASE \/ mpc[t] = "data" /\ mpc' = [mpc EXCEPT ![t] = "read"]
             \/ mpc[t] = "read" /\ mpc' = [mpc EXCEPT ![t] = "ip"]
             \/ mpc[t] = "ip" /\ mpc' = [mpc EXCEPT ![t] = "name"]
             \/ mpc[t] = "name" /\ mpc' = [mpc EXCEPT ![t] = "store"]
    BY <1>5, <1>6 DEF Promising
  <1>7. CASE mpc[t] \in {"connect", "send", "data"} /\ mpc' = [mpc EXCEPT ![t] = "done"]
    BY <1>1, <1>7, MovesStop DEF Implemented
  <1> QED BY <1>2, <1>3, <1>4, <1>6, <1>7

(***************************************************************************)
(* The task goes on with the next log: refused, empty, or stored.          *)
(***************************************************************************)
LEMMA OrderNextKind ==
  ASSUME TypeInv, OrderNow, NEW t \in Tasks, mpc[t] \in {"recv", "read", "again"}, NextKind(t),
         UNCHANGED <<stored, foreign, crashed>>
  PROVE  Implemented
PROOF
  <1>1. /\ mpc' = [mpc EXCEPT ![t] = "send"] /\ kind'[t] = kind[t] + 1
        /\ \A u \in Tasks : u # t => kind'[u] = kind[u]
    BY DEF NextKind, Goto, TypeInv, TaskType
  <1>2. Moves(t, "send")
    BY <1>1 DEF Moves
  <1>3. OrderNow'
    BY <1>1, StoredKept
  <1>4. CASE mpc[t] \in {"recv", "read"}
    <2>1. kind[t] \in Kinds
      BY <1>4 DEF TypeInv, TaskType, Idle
    <2> QED BY <1>1, <1>2, <1>3, <1>4, <2>1, MovesLog DEF Implemented
  <1>5. CASE mpc[t] = "again"
    <2>1. IsStored(t, kind[t])
      BY <1>5 DEF OrderNow, StoredNow
    <2> QED BY <1>1, <1>2, <1>3, <1>5, <2>1, MovesStutter DEF Implemented
  <1> QED BY <1>4, <1>5

LEMMA OrderElsewhere ==
  ASSUME TypeInv, OrderNow, NEW t \in Tasks, mpc[t] = "again", LeavesLoop(t) \/ Steals, ~foreign',
         UNCHANGED <<stored, crashed>>
  PROVE  Implemented
PROOF
  <1>1. NextKind(t) /\ foreign' = foreign
    BY Zenon DEF LeavesLoop, Steals
  <1> QED BY <1>1, OrderNextKind

(***************************************************************************)
(* SIGPIPE: every task that has connected ends.                            *)
(***************************************************************************)
LEMMA OrderDie ==
  ASSUME TypeInv, OrderNow, NEW t \in Tasks, Die(t)
  PROVE  Implemented
PROOF
  <1> DEFINE T == {s \in Tasks : mpc[s] # "connect"}
  <1>1. /\ mpc' = [s \in Tasks |-> IF mpc[s] = "connect" THEN "connect" ELSE "gone"]
        /\ UNCHANGED <<kind, stored, crashed, foreign>>
    BY Zenon DEF Die
  <1>2. \A u \in Tasks : mpc'[u] = IF u \in T THEN "gone" ELSE mpc[u]
    BY <1>1
  <1>3. \A u, k : IsStored(u, k)' <=> IsStored(u, k)
    BY <1>1 DEF IsStored
  <1>4. \A u \in Tasks : mpc'[u] \in {"connect", "gone"} /\ (mpc'[u] = mpc[u] \/ mpc'[u] = "gone")
    BY <1>1
  <1>7. StoredNow'
    BY <1>4 DEF StoredNow
  <1>8. OrderNow'
    BY <1>1, <1>3, <1>4, <1>7 DEF OrderNow, StoredPast
  <1>10. ASSUME NEW u \in Tasks, NEW k \in Kinds
         PROVE  Status(u, k)' = IF u \in T /\ Status(u, k) # "stored" THEN "over" ELSE Status(u, k)
    <2>1. CASE u \notin T
      BY <1>1, <1>2, <1>3, <2>1, StatusElsewhere
    <2>2. CASE u \in T
      <3>1. mpc'[u] = "gone"
        BY <1>2, <2>2
      <3>2. k = kind[u] /\ IsStored(u, k) => mpc[u] \in {"again", "gone"}
        BY DEF OrderNow, StoredPast
      <3> HIDE DEF T
      <3>3. CASE IsStored(u, k)
        <4>1. Status(u, k)' = "stored" /\ Status(u, k) = "stored"
          BY <1>3, <3>1, <3>2, <3>3, StatusIs, StatusBecomes DEF StatusTable, Promising
        <4> QED BY <4>1
      <3>4. CASE ~IsStored(u, k)
        <4>1. Status(u, k)' = "over" /\ Status(u, k) # "stored"
          BY <1>3, <3>1, <3>4, StatusIs, StatusBecomes DEF StatusTable, Promising
        <4> QED BY <2>2, <4>1
      <3> QED BY <3>3, <3>4
    <2> QED BY <2>1, <2>2
  <1>11. T \in SUBSET Tasks
    OBVIOUS
  <1> HIDE DEF T
  <1>12. Ordered!Next
    BY <1>1, <1>10, <1>11, OrderStop
  <1> QED BY <1>8, <1>12 DEF Implemented

LEMMA OrderStore ==
  ASSUME TypeInv, OrderNow, ~crashed, NEW t \in Tasks, Store(t), ~crashed'
  PROVE  Implemented
PROOF
  <1>0. PICK k \in Kinds : k = kind[t]
    BY Zenon DEF TypeInv, TaskType, Idle, Store, At
  <1>1. /\ mpc[t] = "store" /\ mpc' = [mpc EXCEPT ![t] = "again"]
        /\ crashed' = (Dir = NULL \/ Directory(Dir) \notin dirs)
        /\ stored' = IF crashed' THEN stored ELSE stored \cup {<<Dir, t, kind[t], buffer[t]>>}
        /\ net' = [net EXCEPT ![t].data = <<>>] /\ UNCHANGED <<kind, dirs, srv>> /\ foreign' = foreign
    BY Zenon DEF Store, At, Goto, clientVars
  <1>2. PICK e : e = <<Dir, t, k, buffer[t]>>
    OBVIOUS
  <1>3. e[1] = Dir /\ e[2] = t /\ e[3] = k
    BY <1>2, Zenon
  <1>4. ~crashed' => stored' = stored \cup {e}
    BY <1>0, <1>1, <1>2
  <1>5. /\ mpc'[t] = "again" /\ \A u \in Tasks : u # t => mpc'[u] = mpc[u]
        /\ \A u \in Tasks : net'[u].rep = net[u].rep
    BY <1>1, NoData DEF TypeInv, TaskType, NetBecomes
  <1>6. ASSUME ~crashed'
        PROVE  OrderNow' /\ Ordered!Next
    <2>1. \A u, j : IsStored(u, j)' <=> IsStored(u, j) \/ (u = t /\ j = k)
      BY <1>3, <1>4, <1>6 DEF IsStored
    <2>2. StoredNow'
      BY <1>0, <1>1, <1>5, <2>1 DEF OrderNow, StoredNow
    <2>3. ASSUME NEW u \in Tasks, NEW j \in Kinds, IsStored(u, j)'
          PROVE  j <= kind'[u] /\ (j = kind'[u] => mpc'[u] \in {"again", "gone"})
      <3>1. CASE u = t /\ j = k
        BY <1>0, <1>1, <1>5, <3>1, SessionAssumption DEF Kinds
      <3>2. CASE IsStored(u, j)
        <4>1. u # t \/ j # k
          BY <1>0, <1>1, <3>2 DEF OrderNow, StoredPast
        <4> QED BY <1>0, <1>1, <1>5, <3>2, <4>1 DEF OrderNow, StoredPast
      <3> QED BY <2>1, <2>3, <3>1, <3>2
    <2>4. OrderNow'
      BY <2>2, <2>3 DEF OrderNow, StoredPast
    <2>5. Status(t, k)' = "stored" /\ Status(t, k) = "promised"
      BY <1>0, <1>1, <1>5, <2>1, StatusIs, StatusBecomes DEF StatusTable, Promising
    <2>6. ASSUME NEW u \in Tasks, NEW j \in Kinds, u # t \/ j # k
          PROVE  Status(u, j)' = Status(u, j)
      <3>1. CASE u # t
        BY <1>1, <1>5, <2>1, <3>1, StatusElsewhere
      <3>2. CASE u = t /\ j # k
        BY <1>0, <1>1, <1>5, <2>1, <3>2, StatusIs, StatusBecomes DEF StatusTable, Promising
      <3> QED BY <2>6, <3>1, <3>2
    <2>8. UNCHANGED <<foreign, crashed>>
      <3>1. crashed \in BOOLEAN /\ crashed' \in BOOLEAN
        BY Zenon DEF TypeInv, OtherType, Store
      <3>2. crashed' = crashed
        BY <1>6, <3>1, Zenon
      <3> QED BY <1>1, <3>2
    <2>9. Ordered!Next
      BY <2>5, <2>6, <2>8, OrderLog
    <2> QED BY <2>4, <2>9
  <1> QED BY <1>6 DEF Implemented

LEMMA OrderTask ==
  ASSUME TypeInv, OrderNow, ~crashed, NEW t \in Tasks, ctrl_data_pthread(t), ~foreign', ~crashed'
  PROVE  Implemented
PROOF
  <1>0. crashed' = crashed
    <2>1. crashed \in BOOLEAN /\ crashed' \in BOOLEAN
      BY Zenon DEF TypeInv, OtherType, ctrl_data_pthread, Connect, SendRequest, Die, Close, Skip, SetDir,
         DataConnect, EndOfData, ReadBuffer, AppendIp, AppendName, AppendTo, Store, RecvClosed, RecvForeign,
         fileVars
    <2> QED BY <2>1, Zenon
  <1>1. CASE \/ Connect(t) \/ SendRequest(t) \/ Close(t) \/ SetDir(t)
             \/ DataConnect(t) \/ ReadBuffer(t) \/ AppendIp(t) \/ AppendName(t)
    <2>1. UNCHANGED <<kind, stored, foreign>>
      BY <1>1, Zenon DEF Connect, SendRequest, Close, SetDir, DataConnect, ReadBuffer, AppendIp, AppendName,
         fileVars
    <2>2. \/ mpc[t] = "connect" /\ mpc' = [mpc EXCEPT ![t] = "send"]
          \/ mpc[t] = "send" /\ mpc' = [mpc EXCEPT ![t] = "recv"] /\ kind[t] \in Kinds
          \/ mpc[t] = "recv" /\ mpc' = [mpc EXCEPT ![t] = "data"]
          \/ mpc[t] = "data" /\ mpc' = [mpc EXCEPT ![t] = "read"]
          \/ mpc[t] = "read" /\ mpc' = [mpc EXCEPT ![t] = "ip"]
          \/ mpc[t] = "ip" /\ mpc' = [mpc EXCEPT ![t] = "name"]
          \/ mpc[t] = "name" /\ mpc' = [mpc EXCEPT ![t] = "store"]
          \/ mpc[t] \in {"connect", "send", "data"} /\ mpc' = [mpc EXCEPT ![t] = "done"]
      BY <1>1, Zenon DEF Connect, SendRequest, Close, SetDir, DataConnect, ReadBuffer, AppendIp, AppendName,
         Fails, At, Goto
    <2> QED BY <1>0, <2>1, <2>2, OrderMoves
  <1>2. CASE Skip(t) \/ EndOfData(t) \/ RecvClosed(t)
    <2>1. mpc[t] \in {"recv", "read", "again"} /\ NextKind(t) /\ UNCHANGED <<stored, foreign>>
      BY <1>2, Zenon DEF Skip, EndOfData, RecvClosed, At, fileVars
    <2> QED BY <1>0, <2>1, OrderNextKind
  <1>3. CASE Die(t)
    BY <1>3, OrderDie
  <1>4. CASE Store(t)
    BY <1>4, OrderStore
  <1>5. CASE RecvForeign(t)
    <2>1. mpc[t] = "again" /\ (LeavesLoop(t) \/ Steals) /\ stored' = stored
      BY <1>5, Zenon DEF RecvForeign, At
    <2> QED BY <1>0, <2>1, OrderElsewhere
  <1> QED BY <1>1, <1>2, <1>3, <1>4, <1>5 DEF ctrl_data_pthread

(***************************************************************************)
(* Steps which are not in a task's code, and stuttering.                   *)
(***************************************************************************)
LEMMA OrderSame ==
  ASSUME OrderNow, UNCHANGED <<mpc, kind, stored, foreign, crashed>>
  PROVE  Implemented
PROOF
  <1>1. \A u, k : IsStored(u, k)' <=> IsStored(u, k)
    BY DEF IsStored
  <1>2. OrderNow'
    BY <1>1 DEF OrderNow, StoredPast, StoredNow
  <1>3. UNCHANGED orderVars
    BY <1>1, StatusElsewhere, OrderStutter
  <1> QED BY <1>2, <1>3 DEF Implemented

LEMMA OrderServer ==
  ASSUME OrderNow, NEW c \in Clients, ServerStep(c)
  PROVE  Implemented
PROOF
  <1>1. UNCHANGED <<mpc, kind, stored, foreign, crashed>>
    BY Zenon DEF ServerStep, ctrl_server, ServerAccept, ServerAnswer, ServerData, ServerRemove, ServerEnd,
       DataAcceptFails, Kill, Vanish, Restart, LogAppears, taskVars, fileVars
  <1> QED BY <1>1, OrderSame

LEMMA OrderOther ==
  ASSUME TypeInv, OrderNow, OtherStep, ~foreign'
  PROVE  Implemented
PROOF
  <1>1. ASSUME NEW t \in Tasks, RecvOther(t)
        PROVE  Implemented
    <2>1. mpc[t] = "again" /\ (LeavesLoop(t) \/ Steals) /\ UNCHANGED <<stored, crashed>>
      BY <1>1, Zenon DEF RecvOther, At
    <2> QED BY <2>1, OrderElsewhere
  <1>2. CASE \A t \in Tasks : ~RecvOther(t)
    <2>1. UNCHANGED <<mpc, kind, stored, foreign, crashed>>
      BY <1>2 DEF OtherStep, OtherOpens, OtherCloses, Reset, taskVars, fileVars
    <2> QED BY <2>1, OrderSame
  <1> QED BY <1>1, <1>2

LEMMA OrderNext ==
  ASSUME TypeInv, OrderInv, [Next]_vars
  PROVE  OrderInv' /\ [Ordered!Next]_orderVars
PROOF
  <1>1. CASE UNCHANGED vars
    <2>1. UNCHANGED <<mpc, kind, stored, foreign, crashed>>
      BY <1>1 DEF vars, taskVars, fileVars
    <2>2. CASE OrderNow
      BY <2>1, <2>2, OrderSame DEF Implemented, OrderInv
    <2>3. CASE foreign \/ crashed
      <3>1. OrderInv' /\ Void' = TRUE
        BY <2>1, <2>3 DEF OrderInv, Void
      <3>2. Ordered!Next
        BY <3>1 DEF Ordered!Next, Ordered!Void, Void
      <3> QED BY <3>1, <3>2
    <2> QED BY <2>2, <2>3 DEF OrderInv
  <1>2. CASE Next
    <2>1. CASE foreign' \/ crashed'
      <3>1. Ordered!Next
        BY <2>1 DEF Ordered!Next, Ordered!Void
      <3> QED BY <2>1, <3>1, Zenon DEF OrderInv
    <2>2. CASE ~foreign' /\ ~crashed'
      <3>1. OrderNow /\ ~crashed
        BY <1>2, Steps DEF OrderInv, Runs
      <3>2. Implemented
        BY <1>2, <2>2, <3>1, Steps, OrderTask, OrderServer, OrderOther
      <3> QED BY <3>2, Zenon DEF Implemented, OrderInv
    <2> QED BY <2>1, <2>2
  <1> QED BY <1>1, <1>2

LEMMA OrderInit == ASSUME Init PROVE Ordered!Init
PROOF
  <1>1. stored = {} /\ foreign = FALSE /\ crashed = FALSE
    BY DEF Init
  <1>2. ASSUME NEW t \in Tasks, NEW k \in Kinds
        PROVE  Status(t, k) = "todo"
    <2>1. mpc[t] = "connect" /\ kind[t] = 0
      BY DEF Init
    <2>2. ~(k < kind[t])
      BY <2>1, SessionAssumption DEF Kinds
    <2>3. ~IsStored(t, k)
      BY <1>1 DEF IsStored
    <2> QED BY <2>1, <2>2, <2>3, StatusIs DEF StatusTable, Promising
  <1>3. Statuses = [t \in Tasks |-> [k \in Kinds |-> "todo"]]
    BY <1>1, <1>2 DEF Statuses
  <1>4. Void = FALSE
    BY <1>1 DEF Void
  <1> QED BY <1>3, <1>4 DEF Ordered!Init, Statuses, Void

LEMMA OrderInvariant == Spec => []OrderInv
PROOF
  <1>1. Init => OrderInv
    BY OrderNowInit DEF OrderInv
  <1>2. SessionInv => TypeInv
    BY DEF SessionInv
  <1> QED BY <1>1, <1>2, SessionInvariant, OrderNext, PTL DEF Spec

(***************************************************************************)
(* Whatever clients the tasks collect from and whoever ends or vanishes,   *)
(* until a task reads bytes of another one's connection or finds conf.Dir  *)
(* NULL: ctrl_data_pthread asks for the logs in order, and stores each at  *)
(* most once, after its own client's answer 200 + i.                       *)
(***************************************************************************)
THEOREM SessionKeepsOrder == Spec => ImplementsOrdered
PROOF
  <1>1. [Ordered!Next]_orderVars
          <=> [Ordered!Next]_<<[t \in Tasks |-> [k \in Kinds |-> Status(t, k)]], foreign \/ crashed>>
    BY DEF orderVars, Statuses, Void
  <1>2. SessionInv => TypeInv
    BY DEF SessionInv
  <1> QED BY <1>1, <1>2, OrderInit, OrderNext, OrderInvariant, SessionInvariant, PTL
      DEF Spec, ImplementsOrdered, Ordered!Spec

-----------------------------------------------------------------------------
(***************************************************************************)
(* Requests under way.  A task that works with a live connection is in the *)
(* queue of its client's server or served by it; when the server waits for *)
(* a data connection, the task has been promised a log or has opened it.   *)
(***************************************************************************)
Unknown(t) == mpc[t] = "connect" => ~Queued(t) /\ srv[Host[t]].task # t

Cut == dead \cup lost

Lives(t) == mpc[t] \in Working /\ t \notin Cut

Held(t) ==
  Lives(t) => \/ srv[Host[t]].pc # "down" /\ Queued(t)
              \/ srv[Host[t]].pc \in {"recv", "data", "remove"} /\ srv[Host[t]].task = t

Owed(t) ==
  Lives(t) /\ srv[Host[t]].pc = "data" /\ srv[Host[t]].task = t =>
    Promised(t) \/ (mpc[t] = "read" /\ srv[Host[t]].dataq # <<>>)

Heard(t) ==
  mpc[t] = "recv" /\ t \notin Cut =>
    ~Silent(t) \/ (srv[Host[t]].pc = "recv" /\ srv[Host[t]].task = t)

Hold(t) == Unknown(t) /\ Held(t) /\ Owed(t) /\ Heard(t)

HoldAll == \A t \in Tasks : Hold(t)

HoldInv == strayed \/ HoldAll

LEMMA HoldInit == ASSUME Init PROVE HoldAll
PROOF
  <1> SUFFICES ASSUME NEW t \in Tasks PROVE Hold(t)
    BY DEF HoldAll
  <1>1. mpc[t] = "connect" /\ srv[Host[t]] = Fresh
    BY HostClient DEF Init
  <1>2. srv[Host[t]].ctrlq = <<>> /\ srv[Host[t]].task = NoTask
    BY <1>1 DEF Fresh
  <1>3. ~Queued(t) /\ NoTask # t
    BY <1>2, SessionAssumption DEF Queued, NoTask
  <1> QED BY <1>1, <1>2, <1>3 DEF Hold, Unknown, Lives, Working, Held, Owed, Heard

(***************************************************************************)
(* A queue that gets one more, or loses its first.                         *)
(***************************************************************************)
In(s, x) == \E i \in DOMAIN s : s[i] = x

LEMMA QueuedIn == ASSUME NEW t PROVE (Queued(t) <=> In(srv[Host[t]].ctrlq, t))
BY DEF Queued, In

LEMMA InAppended ==
  ASSUME NEW S, NEW s \in Seq(S), NEW x \in S, NEW t
  PROVE  In(Append(s, x), t) <=> In(s, t) \/ t = x
PROOF
  <1> DEFINE r == Append(s, x)
  <1>1. /\ DOMAIN s = 1..Len(s) /\ Len(s) \in Nat /\ DOMAIN r = 1..(Len(s) + 1)
        /\ r[Len(s) + 1] = x /\ \A i \in 1..Len(s) : r[i] = s[i]
    OBVIOUS
  <1> HIDE DEF r
  <1>2. ASSUME NEW i \in DOMAIN r, r[i] = t
        PROVE  In(s, t) \/ t = x
    BY <1>1, <1>2 DEF In
  <1>3. ASSUME NEW i \in DOMAIN s, s[i] = t
        PROVE  In(r, t)
    BY <1>1, <1>3 DEF In
  <1>4. t = x => In(r, t)
    BY <1>1 DEF In
  <1>5. In(r, t) <=> In(s, t) \/ t = x
    BY <1>2, <1>3, <1>4 DEF In
  <1> QED BY <1>5 DEF r

LEMMA InTail ==
  ASSUME NEW S, NEW s \in Seq(S), s # <<>>, NEW t
  PROVE  In(s, t) <=> In(Tail(s), t) \/ t = Head(s)
PROOF
  <1> DEFINE r == Tail(s)
  <1>1. /\ DOMAIN s = 1..Len(s) /\ Len(s) \in Nat \ {0} /\ DOMAIN r = 1..(Len(s) - 1)
        /\ Head(s) = s[1] /\ \A i \in 1..(Len(s) - 1) : r[i] = s[i + 1]
    OBVIOUS
  <1>2. \A i \in 1..Len(s) : i = 1 \/ (i - 1 \in 1..(Len(s) - 1) /\ (i - 1) + 1 = i)
    BY <1>1
  <1> HIDE DEF r
  <1>3. ASSUME NEW i \in DOMAIN s, s[i] = t
        PROVE  In(r, t) \/ t = Head(s)
    BY <1>1, <1>2, <1>3 DEF In
  <1>4. ASSUME NEW i \in DOMAIN r, r[i] = t
        PROVE  In(s, t)
    <2>1. i + 1 \in DOMAIN s /\ s[i + 1] = t
      BY <1>1, <1>4
    <2> QED BY <2>1 DEF In
  <1>5. t = Head(s) => In(s, t)
    BY <1>1 DEF In
  <1>6. In(s, t) <=> In(r, t) \/ t = Head(s)
    BY <1>3, <1>4, <1>5 DEF In
  <1> QED BY <1>6 DEF r

(***************************************************************************)
(* A step of one task: of the servers it can only change who is queued.    *)
(***************************************************************************)
SameSession == \A c \in Clients : srv'[c].pc = srv[c].pc /\ srv'[c].task = srv[c].task

LEMMA SamePlace == ASSUME srv' = srv PROVE SameSession
BY DEF SameSession

LEMMA ConnectsSession ==
  ASSUME SrvType, NEW t \in Tasks, Connects(t, "ctrlq") \/ Connects(t, "dataq")
  PROVE  SameSession
PROOF
  <1>1. PICK c \in Clients : c = Host[t]
    BY HostClient
  <1>2. /\ \A d \in Clients : d # c => srv'[d] = srv[d]
        /\ srv'[c].pc = srv[c].pc /\ srv'[c].task = srv[c].task
    BY <1>1, ConnectsCtrl, ConnectsData
  <1> QED BY <1>2 DEF SameSession

LEMMA HoldGoesOn ==
  ASSUME TypeInv, HoldAll, NEW t \in Tasks, NEW label,
         mpc' = [mpc EXCEPT ![t] = label], Cut' = Cut, SameSession, label # "connect",
         \A u \in Tasks : u # t => /\ Silent(u)' <=> Silent(u)
                                   /\ Promised(u) => Promised(u)'
                                   /\ Queued(u)' <=> Queued(u)
                                   /\ srv[Host[u]].dataq # <<>> => srv'[Host[u]].dataq # <<>>,
         label \in Working => Hold(t)'
  PROVE  HoldAll'
PROOF
  <1> USE DEF HoldAll
  <1> SUFFICES ASSUME NEW u \in Tasks PROVE Hold(u)'
    BY DEF HoldAll
  <1>1. /\ mpc'[t] = label /\ (u # t => mpc'[u] = mpc[u])
        /\ srv'[Host[u]].pc = srv[Host[u]].pc /\ srv'[Host[u]].task = srv[Host[u]].task
    BY HostClient DEF TypeInv, TaskType, SameSession
  <1>2. CASE u # t
    BY <1>1, <1>2 DEF Hold, Unknown, Lives, Held, Owed, Heard
  <1>3. CASE u = t /\ label \in Working
    BY <1>3
  <1>4. CASE u = t /\ label \notin Working
    <2>1. mpc'[u] \notin {"connect", "recv"} \cup Working
      BY <1>1, <1>4 DEF Working
    <2> QED BY <2>1 DEF Hold, Unknown, Lives, Held, Owed, Heard
  <1> QED BY <1>2, <1>3, <1>4

(***************************************************************************)
(* A step that leaves the servers alone, of a task that works: it stays    *)
(* queued or served, and is not one the server waits for, unless it is     *)
(* about to open the data connection.                                      *)
(***************************************************************************)
LEMMA HoldMoves ==
  ASSUME TypeInv, HoldAll, NEW t \in Tasks, NEW label,
         mpc' = [mpc EXCEPT ![t] = label], UNCHANGED <<Cut, srv>>,
         mpc[t] \in Working, label # "connect",
         \A u \in Tasks : u # t => net'[u].req = net[u].req /\ net'[u].rep = net[u].rep /\ kind'[u] = kind[u],
         label = "recv" => ~Silent(t)' \/ t \in Cut,
         \/ label = "data" \/ label \notin Working
         \/ ~Promised(t) /\ (mpc[t] = "read" => srv[Host[t]].dataq = <<>> \/ srv[Host[t]].task # t)
  PROVE  HoldAll'
PROOF
  <1> USE DEF HoldAll
  <1>1. SameSession
    BY SamePlace
  <1>2. ASSUME NEW u \in Tasks, u # t
        PROVE  /\ Silent(u)' <=> Silent(u)
               /\ Promised(u) => Promised(u)'
               /\ Queued(u)' <=> Queued(u)
               /\ srv[Host[u]].dataq # <<>> => srv'[Host[u]].dataq # <<>>
    <2>1. mpc'[u] = mpc[u]
      BY <1>2 DEF TypeInv, TaskType
    <2> QED BY <1>2, <2>1 DEF Silent, Promised, Queued
  <1>3. ASSUME label \in Working
        PROVE  Hold(t)'
    <2>1. mpc'[t] = label /\ srv' = srv /\ (t \in Cut' <=> t \in Cut) /\ (Queued(t)' <=> Queued(t))
      BY DEF TypeInv, TaskType, Queued
    <2>2. Held(t)'
      BY <2>1 DEF Hold, Held, Lives
    <2>3. Owed(t)'
      <3>1. CASE label = "data"
        BY <2>1, <3>1 DEF Owed, Promised
      <3>2. CASE ~Promised(t) /\ (mpc[t] = "read" => srv[Host[t]].dataq = <<>> \/ srv[Host[t]].task # t)
        BY <2>1, <3>2 DEF Hold, Owed, Lives
      <3> QED BY <1>3, <3>1, <3>2
    <2>4. Unknown(t)' /\ Heard(t)'
      BY <2>1 DEF Unknown, Heard
    <2> QED BY <2>2, <2>3, <2>4 DEF Hold
  <1> QED BY <1>1, <1>2, <1>3, HoldGoesOn

(***************************************************************************)
(* The steps of a task.                                                    *)
(***************************************************************************)
LEMMA HoldConnect ==
  ASSUME TypeInv, HoldAll, NEW t \in Tasks, Connect(t)
  PROVE  HoldAll'
PROOF
  <1> USE DEF TypeInv
  <1>0. PICK c \in Clients : c = Host[t]
    BY HostClient
  <1>1. /\ mpc[t] = "connect" /\ UNCHANGED <<kind, net, Cut>>
        /\ \/ mpc' = [mpc EXCEPT ![t] = "send"] /\ Connects(t, "ctrlq")
           \/ mpc' = [mpc EXCEPT ![t] = "done"]
        /\ Connects(t, "ctrlq") \/ srv' = srv
    BY Zenon DEF Connect, Fails, At, Goto, Cut, linkVars
  <1>2. SameSession
    BY <1>1, SamePlace, ConnectsSession
  <1>3. /\ \A d \in Clients : d # c => srv'[d] = srv[d]
        /\ srv'[c].dataq = srv[c].dataq
        /\ srv'[c].ctrlq = srv[c].ctrlq \/ (srv[c].pc # "down" /\ srv'[c].ctrlq = Append(srv[c].ctrlq, t))
        /\ Connects(t, "ctrlq") => srv[c].pc # "down" /\ srv'[c].ctrlq = Append(srv[c].ctrlq, t)
    <2>1. CASE Connects(t, "ctrlq")
      BY <1>0, <2>1, ConnectsCtrl
    <2>2. CASE srv' = srv /\ ~Connects(t, "ctrlq")
      BY <2>2
    <2> QED BY <1>1, <2>1, <2>2
  <1>4. \A u \in Tasks : srv'[c].ctrlq = Append(srv[c].ctrlq, t) =>
          (In(srv'[c].ctrlq, u) <=> In(srv[c].ctrlq, u) \/ u = t)
    <2>1. srv[c].ctrlq \in Seq(Tasks)
      BY SrvFields
    <2> QED BY <2>1, InAppended
  <1>5. ASSUME NEW u \in Tasks, u # t
        PROVE  /\ Silent(u)' <=> Silent(u)
               /\ Promised(u) => Promised(u)'
               /\ Queued(u)' <=> Queued(u)
               /\ srv[Host[u]].dataq # <<>> => srv'[Host[u]].dataq # <<>>
    <2>1. mpc'[u] = mpc[u] /\ Host[u] \in Clients
      BY <1>1, <1>5, HostClient DEF TaskType
    <2>2. CASE Host[u] = c
      BY <1>1, <1>3, <1>4, <1>5, <2>1, <2>2 DEF Silent, Promised, Queued, In
    <2>3. CASE Host[u] # c
      BY <1>1, <1>3, <2>1, <2>3 DEF Silent, Promised, Queued
    <2> QED BY <2>2, <2>3
  <1>6. CASE mpc' = [mpc EXCEPT ![t] = "send"] /\ Connects(t, "ctrlq")
    <2>1. mpc'[t] = "send"
      BY <1>6 DEF TaskType
    <2>2. Queued(t)' /\ srv'[c].pc = srv[c].pc /\ srv[c].pc # "down" /\ srv'[c].task = srv[c].task
      BY <1>0, <1>2, <1>3, <1>4, <1>6 DEF Queued, In, SameSession
    <2>3. srv[c].task # t
      BY <1>0, <1>1 DEF Hold, Unknown, HoldAll
    <2>4. Hold(t)'
      BY <1>0, <2>1, <2>2, <2>3 DEF Hold, Unknown, Held, Owed, Heard
    <2> QED BY <1>1, <1>2, <1>5, <1>6, <2>4, HoldGoesOn
  <1>7. CASE mpc' = [mpc EXCEPT ![t] = "done"]
    <2>1. "done" \notin Working
      BY DEF Working
    <2> QED BY <1>1, <1>2, <1>5, <1>7, <2>1, HoldGoesOn
  <1> QED BY <1>1, <1>6, <1>7

LEMMA HoldDataConnect ==
  ASSUME TypeInv, HoldAll, NEW t \in Tasks, DataConnect(t)
  PROVE  HoldAll'
PROOF
  <1> USE DEF TypeInv
  <1>0. PICK c \in Clients : c = Host[t]
    BY HostClient
  <1>1. /\ mpc[t] = "data" /\ UNCHANGED <<kind, Cut>>
        /\ \/ mpc' = [mpc EXCEPT ![t] = "read"] /\ Connects(t, "dataq")
           \/ mpc' = [mpc EXCEPT ![t] = "done"]
        /\ Connects(t, "dataq") \/ srv' = srv
        /\ net' = [net EXCEPT ![t].data = <<>>]
    BY Zenon DEF DataConnect, Fails, At, Goto, Cut
  <1>2. SameSession
    BY <1>1, SamePlace, ConnectsSession
  <1>3. /\ \A d \in Clients : d # c => srv'[d] = srv[d]
        /\ srv'[c].ctrlq = srv[c].ctrlq
        /\ srv[c].dataq # <<>> => srv'[c].dataq # <<>>
        /\ Connects(t, "dataq") => srv'[c].dataq # <<>>
    <2>1. CASE Connects(t, "dataq")
      <3>1. srv[c].dataq \in Seq(Tasks)
        BY SrvFields
      <3>2. Append(srv[c].dataq, t) # <<>>
        BY <3>1, Appended
      <3> QED BY <1>0, <2>1, <3>2, ConnectsData
    <2>2. CASE srv' = srv /\ ~Connects(t, "dataq")
      BY <2>2
    <2> QED BY <1>1, <2>1, <2>2
  <1>4. \A u \in Tasks : net'[u].rep = net[u].rep /\ net'[u].req = net[u].req
    BY <1>1, NoData DEF NetBecomes
  <1>5. ASSUME NEW u \in Tasks
        PROVE  /\ Silent(u)' <=> Silent(u)
               /\ u # t => (Promised(u) => Promised(u)')
               /\ Queued(u)' <=> Queued(u)
               /\ srv[Host[u]].dataq # <<>> => srv'[Host[u]].dataq # <<>>
    <2>1. u # t => mpc'[u] = mpc[u]
      BY <1>1 DEF TaskType
    <2>2. Host[u] \in Clients /\ srv'[Host[u]].ctrlq = srv[Host[u]].ctrlq
      BY <1>3, HostClient
    <2> QED BY <1>1, <1>3, <1>4, <2>1, <2>2 DEF Silent, Promised, Queued
  <1>6. CASE mpc' = [mpc EXCEPT ![t] = "read"] /\ Connects(t, "dataq")
    <2>1. mpc'[t] = "read" /\ (t \in Cut' <=> t \in Cut) /\ Lives(t)' => Lives(t)
      BY <1>1, <1>6 DEF TaskType, Lives, Working
    <2>2. srv'[c].pc = srv[c].pc /\ srv'[c].task = srv[c].task
      BY <1>2 DEF SameSession
    <2>3. Held(t)'
      <3>1. mpc[t] \in Working
        BY <1>1 DEF Working
      <3> QED BY <1>0, <1>1, <1>5, <2>2, <3>1 DEF Hold, Held, Lives, HoldAll
    <2>4. Owed(t)' /\ Unknown(t)' /\ Heard(t)'
      <3>1. mpc'[t] = "read" /\ srv'[Host[t]].dataq # <<>>
        BY <1>0, <1>3, <1>6 DEF TaskType
      <3> QED BY <3>1 DEF Owed, Unknown, Heard
    <2>5. Hold(t)'
      BY <2>3, <2>4 DEF Hold
    <2> QED BY <1>1, <1>2, <1>5, <1>6, <2>5, HoldGoesOn
  <1>7. CASE mpc' = [mpc EXCEPT ![t] = "done"]
    <2>1. "done" \notin Working
      BY DEF Working
    <2> QED BY <1>1, <1>2, <1>5, <1>7, <2>1, HoldGoesOn
  <1> QED BY <1>1, <1>6, <1>7

LEMMA HoldDie ==
  ASSUME NEW t \in Tasks, Die(t), HoldAll
  PROVE  HoldAll'
PROOF
  <1> USE DEF HoldAll
  <1> SUFFICES ASSUME NEW u \in Tasks PROVE Hold(u)'
    BY DEF HoldAll
  <1>1. /\ mpc'[u] = (IF mpc[u] = "connect" THEN "connect" ELSE "gone") /\ srv' = srv
    BY Zenon DEF Die, clientVars
  <1>2. mpc'[u] \notin Working /\ (mpc'[u] = "connect" => mpc[u] = "connect")
    BY <1>1 DEF Working
  <1>3. Unknown(u)'
    BY <1>1, <1>2 DEF Hold, Unknown, Queued
  <1>4. Held(u)' /\ Owed(u)'
    BY <1>2 DEF Held, Owed, Lives
  <1>5. Heard(u)'
    BY <1>2 DEF Heard, Working
  <1> QED BY <1>3, <1>4, <1>5 DEF Hold

(***************************************************************************)
(* The other steps of a task touch no server and no other task's requests. *)
(***************************************************************************)
LEMMA HoldElsewhere ==
  ASSUME NEW u \in Tasks, Hold(u), mpc'[u] = mpc[u], kind'[u] = kind[u], u \in Cut' <=> u \in Cut,
         srv'[Host[u]] = srv[Host[u]], net'[u].req = net[u].req, net'[u].rep = net[u].rep
  PROVE  Hold(u)'
BY DEF Hold, Unknown, Lives, Held, Owed, Heard, Queued, Silent, Promised

LEMMA HoldOther ==
  ASSUME TypeInv, HoldAll, NEW t \in Tasks, mpc[t] = "again", LeavesLoop(t) \/ Steals,
         UNCHANGED <<net, Cut, srv>>
  PROVE  HoldAll'
PROOF
  <1>1. CASE LeavesLoop(t)
    <2>1. mpc' = [mpc EXCEPT ![t] = "send"] /\ \A u \in Tasks : u # t => kind'[u] = kind[u]
      BY <1>1 DEF LeavesLoop, NextKind, Goto, TypeInv, TaskType
    <2>2. ~Promised(t) /\ mpc[t] \in Working
      BY DEF Promised, Working
    <2> QED BY <2>1, <2>2, HoldMoves
  <1>2. CASE Steals
    <2>1. UNCHANGED <<mpc, kind, net, Cut, srv>>
      BY <1>2 DEF Steals
    <2> QED BY <2>1, HoldElsewhere DEF HoldAll
  <1> QED BY <1>1, <1>2

LEMMA HoldTask ==
  ASSUME TypeInv, AnswerInv, DataInv, OpenInv, HoldAll, NEW t \in Tasks,
         ctrl_data_pthread(t)
  PROVE  HoldAll'
PROOF
  <1> USE DEF TypeInv
  <1>0. {"send", "recv", "data", "read", "ip", "name", "store", "again"} \subseteq Working
    BY DEF Working
  <1>1. CASE Connect(t)
    BY <1>1, HoldConnect
  <1>2. CASE SendRequest(t)
    <2>1. /\ mpc[t] = "send" /\ UNCHANGED <<kind, Cut, srv>>
          /\ mpc' = [mpc EXCEPT ![t] = "recv"] \/ mpc' = [mpc EXCEPT ![t] = "done"]
          /\ mpc' = [mpc EXCEPT ![t] = "recv"] => t \in Cut \/ net' = [net EXCEPT ![t].req = Append(@, kind[t])]
          /\ kind[t] \in Kinds
      <3>1. /\ mpc[t] = "send" /\ UNCHANGED <<kind, Cut, srv>> /\ kind[t] \in Kinds
            /\ \/ /\ mpc' = [mpc EXCEPT ![t] = "recv"]
                  /\ net' = IF t \in Cut THEN net ELSE [net EXCEPT ![t].req = Append(@, kind[t])]
               \/ mpc' = [mpc EXCEPT ![t] = "done"]
        BY <1>2, Zenon DEF SendRequest, At, Goto, clientVars, Cut, linkVars
      <3>2. ~(mpc' = [mpc EXCEPT ![t] = "recv"] /\ mpc' = [mpc EXCEPT ![t] = "done"])
        BY DEF TaskType
      <3> QED BY <3>1, <3>2
    <2>2. \A u \in Tasks : u # t => net'[u].req = net[u].req /\ net'[u].rep = net[u].rep
      BY <1>2, SendNet DEF NetBecomes
    <2>3. ~Promised(t)
      BY <2>1 DEF Promised
    <2>4. CASE mpc' = [mpc EXCEPT ![t] = "recv"]
      <3>1. ~Silent(t)' \/ t \in Cut
        <4>1. ASSUME t \notin Cut
              PROVE  ~Silent(t)'
          <5>1. net[t].req \in Seq(Kinds) /\ kind[t] \in Kinds
            BY <2>1, NetFields
          <5>2. Append(net[t].req, kind[t]) # <<>> /\ Append(net[t].req, kind[t]) \in Seq(Kinds)
            BY <5>1, Appended
          <5>3. net'[t].req = Append(net[t].req, kind[t])
            BY <2>1, <2>4, <4>1, <5>2, PutReq DEF NetBecomes
          <5> QED BY <5>2, <5>3 DEF Silent
        <4> QED BY <4>1
      <3> QED BY <1>0, <2>1, <2>2, <2>3, <2>4, <3>1, HoldMoves
    <2>5. CASE mpc' = [mpc EXCEPT ![t] = "done"]
      BY <1>0, <2>1, <2>2, <2>3, <2>5, HoldMoves
    <2> QED BY <2>1, <2>4, <2>5
  <1>3. CASE Die(t)
    BY <1>3, HoldDie
  <1>4. CASE Close(t)
    <2>1. mpc[t] = "send" /\ UNCHANGED <<kind, Cut, srv, net>> /\ mpc' = [mpc EXCEPT ![t] = "done"]
      BY <1>4, Zenon DEF Close, At, Goto, clientVars, Cut, linkVars
    <2>2. "done" \notin Working
      BY DEF Working
    <2> QED BY <1>0, <2>1, <2>2, HoldMoves
  <1>5. CASE Skip(t)
    <2>1. /\ mpc[t] = "recv" /\ UNCHANGED <<Cut, srv>> /\ NextKind(t)
          /\ \/ net[t].rep = <<>> /\ net' = net
             \/ /\ net[t].rep # <<>> /\ Head(net[t].rep) # Yes(kind[t])
                /\ net' = [net EXCEPT ![t].rep = Tail(@)]
      BY <1>5, Zenon DEF Skip, At, clientVars, Cut, linkVars
    <2>2. mpc' = [mpc EXCEPT ![t] = "send"] /\ \A u \in Tasks : u # t => kind'[u] = kind[u]
      BY <2>1 DEF NextKind, Goto, TaskType
    <2>3. \A u \in Tasks : u # t => net'[u].req = net[u].req /\ net'[u].rep = net[u].rep
      BY <2>1, TakeRep DEF NetBecomes
    <2>4. ~Promised(t)
      BY <2>1, OneElement DEF Promised
    <2> QED BY <1>0, <2>1, <2>2, <2>3, <2>4, HoldMoves
  <1>6. CASE SetDir(t)
    <2>1. /\ mpc[t] = "recv" /\ UNCHANGED <<kind, Cut, srv>> /\ mpc' = [mpc EXCEPT ![t] = "data"]
          /\ net[t].rep # <<>> /\ net' = [net EXCEPT ![t].rep = Tail(@)]
      BY <1>6, Zenon DEF SetDir, At, Goto, clientVars, Cut, linkVars
    <2>2. \A u \in Tasks : u # t => net'[u].req = net[u].req /\ net'[u].rep = net[u].rep
      BY <2>1, TakeRep DEF NetBecomes
    <2> QED BY <1>0, <2>1, <2>2, HoldMoves
  <1>7. CASE DataConnect(t)
    BY <1>7, HoldDataConnect
  <1>8. CASE EndOfData(t) \/ ReadBuffer(t)
    <2>1. /\ mpc[t] = "read" /\ net[t].data # <<>> /\ UNCHANGED <<Cut, srv>>
          /\ net' = [net EXCEPT ![t].data = <<>>] \/ net' = [net EXCEPT ![t].data = Tail(@)]
          /\ \/ NextKind(t)
             \/ kind' = kind /\ mpc' = [mpc EXCEPT ![t] = "ip"]
      BY <1>8, Zenon DEF EndOfData, ReadBuffer, At, Goto, clientVars, Cut, linkVars
    <2>2. /\ mpc' = [mpc EXCEPT ![t] = "send"] \/ mpc' = [mpc EXCEPT ![t] = "ip"]
          /\ \A u \in Tasks : u # t => kind'[u] = kind[u]
      BY <2>1 DEF NextKind, Goto, TaskType
    <2>3. \A u \in Tasks : u # t => net'[u].req = net[u].req /\ net'[u].rep = net[u].rep
      BY <2>1, NoData, TakeData DEF NetBecomes
    <2>4. ~Promised(t)
      BY <2>1 DEF Promised
    <2>5. srv[Host[t]].dataq = <<>> \/ srv[Host[t]].task # t
      BY <2>1, QueueOwner, HostClient
    <2> QED BY <1>0, <2>1, <2>2, <2>3, <2>4, <2>5, HoldMoves
  <1>9. CASE RecvForeign(t)
    <2>1. mpc[t] = "again" /\ (LeavesLoop(t) \/ Steals) /\ UNCHANGED <<net, Cut, srv>>
      BY <1>9, Zenon DEF RecvForeign, At, clientVars, linkVars, Cut
    <2> QED BY <2>1, HoldOther
  <1>10. CASE AppendIp(t) \/ AppendName(t) \/ Store(t) \/ RecvClosed(t)
    <2>1. /\ mpc[t] \in {"ip", "name", "store", "again"} /\ UNCHANGED <<Cut, srv>>
          /\ net' = net \/ net' = [net EXCEPT ![t].data = <<>>]
          /\ \/ NextKind(t)
             \/ kind' = kind /\ \E label \in {"name", "store", "again"} : mpc' = [mpc EXCEPT ![t] = label]
      BY <1>10, Zenon DEF AppendIp, AppendName, Store, RecvClosed, At, Goto, clientVars, Cut, linkVars
    <2>2. \A u \in Tasks : u # t => kind'[u] = kind[u]
      BY <2>1 DEF NextKind, Goto, TaskType
    <2>3. PICK label \in {"send", "name", "store", "again"} : mpc' = [mpc EXCEPT ![t] = label]
      BY <2>1 DEF NextKind, Goto
    <2>4. \A u \in Tasks : u # t => net'[u].req = net[u].req /\ net'[u].rep = net[u].rep
      BY <2>1, NoData DEF NetBecomes
    <2>5. ~Promised(t) /\ mpc[t] # "read"
      BY <2>1 DEF Promised
    <2> QED BY <1>0, <2>1, <2>2, <2>3, <2>4, <2>5, HoldMoves
  <1> QED BY <1>1, <1>2, <1>3, <1>4, <1>5, <1>6, <1>7, <1>8, <1>9, <1>10 DEF ctrl_data_pthread

-----------------------------------------------------------------------------
(***************************************************************************)
(* The steps of a client, for its own tasks and for the others.            *)
(***************************************************************************)
LEMMA HoldAccept ==
  ASSUME TypeInv, NEW c \in Clients, ServerAccept(c), NEW u \in Tasks, Host[u] = c, Hold(u)
  PROVE  Hold(u)'
PROOF
  <1>1. UNCHANGED <<mpc, kind, net, Cut>>
    BY Zenon DEF ServerAccept, taskVars, Cut, linkVars
  <1>2. /\ srv[c].pc = "accept" /\ srv[c].ctrlq # <<>> /\ srv'[c].pc = "recv"
        /\ srv'[c].ctrlq = Tail(srv[c].ctrlq) /\ srv'[c].task = Head(srv[c].ctrlq)
    BY AcceptSrv DEF TypeInv, SrvBecomes
  <1>3. Queued(u) <=> Queued(u)' \/ srv'[c].task = u
    <2>1. srv[c].ctrlq \in Seq(Tasks)
      BY SrvFields DEF TypeInv
    <2>2. In(srv[c].ctrlq, u) <=> In(Tail(srv[c].ctrlq), u) \/ u = Head(srv[c].ctrlq)
      BY <1>2, <2>1, InTail
    <2>3. Queued(u)' <=> In(srv'[c].ctrlq, u)
      BY DEF Queued, In
    <2> QED BY <1>2, <2>2, <2>3, QueuedIn
  <1>4. Unknown(u)'
    BY <1>1, <1>3 DEF Hold, Unknown
  <1>5. Held(u)'
    BY <1>1, <1>2, <1>3 DEF Hold, Held, Lives
  <1>6. Owed(u)' /\ Heard(u)'
    BY <1>1, <1>2 DEF Hold, Owed, Heard, Silent
  <1> QED BY <1>4, <1>5, <1>6 DEF Hold

LEMMA HoldAnswer ==
  ASSUME TypeInv, AnswerInv, NEW c \in Clients, ServerAnswer(c), NEW u \in Tasks, Hold(u)
  PROVE  Hold(u)'
PROOF
  <1>1. UNCHANGED <<mpc, kind, Cut>> /\ srv[c].pc = "recv"
    BY Zenon DEF ServerAnswer, Serving, taskVars, Cut, linkVars
  <1>2. PICK t \in Visitors(c) : t = srv[c].task /\ net[t].req # <<>>
    BY AnswerNet DEF TypeInv
  <1>3. PICK k \in Kinds : k = Head(net[t].req)
    BY <1>2, AnswerNet DEF TypeInv
  <1>4. PICK r \in {<<>>, <<Yes(k)>>, <<No(k)>>} :
          /\ NetBecomes(t, Tail(net[t].req), net[t].rep \o r, net[t].data)
          /\ r = <<Yes(k)>> => srv' = [srv EXCEPT ![c] = [srv[c] EXCEPT !.pc = "data", !.log = k]]
          /\ r # <<Yes(k)>> => srv' = srv
    BY <1>2, <1>3, AnswerNet DEF TypeInv
  <1>5. t \in Tasks /\ Host[t] = c
    BY DEF Visitors
  <1>6. /\ \A d \in Clients : d # c => srv'[d] = srv[d]
        /\ srv'[c].task = t /\ srv'[c].ctrlq = srv[c].ctrlq
        /\ r = <<Yes(k)>> => srv'[c].pc = "data"
        /\ r # <<Yes(k)>> => srv'[c].pc = "recv"
    <2>1. CASE r = <<Yes(k)>>
      <3>1. k \in Nat
        BY SessionAssumption DEF Kinds
      <3>2. SrvBecomes(c, "data", srv[c].ctrlq, srv[c].dataq, srv[c].task, srv[c].peer, k)
        BY <1>4, <2>1, <3>1, PromiseSrv DEF TypeInv
      <3> QED BY <1>2, <2>1, <3>2 DEF SrvBecomes
    <2>2. CASE r # <<Yes(k)>>
      BY <1>1, <1>2, <1>4, <2>2
    <2> QED BY <2>1, <2>2
  <1>7. CASE Host[u] # c
    <2>1. u # t /\ srv'[Host[u]] = srv[Host[u]]
      BY <1>5, <1>6, <1>7, HostClient
    <2>2. net'[u] = net[u]
      BY <1>4, <2>1 DEF NetBecomes
    <2> QED BY <1>1, <2>1, <2>2, HoldElsewhere
  <1>8. CASE Host[u] = c /\ u # t
    <2>1. net'[u] = net[u] /\ (Queued(u)' <=> Queued(u)) /\ srv[c].task # u /\ srv'[c].task # u
      BY <1>2, <1>4, <1>6, <1>8 DEF NetBecomes, Queued
    <2>2. srv'[c].pc # "down"
      BY <1>6
    <2> QED BY <1>1, <1>8, <2>1, <2>2 DEF Hold, Unknown, Lives, Held, Owed, Heard, Silent
  <1>9. CASE u = t
    <2>1. net[t].rep = <<>> /\ (mpc[t] # "gone" => mpc[t] = "recv" /\ k = kind[t])
      <3>1. Asked(t)
        BY <1>2, <1>5 DEF AnswerInv, Exchange, Silent, Replied
      <3> QED BY <1>3, <3>1, OneElement DEF Asked
    <2>2. r = <<Yes(k)>> => net'[t].rep = <<Yes(k)>>
      BY <1>4, <2>1, OneElement DEF NetBecomes
    <2>3. Unknown(u)'
      BY <1>1, <1>9, <2>1 DEF Unknown
    <2>4. Held(u)'
      BY <1>5, <1>6, <1>9 DEF Held
    <2>5. Owed(u)'
      <3>1. CASE r = <<Yes(k)>>
        <4>1. Lives(u)' => mpc'[u] = "recv" /\ net'[u].rep = <<Yes(kind'[u])>>
          BY <1>1, <1>9, <2>1, <2>2, <3>1 DEF Lives, Working
        <4> QED BY <4>1 DEF Owed, Promised
      <3>2. CASE r # <<Yes(k)>>
        BY <1>5, <1>6, <1>9, <3>2 DEF Owed
      <3> QED BY <3>1, <3>2
    <2>6. Heard(u)'
      <3>1. CASE r = <<Yes(k)>>
        BY <1>9, <2>2, <3>1, OneElement DEF Heard, Silent
      <3>2. CASE r # <<Yes(k)>>
        BY <1>5, <1>6, <1>9, <3>2 DEF Heard
      <3> QED BY <3>1, <3>2
    <2> QED BY <2>3, <2>4, <2>5, <2>6 DEF Hold
  <1> QED BY <1>7, <1>8, <1>9

(***************************************************************************)
(* send_file and remove: the session goes on.                              *)
(***************************************************************************)
LEMMA HoldSends ==
  ASSUME TypeInv, NEW c \in Clients, ServerData(c) \/ ServerRemove(c),
         NEW u \in Tasks, Hold(u)
  PROVE  Hold(u)'
PROOF
  <1>1. UNCHANGED <<mpc, kind, Cut>>
    BY Zenon DEF ServerData, ServerRemove, taskVars, Cut, linkVars
  <1>2. net'[u].req = net[u].req /\ net'[u].rep = net[u].rep
    <2>1. CASE ServerData(c)
      <3>1. PICK t \in Tasks : t = Head(srv[c].dataq)
        BY <2>1, ServerDataNet DEF TypeInv
      <3>2. FileSent(c, t) \/ net' = net
        BY <2>1, <3>1, ServerDataNet DEF TypeInv
      <3> QED BY <3>2 DEF FileSent, NetBecomes
    <2>2. CASE ServerRemove(c)
      <3>1. net' = Ends(srv[c].peer) \/ net' = net
        BY <2>2, Zenon DEF ServerRemove
      <3>2. srv[c].peer \in Tasks
        BY <2>2 DEF ServerRemove, Serving, TypeInv, SrvType, SrvOwn
      <3> QED BY <3>1, <3>2, EndNet DEF TypeInv, NetBecomes
    <2> QED BY <2>1, <2>2
  <1>3. /\ \A d \in Clients : d # c => srv'[d] = srv[d]
        /\ srv[c].pc \in {"data", "remove"} /\ srv'[c].pc \in {"remove", "recv"}
        /\ srv'[c].task = srv[c].task /\ srv'[c].ctrlq = srv[c].ctrlq
    BY DataSrv, RemoveSrv DEF TypeInv, SrvBecomes
  <1>4. CASE Host[u] # c
    BY <1>1, <1>2, <1>3, <1>4, HostClient, HoldElsewhere
  <1>5. CASE Host[u] = c
    <2>1. Queued(u)' <=> Queued(u)
      BY <1>3, <1>5 DEF Queued
    <2> QED BY <1>1, <1>2, <1>3, <1>5, <2>1 DEF Hold, Unknown, Lives, Held, Owed, Heard, Silent
  <1> QED BY <1>4, <1>5

(***************************************************************************)
(* A session ends when the task has closed its connection; a kill leaves   *)
(* no live connection, so after a restart there is none.                   *)
(***************************************************************************)
LEMMA HoldEnd ==
  ASSUME TypeInv, OpenInv, NEW c \in Clients, ServerEnd(c), NEW u \in Tasks, Hold(u)
  PROVE  Hold(u)'
PROOF
  <1>1. UNCHANGED <<mpc, kind, net, Cut>> /\ srv[c].task \notin open
    BY Zenon DEF ServerEnd, Closed, taskVars, Cut, linkVars
  <1>2. /\ \A d \in Clients : d # c => srv'[d] = srv[d]
        /\ srv[c].pc = "recv" /\ srv'[c].pc = "accept" /\ srv'[c].ctrlq = srv[c].ctrlq
        /\ srv'[c].task # u
    BY EndSrv, SessionAssumption DEF TypeInv, SrvBecomes, NoTask
  <1>3. CASE Host[u] # c
    BY <1>1, <1>2, <1>3, HostClient, HoldElsewhere
  <1>4. CASE Host[u] = c
    <2>1. mpc[u] \in Working => srv[c].task # u
      BY <1>1 DEF OpenInv
    <2>2. Queued(u)' <=> Queued(u)
      BY <1>2, <1>4 DEF Queued
    <2>3. Unknown(u)' /\ Owed(u)'
      BY <1>1, <1>2, <1>4, <2>2 DEF Hold, Unknown, Owed
    <2>4. Held(u)'
      BY <1>1, <1>2, <1>4, <2>1, <2>2 DEF Hold, Held, Lives
    <2>5. Heard(u)'
      BY <1>1, <1>2, <1>4, <2>1 DEF Hold, Heard, Silent, Working
    <2> QED BY <2>3, <2>4, <2>5 DEF Hold
  <1> QED BY <1>3, <1>4

LEMMA HoldLeaves ==
  ASSUME TypeInv, OpenInv, NEW c \in Clients, Kill(c) \/ Vanish(c) \/ Restart(c),
         NEW u \in Tasks, Hold(u)
  PROVE  Hold(u)'
PROOF
  <1>1. UNCHANGED <<mpc, kind>>
    BY Zenon DEF Kill, Vanish, Restart, taskVars
  <1>2. mpc[u] \in Working => u \in open
    BY DEF OpenInv
  <1>3. /\ \A d \in Clients : d # c => srv'[d] = srv[d]
        /\ srv'[c].pc \in {"accept", "down"} /\ srv'[c].task # u /\ srv'[c].ctrlq = <<>>
    BY KillSrv, RestartSrv, SessionAssumption DEF TypeInv, SrvBecomes, NoTask
  <1>4. CASE Host[u] # c
    <2>1. net'[u].req = net[u].req /\ net'[u].rep = net[u].rep
      <3>1. CASE Kill(c) \/ Vanish(c)
        BY <1>4, <3>1, KillNet, VanishNet DEF TypeInv
      <3>2. CASE Restart(c)
        BY <3>2, Zenon DEF Restart
      <3> QED BY <3>1, <3>2
    <2>2. u \in Cut' <=> u \in Cut
      BY <1>4 DEF Kill, Vanish, Restart, linkVars, Cut
    <2> QED BY <1>1, <1>3, <1>4, <2>1, <2>2, HostClient, HoldElsewhere
  <1>5. CASE Host[u] = c
    <2>1. Unknown(u)'
      <3>1. ~Queued(u)'
        BY <1>3, <1>5 DEF Queued
      <3> QED BY <1>3, <1>5, <3>1 DEF Unknown
    <2>2. Owed(u)'
      BY <1>3, <1>5 DEF Owed
    <2>3. ~Lives(u)'
      <3>1. CASE Kill(c)
        <4>1. dead' = dead \cup {t \in open \ lost : Host[t] = c} /\ lost' = lost
          BY <3>1, Zenon DEF Kill
        <4> QED BY <1>1, <1>2, <1>5, <4>1 DEF Lives, Cut
      <3>2. CASE Vanish(c)
        <4>1. lost' = lost \cup {t \in open : Host[t] = c}
          BY <3>2, Zenon DEF Vanish
        <4> QED BY <1>1, <1>2, <1>5, <4>1 DEF Lives, Cut
      <3>3. CASE Restart(c)
        <4>1. Cut' = Cut
          BY <3>3, Zenon DEF Restart, Cut, linkVars
        <4>2. srv[c].pc = "down"
          BY <3>3, RestartSrv DEF TypeInv
        <4> QED BY <1>1, <1>5, <4>1, <4>2 DEF Hold, Held, Lives
      <3> QED BY <3>1, <3>2, <3>3
    <2>4. Held(u)' /\ Heard(u)'
      BY <2>3 DEF Held, Heard, Lives, Working
    <2> QED BY <2>1, <2>2, <2>4 DEF Hold
  <1> QED BY <1>4, <1>5

LEMMA HoldServer ==
  ASSUME TypeInv, AnswerInv, OpenInv, HoldAll, NEW c \in Clients, ServerStep(c), ~strayed'
  PROVE  HoldAll'
PROOF
  <1> SUFFICES ASSUME NEW u \in Tasks PROVE Hold(u)'
    BY DEF HoldAll
  <1>0. Hold(u)
    BY DEF HoldAll
  <1>1. CASE ServerAccept(c)
    <2>1. CASE Host[u] = c
      BY <1>0, <1>1, <2>1, HoldAccept
    <2>2. CASE Host[u] # c
      <3>1. UNCHANGED <<mpc, kind, net, Cut>>
        BY <1>1, Zenon DEF ServerAccept, taskVars, Cut, linkVars
      <3>2. srv'[Host[u]] = srv[Host[u]]
        BY <1>1, <2>2, AcceptSrv, HostClient DEF TypeInv, SrvBecomes
      <3> QED BY <1>0, <3>1, <3>2, HoldElsewhere
    <2> QED BY <2>1, <2>2
  <1>2. CASE ServerAnswer(c)
    BY <1>0, <1>2, HoldAnswer
  <1>3. CASE ServerData(c) \/ ServerRemove(c)
    BY <1>0, <1>3, HoldSends
  <1>4. CASE ServerEnd(c)
    BY <1>0, <1>4, HoldEnd
  <1>5. CASE Kill(c) \/ Vanish(c) \/ Restart(c)
    BY <1>0, <1>5, HoldLeaves
  <1>6. CASE \E k \in Kinds : LogAppears(c, k)
    <2>1. UNCHANGED <<mpc, kind, net, Cut, srv>>
      BY <1>6, Zenon DEF LogAppears, taskVars, Cut, linkVars
    <2> QED BY <1>0, <2>1, HoldElsewhere
  <1>7. ~DataAcceptFails(c)
    BY DEF DataAcceptFails
  <1> QED BY <1>1, <1>2, <1>3, <1>4, <1>5, <1>6, <1>7 DEF ServerStep, ctrl_server

LEMMA HoldOtherStep ==
  ASSUME TypeInv, HoldAll, OtherStep
  PROVE  HoldAll'
PROOF
  <1>1. ASSUME NEW t \in Tasks, RecvOther(t)
        PROVE  HoldAll'
    <2>1. mpc[t] = "again" /\ (LeavesLoop(t) \/ Steals) /\ UNCHANGED <<net, Cut, srv>>
      BY <1>1, Zenon DEF RecvOther, At, clientVars, linkVars, Cut
    <2> QED BY <2>1, HoldOther
  <1>2. CASE \A t \in Tasks : ~RecvOther(t)
    <2>1. UNCHANGED <<mpc, kind, net, srv>> /\ Cut' = Cut
      BY <1>2 DEF OtherStep, OtherOpens, OtherCloses, Reset, taskVars, clientVars, linkVars, Cut
    <2> QED BY <2>1, HoldElsewhere DEF HoldAll
  <1> QED BY <1>1, <1>2

LEMMA HoldNext ==
  ASSUME SessionInv, HoldInv, [Next]_vars
  PROVE  HoldInv'
PROOF
  <1> USE DEF SessionInv
  <1>1. CASE Next
    <2>1. CASE strayed'
      BY <2>1 DEF HoldInv
    <2>2. CASE ~strayed'
      <3>1. DataInv /\ HoldAll
        BY <1>1, <2>2, LinksKept DEF Sessions, HoldInv
      <3>2. HoldAll'
        BY <1>1, <2>2, <3>1, Steps, HoldTask, HoldServer, HoldOtherStep
      <3> QED BY <3>2 DEF HoldInv
    <2> QED BY <2>1, <2>2
  <1>2. CASE UNCHANGED vars
    <2>1. UNCHANGED <<mpc, kind, net, srv>> /\ Cut' = Cut /\ strayed' = strayed
      BY <1>2, Zenon DEF vars, taskVars, clientVars, linkVars, Cut
    <2>2. HoldAll => HoldAll'
      BY <2>1, HoldElsewhere DEF HoldAll
    <2> QED BY <2>1, <2>2 DEF HoldInv
  <1> QED BY <1>1, <1>2

LEMMA HoldHears == ASSUME SessionInv, HoldInv PROVE RequestHeld
PROOF
  <1> SUFFICES ASSUME NEW t \in Tasks, mpc[t] = "recv", t \notin dead \cup lost, ~strayed
               PROVE  \/ net[t].rep # <<>>
                      \/ /\ net[t].req # <<>>
                         /\ Queued(t) \/ (srv[Host[t]].task = t /\ srv[Host[t]].pc \in {"recv", "remove"})
                      \/ Unanswered(t)
    BY DEF RequestHeld
  <1>1. Lives(t) /\ Hold(t)
    BY DEF Lives, Working, HoldInv, HoldAll, Cut
  <1>2. CASE Silent(t)
    BY <1>1, <1>2 DEF Hold, Heard, Unanswered, Serving, Silent, Lives, Cut
  <1>3. CASE net[t].rep # <<>>
    BY <1>3
  <1>4. CASE net[t].rep = <<>> /\ net[t].req # <<>>
    <2>1. ~Promised(t)
      BY <1>4, OneElement DEF Promised
    <2> QED BY <1>1, <1>4, <2>1 DEF Hold, Held, Owed
  <1> QED BY <1>2, <1>3, <1>4 DEF Silent

(***************************************************************************)
(* Whoever's sessions overlap and whoever is started again, a request to a *)
(* client that lives is not lost between one session of its server and the *)
(* next, and task and server never wait for each other, until a data       *)
(* connection misses its session: the safety of AnsweredUnlessStuck.       *)
(***************************************************************************)
THEOREM RequestNeverLost == Spec => []RequestHeld
PROOF
  <1>1. Init => HoldInv
    BY HoldInit DEF HoldInv
  <1> QED BY <1>1, HoldNext, HoldHears, SessionInvariant, PTL DEF Spec
=============================================================================
