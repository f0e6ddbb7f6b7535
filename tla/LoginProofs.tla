------------------------------ MODULE LoginProofs ------------------------------
(***************************************************************************)
(* Proofs about Login, for any clients and probes.                         *)
(***************************************************************************)
EXTENDS Login, TLAPS

(***************************************************************************)
(* A name is in one place at a time: in the client, in its socket, or read *)
(* by the Master.  TypeOK says so of the last two only; to stay true when  *)
(* a name is sent, it needs the first as well.                             *)
(***************************************************************************)
Unsent(c) == peer[c] \in {"none", "connected", "alone"}

NamesOnce ==
  \A c \in Clients : Unsent(c) => /\ c \notin unread \cup buf
                                  /\ \A d \in Conns : c \notin welcome[d]

(***************************************************************************)
(* A descriptor exists only for a connection somebody has tried to open.   *)
(***************************************************************************)
NoneBefore == \A c \in Conns : peer[c] = "none" => interest[c] = "none"

LoginInv == TypeOK /\ NamesOnce /\ NoneBefore

LEMMA LoginInit == Init => LoginInv /\ BufferWillBeSent
BY LoginAssumption
DEF Init, socket_create_tcp, Conns, LoginInv, TypeOK, NamesOnce, NoneBefore, Unsent,
    BufferWillBeSent

(***************************************************************************)
(* The client's steps touch neither the buffer nor the welcomes.           *)
(***************************************************************************)
LEMMA ClientStep ==
  ASSUME LoginInv, BufferWillBeSent, listening' = listening, NEW c \in Conns,
         Connect(c) \/ ConnectFails(c) \/ SendName(c) \/ ReceiveWelcome(c) \/ Leave(c)
  PROVE  LoginInv' /\ BufferWillBeSent'
PROOF
  <1> USE DEF LoginInv, TypeOK, NamesOnce, NoneBefore, Unsent, BufferWillBeSent
  <1>1. Clients \subseteq Conns /\ Probes \subseteq Conns
    BY DEF Conns
  <1>2. CASE Connect(c)
    BY <1>1, <1>2 DEF Connect
  <1>3. CASE ConnectFails(c)
    BY <1>1, <1>3 DEF ConnectFails
  <1>4. CASE SendName(c)
    BY <1>1, <1>4 DEF SendName
  <1>5. CASE ReceiveWelcome(c)
    BY <1>1, <1>5 DEF ReceiveWelcome
  <1>6. CASE Leave(c)
    BY <1>1, <1>6 DEF Leave
  <1> QED BY <1>2, <1>3, <1>4, <1>5, <1>6

(***************************************************************************)
(* The Master's steps: what do_read takes from a socket goes to the buffer *)
(* and registers that connection for writing; a write clears the buffer.   *)
(***************************************************************************)
LEMMA MasterStep ==
  ASSUME LoginInv, BufferWillBeSent, listening' = listening, NEW c \in Conns, handle_events(c)
  PROVE  LoginInv' /\ BufferWillBeSent'
PROOF
  <1> USE DEF LoginInv, TypeOK, NamesOnce, NoneBefore, Unsent, BufferWillBeSent
  <1>1. Clients \subseteq Conns /\ Probes \subseteq Conns
    BY DEF Conns
  <1>2. CASE handle_accpet(c)
    BY <1>1, <1>2 DEF handle_accpet
  <1>3. CASE do_read(c)
    BY <1>1, <1>3, LoginAssumption DEF do_read
  <1>4. CASE do_write(c)
    BY <1>1, <1>4 DEF do_write
  <1> QED BY <1>2, <1>3, <1>4 DEF handle_events

LEMMA LoginNext == LoginInv /\ BufferWillBeSent /\ [Next]_vars => LoginInv' /\ BufferWillBeSent'
PROOF
  <1> SUFFICES ASSUME LoginInv, BufferWillBeSent, [Next]_vars
               PROVE  LoginInv' /\ BufferWillBeSent'
    OBVIOUS
  <1>1. CASE UNCHANGED vars
    BY <1>1 DEF vars, LoginInv, TypeOK, NamesOnce, NoneBefore, Unsent, BufferWillBeSent
  <1>2. CASE Next
    BY <1>2, ClientStep, MasterStep DEF Next
  <1> QED BY <1>1, <1>2

(***************************************************************************)
(* A connection of heart_test never gets a welcome, and no welcome names a *)
(* client whose name is still in its socket.                               *)
(***************************************************************************)
THEOREM TypeCorrect == Spec => []TypeOK
PROOF
  <1>1. LoginInv => TypeOK
    BY DEF LoginInv
  <1> QED BY <1>1, LoginInit, LoginNext, PTL DEF Spec

(***************************************************************************)
(* Whatever clients and probes do, a name in the shared buffer has a       *)
(* descriptor that epoll reports writable: it is sent, to somebody.        *)
(***************************************************************************)
THEOREM BufferNeverForgotten == Spec => []BufferWillBeSent
BY LoginInit, LoginNext, PTL DEF Spec

-----------------------------------------------------------------------------
(***************************************************************************)
(* The safety of AloneIsWelcomed.  A descriptor is to be written only once *)
(* its client's name has been read, and a client's name is read once.      *)
(***************************************************************************)
ReadFirst ==
  \A c \in Conns : interest[c] = "out" => c \in Clients /\ ~Unsent(c) /\ c \notin unread

Alone(c) == \A d \in Clients \ {c} : peer[d] \in {"none", "alone"}

OnItsWay(c) ==
  \/ c \in unread /\ interest[c] \in {"none", "in"}
  \/ c \in buf /\ interest[c] = "out"
  \/ c \in welcome[c] /\ c \notin unread /\ interest[c] = "in"

NameComesBack == \A c \in Clients : Alone(c) /\ peer[c] = "waiting" => OnItsWay(c)

(***************************************************************************)
(* A client still to send its name finds its descriptor waiting for it.    *)
(***************************************************************************)
NameAwaited ==
  \A c \in Conns : peer[c] = "connected" => interest[c] \in {"none", "in"}

WayInv == ReadFirst /\ NameComesBack /\ NameAwaited

LEMMA WayInit == Init => WayInv
BY DEF Init, Conns, WayInv, ReadFirst, NameComesBack, NameAwaited

LEMMA WayClient ==
  ASSUME LoginInv, WayInv, NEW c \in Conns,
         Connect(c) \/ ConnectFails(c) \/ SendName(c) \/ ReceiveWelcome(c) \/ Leave(c)
  PROVE  WayInv'
PROOF
  <1> USE DEF LoginInv, TypeOK, WayInv
  <1>1. Clients \subseteq Conns
    BY DEF Conns
  <1>2. /\ UNCHANGED <<buf, welcome>>
        /\ \A d \in Conns : d # c => peer'[d] = peer[d] /\ interest'[d] = interest[d]
    BY DEF Connect, ConnectFails, SendName, ReceiveWelcome, Leave
  <1>3. \A d \in Conns : Alone(d)' => Alone(d)
    <2>1. peer'[c] \in {"none", "alone"} => peer[c] \in {"none", "alone"}
      BY DEF Connect, ConnectFails, SendName, ReceiveWelcome, Leave
    <2> QED BY <1>1, <1>2, <2>1 DEF Alone
  <1>4. CASE Connect(c)
    <2>1. interest[c] = "none"
      BY <1>4 DEF Connect, NoneBefore
    <2> QED BY <1>1, <1>2, <1>3, <1>4, <2>1 DEF Connect, ReadFirst, NameComesBack, OnItsWay, NameAwaited, Unsent
  <1>5. CASE ConnectFails(c)
    <2>1. interest[c] = "none"
      BY <1>5 DEF ConnectFails, NoneBefore
    <2> QED BY <1>1, <1>2, <1>3, <1>5, <2>1
        DEF ConnectFails, ReadFirst, NameComesBack, OnItsWay, NameAwaited, Unsent
  <1>6. CASE SendName(c)
    <2>1. interest[c] \in {"none", "in"}
      BY <1>6 DEF SendName, NameAwaited
    <2> QED BY <1>1, <1>2, <1>3, <1>6, <2>1 DEF SendName, ReadFirst, NameComesBack, OnItsWay, NameAwaited, Unsent
  <1>7. CASE ReceiveWelcome(c) \/ Leave(c)
    BY <1>1, <1>2, <1>3, <1>7
    DEF ReceiveWelcome, Leave, ReadFirst, NameComesBack, OnItsWay, NameAwaited, Unsent
  <1> QED BY <1>4, <1>5, <1>6, <1>7

LEMMA WayMaster ==
  ASSUME LoginInv, WayInv, NEW c \in Conns, handle_events(c)
  PROVE  WayInv'
PROOF
  <1> USE DEF LoginInv, TypeOK, WayInv
  <1>1. Clients \subseteq Conns /\ peer' = peer
    BY DEF Conns, handle_events, handle_accpet, do_read, do_write
  <1>2. \A d \in Conns : d # c => interest'[d] = interest[d] /\ (d \in unread' <=> d \in unread)
    BY DEF handle_events, handle_accpet, do_read, do_write
  <1>3. ReadFirst'
    <2>1. interest'[c] = "out" => c \in Clients /\ ~Unsent(c) /\ c \notin unread'
      BY DEF handle_events, handle_accpet, do_read, do_write, ReadFirst, NamesOnce
    <2>2. \A d \in Conns : Unsent(d)' <=> Unsent(d)
      BY <1>1 DEF Unsent
    <2> QED BY <1>2, <2>1, <2>2 DEF ReadFirst
  <1>4. NameAwaited'
    <2>1. peer[c] = "connected" => interest'[c] \in {"none", "in"}
      BY DEF handle_events, handle_accpet, do_read, do_write, NameAwaited, NamesOnce, ReadFirst, Unsent
    <2> QED BY <1>1, <1>2, <2>1 DEF NameAwaited
  <1>5. ASSUME NEW a \in Clients, Alone(a), peer[a] = "waiting"
        PROVE  OnItsWay(a)'
    <2>1. OnItsWay(a)
      BY <1>5 DEF NameComesBack
    <2>2. CASE c = a
      BY <1>1, <1>5, <2>1, <2>2 DEF OnItsWay, handle_events, handle_accpet, do_read, do_write
    <2>3. CASE c # a                        \* nobody else's turn to write
      <3>1. interest[c] # "out"
        BY <1>5, <2>3 DEF ReadFirst, Alone, Unsent
      <3>2. welcome' = welcome /\ buf' = buf
        <4>1. c \notin unread
          BY <1>5, <2>3 DEF Alone, NamesOnce, Unsent
        <4> QED BY <3>1, <4>1 DEF handle_events, handle_accpet, do_read, do_write
      <3> QED BY <1>1, <1>2, <2>1, <2>3, <3>2 DEF OnItsWay
    <2> QED BY <2>2, <2>3
  <1>6. NameComesBack'
    <2>1. \A a \in Clients : Alone(a)' => Alone(a)
      BY <1>1 DEF Alone
    <2> QED BY <1>1, <1>5, <2>1 DEF NameComesBack
  <1> QED BY <1>3, <1>4, <1>6

LEMMA WayNext == LoginInv /\ WayInv /\ [Next]_vars => WayInv'
PROOF
  <1> SUFFICES ASSUME LoginInv, WayInv, [Next]_vars PROVE WayInv'
    OBVIOUS
  <1>1. CASE UNCHANGED vars
    BY <1>1 DEF vars, WayInv, ReadFirst, NameComesBack, NameAwaited, Alone, OnItsWay, Unsent
  <1>2. CASE Next
    BY <1>2, WayClient, WayMaster DEF Next
  <1> QED BY <1>1, <1>2

(***************************************************************************)
(* While no other client has come to log in, the name a client has sent is *)
(* in its socket, or in the shared buffer with its own descriptor to be    *)
(* written, or in its own welcome: handle_events never gives it to a probe *)
(* or to a connection given up, and never clears it away.                  *)
(***************************************************************************)
THEOREM LoneNameComesBack == Spec => []NameComesBack
PROOF
  <1>1. WayInv => NameComesBack
    BY DEF WayInv
  <1> QED BY <1>1, LoginInit, LoginNext, WayInit, WayNext, PTL DEF Spec

================================================================================
