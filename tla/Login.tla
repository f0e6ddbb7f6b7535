------------------------------- MODULE Login -------------------------------
(***************************************************************************)
(* Logging in (epoll.c; Client.c before its first fork).  A client         *)
(* connects, sends its name and blocks until the Master's welcome comes;   *)
(* only then does it start its listeners and scripts.  One thread of the   *)
(* Master serves all connections from one epoll set and one buffer, buf,   *)
(* which do_read fills and a later do_write sends and clears.  A client    *)
(* that cannot connect goes on without the Master.                         *)
(*                                                                         *)
(* The text in buf is abstracted to the names in it: do_read reads over    *)
(* the front of what buf holds and wraps the whole, so that a welcome not  *)
(* yet sent to another client becomes a part of the new one, but for the   *)
(* names at its front that are as long as what is written over them.       *)
(***************************************************************************)
EXTENDS FiniteSets

CONSTANTS
  Clients,                   \* clients that log in
  Probes                     \* connections of heart_test, closed at once

ASSUME LoginAssumption == Clients \cap Probes = {}

Conns == Clients \cup Probes

VARIABLES
  listening,                 \* could the Master open its login port?
  peer,                      \* what the other end of each connection does
  unread,                    \* connections with a name in the socket
  interest,                  \* the event each descriptor is registered for
  buf,                       \* the names in the shared buffer
  welcome                    \* the names in the welcome each client got

vars == <<listening, peer, unread, interest, buf, welcome>>

(***************************************************************************)
(* socket_create_tcp returns a listener, or closes its socket and returns  *)
(* -1; main goes on either way, and nothing tries again.                   *)
(***************************************************************************)
socket_create_tcp == listening \in BOOLEAN

Init ==
  /\ socket_create_tcp
  /\ peer = [c \in Conns |-> "none"]
  /\ unread = {}
  /\ interest = [c \in Conns |-> "none"]
  /\ buf = {}
  /\ welcome = [c \in Conns |-> {}]

-----------------------------------------------------------------------------
(***************************************************************************)
(* The client: socket_connect_tcp, send(name), recv(message).  With a      *)
(* descriptor of -1 the latter two fail, and the client starts all the     *)
(* same.  A connection given up after half a second may still be accepted. *)
(***************************************************************************)
Connect(c) ==
  /\ peer[c] = "none" /\ listening
  /\ peer' = [peer EXCEPT ![c] = "connected"]
  /\ UNCHANGED <<unread, interest, buf, welcome>>

ConnectFails(c) ==
  /\ peer[c] = "none"
  /\ peer' = [peer EXCEPT ![c] = "alone"]
  /\ \/ listening /\ UNCHANGED interest
     \/ interest' = [interest EXCEPT ![c] = "refused"]
  /\ UNCHANGED <<unread, buf, welcome>>

SendName(c) ==
  /\ c \in Clients /\ peer[c] = "connected"
  /\ peer' = [peer EXCEPT ![c] = "waiting"]
  /\ unread' = unread \cup {c}
  /\ UNCHANGED <<interest, buf, welcome>>

ReceiveWelcome(c) ==         \* a write of no bytes is not received
  /\ peer[c] = "waiting" /\ welcome[c] # {}
  /\ peer' = [peer EXCEPT ![c] = "started"]
  /\ UNCHANGED <<unread, interest, buf, welcome>>

Leave(c) ==                  \* heart_test closes; a client is killed
  /\ peer[c] \in {"connected", "waiting", "started"}
  /\ peer' = [peer EXCEPT ![c] = "closed"]
  /\ UNCHANGED <<unread, interest, buf, welcome>>

-----------------------------------------------------------------------------
(***************************************************************************)
(* handle_events, one descriptor: epoll is level-triggered, and the order  *)
(* of the descriptors that are ready is the kernel's.                      *)
(***************************************************************************)
handle_accpet(c) ==
  /\ peer[c] # "none" /\ interest[c] = "none"
  /\ interest' = [interest EXCEPT ![c] = "in"]
  /\ UNCHANGED <<peer, unread, buf, welcome>>

do_read_EofIsName(c) ==      \* answers the end of the stream like a name
  /\ interest[c] = "in" /\ (c \in unread \/ peer[c] \in {"closed", "alone"})
  /\ unread' = unread \ {c}
  /\ buf' = buf \cup (unread \cap {c})
  /\ interest' = [interest EXCEPT ![c] = "out"]
  /\ UNCHANGED <<peer, welcome>>

do_read_StaysIn(c) ==        \* forgets modify_event(EPOLLOUT)
  /\ interest[c] = "in" /\ c \in unread
  /\ unread' = unread \ {c}
  /\ buf' = buf \cup {c}
  /\ UNCHANGED <<peer, interest, welcome>>

do_read(c) ==
  \/ /\ interest[c] = "in" /\ c \in unread
     /\ unread' = unread \ {c}
     /\ \E left \in SUBSET buf : buf' = left \cup {c}
     /\ interest' = [interest EXCEPT ![c] = "out"]
     /\ UNCHANGED <<peer, welcome>>
  \/ /\ interest[c] = "in" /\ c \notin unread /\ peer[c] \in {"closed", "alone"}
     /\ interest' = [interest EXCEPT ![c] = "closed"]
     /\ UNCHANGED <<peer, unread, buf, welcome>>

do_write_Keeps(c) ==         \* no memset after the write
  /\ interest[c] = "out"
  /\ welcome' = [welcome EXCEPT ![c] = buf]
  /\ interest' = [interest EXCEPT ![c] = "in"]
  /\ UNCHANGED <<peer, unread, buf>>

do_write(c) ==               \* -1 closes the descriptor; buf is cleared anyhow
  /\ interest[c] = "out"
  /\ \/ /\ welcome' = [welcome EXCEPT ![c] = buf]
        /\ interest' = [interest EXCEPT ![c] = "in"]
     \/ /\ peer[c] = "closed"
        /\ interest' = [interest EXCEPT ![c] = "closed"]
        /\ UNCHANGED welcome
  /\ buf' = {}
  /\ UNCHANGED <<peer, unread>>

handle_events(c) == handle_accpet(c) \/ do_read(c) \/ do_write(c)

Next ==
  /\ UNCHANGED listening
  /\ \E c \in Conns :
       \/ Connect(c) \/ ConnectFails(c) \/ SendName(c) \/ ReceiveWelcome(c) \/ Leave(c)
       \/ handle_events(c)

Spec == Init /\ [][Next]_vars

(***************************************************************************)
(* Scheduling: epoll_wait returns every descriptor that stays ready, and a *)
(* client goes on as long as it is not killed.                             *)
(***************************************************************************)
Fairness ==
  \A c \in Conns :
    /\ WF_vars(handle_events(c) /\ UNCHANGED listening)
    /\ WF_vars((SendName(c) \/ ReceiveWelcome(c)) /\ UNCHANGED listening)

FairSpec == Spec /\ Fairness

-----------------------------------------------------------------------------
(***************************************************************************)
(* Types; only clients that have been accepted and read get a welcome, and *)
(* it never names a connection that sent no name.                          *)
(***************************************************************************)
TypeOK ==
  /\ listening \in BOOLEAN
  /\ peer \in [Conns -> {"none", "connected", "alone", "waiting", "started", "closed"}]
  /\ interest \in [Conns -> {"none", "refused", "in", "out", "closed"}]
  /\ unread \subseteq Clients /\ buf \subseteq Clients \ unread
  /\ welcome \in [Conns -> SUBSET (Clients \ unread)]
  /\ \A c \in Probes : welcome[c] = {} /\ interest[c] # "out"

(***************************************************************************)
(* The buffer is not empty only while some descriptor waits to be written: *)
(* no welcome stays behind in it for the next client to log in.            *)
(***************************************************************************)
BufferWillBeSent == buf # {} => \E c \in Conns : interest[c] = "out"

(***************************************************************************)
(* A client that nobody else logs in beside gets its welcome and starts,   *)
(* unless it is killed, whatever probes come and go meanwhile, and even if *)
(* connections of other clients that were given up are accepted.           *)
(***************************************************************************)
AloneIsWelcomed ==
  \A c \in Clients :
    [](\A d \in Clients \ {c} : peer[d] \in {"none", "alone"})
      => (peer[c] = "waiting" ~> peer[c] \in {"started", "closed"})

(***************************************************************************)
(* epoll.c:56 reports that the client has logged in once it is accepted:   *)
(* then the client, unless it is killed, gets its welcome and starts.      *)
(***************************************************************************)
LoginCompletes ==
  \A c \in Clients : peer[c] = "waiting" ~> peer[c] \in {"started", "closed"}

=============================================================================
