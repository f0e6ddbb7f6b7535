----------------------------- MODULE Registration -----------------------------
(***************************************************************************)
(* The Master's list of users (UserList) together with the self-test of    *)
(* the clients (SelfTest).  A client that the Master has taken off its     *)
(* list, or failed to put on it, still has its processes running: since    *)
(* ctrldata no longer hands its address to a task, nobody opens a control  *)
(* connection to it, its script counts rounds without the Master, and its  *)
(* tester connects to the login port, where do_epoll registers it again.   *)
(*                                                                         *)
(* Of SelfTest only its promise SilenceIsProbed is used.  A session resets *)
(* the client's count only when it ends; here it does as soon as a task    *)
(* has the address, which makes a client silent less often.                *)
(***************************************************************************)
EXTENDS UserList

Collected(c) == \E n \in argv : addr[n] = c /\ ctrl_data_pthread(n)

heart_test(c) == handle_accpet(c)

SilenceIsProbed(c) ==
  <>[][~Collected(c)]_vars => []<><<heart_test(c)>>_vars

(***************************************************************************)
(* Scheduling: the login task and the heartbeats run as long as they can.  *)
(***************************************************************************)
RegistrationSpec == FairSpec /\ WF_vars(login_pthread /\ Runs)

(***************************************************************************)
(* A client that stays up is on the list again and again, although it can  *)
(* be deleted by the heartbeat during which it logged in, or be linked     *)
(* behind a node that a heartbeat has just freed: once the other clients   *)
(* stop coming and going, no such loss is for good, unless the Master      *)
(* crashes or has listed an address twice.                                 *)
(***************************************************************************)
ListedAgain ==
  /\ \A c \in Loyal : SilenceIsProbed(c)
  /\ <>[][UNCHANGED mode]_vars
  /\ [](~crashed /\ ~missed)
  => \A c \in Loyal : []<>(c \in Listed)

===============================================================================
