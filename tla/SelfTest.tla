------------------------------ MODULE SelfTest ------------------------------
(***************************************************************************)
(* The client's self-test (Client.c).  Three processes share cnt, time, a  *)
(* mutex and a condition in shared memory: the CPU script counts its       *)
(* rounds, the control server clears the count whenever the Master was     *)
(* there, and after Self_Test rounds without it the script wakes a tester, *)
(* which connects to the Master, and so logs in again, until it succeeds.  *)
(*                                                                         *)
(* The tester unlocks the mutex once too often.  POSIX leaves that         *)
(* undefined; for this process-shared mutex of the default kind glibc      *)
(* clears the lock word whoever holds it, which is what unlock does here.  *)
(***************************************************************************)
EXTENDS Integers

CONSTANT Self_Test           \* conf.Self_Test, rounds before the alarm

ASSUME SelfTestAssumption == Self_Test \in Nat

Procs == {"script", "tester", "ctrl"}

VARIABLES
  cnt, time,                 \* the integers of struct shared
  locked,                    \* the lock word of its mutex
  pc,                        \* where each process is
  reg,                       \* the value cnt++ returned to the script
  quiet                      \* rounds since the Master was last there

vars == <<cnt, time, locked, pc, reg, quiet>>

ScriptPCs == {"exited", "run", "lock", "load", "store", "judge", "reset", "unlock"}
TesterPCs == {"top", "hold", "wait", "woken", "awake", "probe", "oklock", "oktime",
              "okcnt", "okunlock", "badlock", "badtime", "badunlock", "nap", "stray"}
CtrlPCs == {"serve", "lock", "reset", "unlock"}

AtMost(m, n) == IF m < n THEN m ELSE n

Step(p, from, to) == pc[p] = from /\ pc' = [pc EXCEPT ![p] = to]

Init ==
  /\ cnt = 0 /\ time = 0 /\ locked = FALSE
  /\ pc = [p \in Procs |-> CASE p = "script" -> "run"
                             [] p = "tester" -> "top"
                             [] p = "ctrl" -> "serve"]
  /\ reg = 0 /\ quiet = 0

Lock(p, from, to) ==         \* pthread_mutex_lock
  /\ Step(p, from, to)
  /\ ~locked /\ locked' = TRUE
  /\ UNCHANGED <<cnt, time, reg, quiet>>

Unlock(p, from, to) ==       \* pthread_mutex_unlock, by anybody
  /\ Step(p, from, to)
  /\ locked' = FALSE
  /\ UNCHANGED <<cnt, time, reg, quiet>>

Elapse(p, from, to) ==       \* a step that touches nothing shared
  /\ Step(p, from, to)
  /\ UNCHANGED <<cnt, time, locked, reg, quiet>>

MasterSeen(p, from, to) ==   \* cond->cnt = 0 because the Master was there
  /\ Step(p, from, to)
  /\ cnt' = 0 /\ quiet' = 0
  /\ UNCHANGED <<time, locked, reg>>

-----------------------------------------------------------------------------
(***************************************************************************)
(* popen_script(0): one round runs the script and sleeps; then             *)
(* if (cond->cnt++ >= Self_Test - 1) { if (time == 0) signal; cnt = 0; }   *)
(***************************************************************************)
RunScript == Elapse("script", "run", "lock")

ScriptExits ==               \* exit(1), or its buffer overflows (see ClientLog)
  Elapse("script", "run", "exited")

ScriptLock == Lock("script", "lock", "load")

Load ==
  /\ Step("script", "load", "store")
  /\ reg' = cnt
  /\ quiet' = AtMost(quiet + 1, Self_Test)
  /\ UNCHANGED <<cnt, time, locked>>

Store ==
  /\ Step("script", "store", "judge")
  /\ cnt' = reg + 1
  /\ UNCHANGED <<time, locked, reg, quiet>>

Expired == reg >= Self_Test - 1

Signal ==                    \* lost when the tester does not wait
  /\ pc["script"] = "judge"
  /\ pc' = IF Expired /\ time = 0 /\ pc["tester"] = "wait"
           THEN [pc EXCEPT !["script"] = "reset", !["tester"] = "woken"]
           ELSE [pc EXCEPT !["script"] = IF Expired THEN "reset" ELSE "unlock"]
  /\ UNCHANGED <<cnt, time, locked, reg, quiet>>

Restart ==                   \* cnt = 0: count another Self_Test rounds
  /\ Step("script", "reset", "unlock")
  /\ cnt' = 0
  /\ UNCHANGED <<time, locked, reg, quiet>>

ScriptUnlock == Unlock("script", "unlock", "run")

popen_script == RunScript \/ Load \/ Store \/ Signal \/ Restart \/ ScriptUnlock

-----------------------------------------------------------------------------
(***************************************************************************)
(* The tester: wait for the signal, then heart_test until the Master       *)
(* accepts a connection, sleeping 6*time seconds in between.               *)
(***************************************************************************)
TesterLock == Lock("tester", "top", "hold")

CondWait == Unlock("tester", "hold", "wait")

SpuriousWakeup == Elapse("tester", "wait", "woken")

WokenLock == Lock("tester", "woken", "awake")

WokenUnlock == Unlock("tester", "awake", "probe")

heart_test ==                \* the Master answers, or it does not
  Elapse("tester", "probe", "oklock") \/ Elapse("tester", "probe", "badlock")

OkLock == Lock("tester", "oklock", "oktime")

OkTime_Keeps == Elapse("tester", "oktime", "okcnt")    \* time stays as it was

OkTime ==
  /\ Step("tester", "oktime", "okcnt")
  /\ time' = 0
  /\ UNCHANGED <<cnt, locked, reg, quiet>>

OkCnt == MasterSeen("tester", "okcnt", "okunlock")

OkUnlock == Unlock("tester", "okunlock", "top")

BadLock == Lock("tester", "badlock", "badtime")

BadTime ==
  /\ Step("tester", "badtime", "badunlock")
  /\ time' = time + 1
  /\ UNCHANGED <<cnt, locked, reg, quiet>>

BadUnlock == Unlock("tester", "badunlock", "nap")

NapAndCap_AtZero ==          \* caps at 0: the next alarm finds the tester at work
  /\ Step("tester", "nap", "stray")
  /\ time' = IF time > Self_Test THEN 0 ELSE time
  /\ UNCHANGED <<cnt, locked, reg, quiet>>

NapAndCap_Never == Elapse("tester", "nap", "stray")    \* backs off for ever

NapAndCap ==                 \* sleep, then cap time without the mutex
  /\ Step("tester", "nap", "stray")
  /\ time' = AtMost(time, Self_Test)
  /\ UNCHANGED <<cnt, locked, reg, quiet>>

StrayUnlock == Unlock("tester", "stray", "probe")

Tester ==
  \/ CondWait \/ WokenUnlock \/ heart_test
  \/ OkTime \/ OkCnt \/ OkUnlock
  \/ BadTime \/ BadUnlock \/ NapAndCap \/ StrayUnlock

-----------------------------------------------------------------------------
(***************************************************************************)
(* The control server, after each connection of the Master.                *)
(***************************************************************************)
SessionEnds == Elapse("ctrl", "serve", "lock")

CtrlLock == Lock("ctrl", "lock", "reset")

CtrlReset == MasterSeen("ctrl", "reset", "unlock")

CtrlUnlock == Unlock("ctrl", "unlock", "serve")

Locks ==
  ScriptLock \/ TesterLock \/ WokenLock \/ OkLock \/ BadLock \/ CtrlLock

Next ==
  \/ popen_script \/ ScriptExits \/ Tester \/ SpuriousWakeup
  \/ SessionEnds \/ CtrlReset \/ CtrlUnlock
  \/ Locks

Spec == Init /\ [][Next]_vars

(***************************************************************************)
(* Scheduling: every process that can run does; a process that wants the   *)
(* mutex gets it if it is free again and again, since the script sleeps    *)
(* for seconds between two rounds.  The Master may or may not be there,    *)
(* and spurious wakeups are not relied on.                                 *)
(***************************************************************************)
Fairness ==
  /\ WF_vars(popen_script)
  /\ WF_vars(Tester)
  /\ WF_vars(CtrlReset \/ CtrlUnlock)
  /\ SF_vars(ScriptLock) /\ SF_vars(CtrlLock)
  /\ SF_vars(TesterLock \/ WokenLock \/ OkLock \/ BadLock)

FairSpec == Spec /\ Fairness

-----------------------------------------------------------------------------
(***************************************************************************)
(* Ranges: cnt never passes Self_Test, in spite of the lost updates, and   *)
(* the tester never sleeps longer than 6 * (Self_Test + 1) seconds.        *)
(***************************************************************************)
TypeOK ==
  /\ cnt \in 0..(Self_Test + 1) /\ (Self_Test > 0 => cnt <= Self_Test)
  /\ time \in 0..(Self_Test + 1)
  /\ locked \in BOOLEAN
  /\ pc \in [Procs -> ScriptPCs \cup TesterPCs \cup CtrlPCs]
  /\ pc["script"] \in ScriptPCs /\ pc["tester"] \in TesterPCs /\ pc["ctrl"] \in CtrlPCs
  /\ reg \in 0..Self_Test
  /\ quiet \in 0..Self_Test

(***************************************************************************)
(* Once the tester has failed to reach the Master, time stays above 0      *)
(* until it has reached it: no failure is forgotten, so no alarm is raised *)
(* for an outage the tester is already following.                          *)
(***************************************************************************)
FailureRemembered ==
  [][time > 0 /\ time' = 0 /\ Self_Test > 0 => pc["tester"] = "oktime"]_vars

(***************************************************************************)
(* If the Master stops opening control connections, the client keeps       *)
(* trying to reach it, unless the process of the CPU script has ended:     *)
(* neither a signal sent while nobody waits nor the stray unlock stops the *)
(* self-test for good.                                                     *)
(***************************************************************************)
SilenceIsProbed ==
  <>[](pc["ctrl"] = "serve") /\ [](pc["script"] # "exited") => []<>(pc["tester"] = "probe")

(***************************************************************************)
(* Client.c:76 logs that the self-test passed Self_Test rounds with no     *)
(* connection of the Master: the alarm is raised only if that is so.       *)
(***************************************************************************)
NoFalseAlarm ==
  pc["script"] = "judge" /\ Expired /\ time = 0 => quiet >= Self_Test

=============================================================================
