---------------------------- MODULE SelfTestProofs ----------------------------
(***************************************************************************)
(* Proofs about SelfTest, for every number of rounds.  None of them relies *)
(* on the mutex, which does not exclude anybody once it has been unlocked  *)
(* by a process that does not hold it.                                     *)
(***************************************************************************)
EXTENDS SelfTest, TLAPS

(***************************************************************************)
(* Only the script raises cnt, from a value it has read: outside judge and *)
(* reset it is below Self_Test, or 0, whoever clears it meanwhile.         *)
(***************************************************************************)
Low(n) == n < Self_Test \/ n = 0

CntBound ==
  /\ pc["script"] \in {"store", "judge"} => Low(reg)
  /\ pc["script"] = "judge" => cnt <= reg + 1
  /\ pc["script"] \notin {"judge", "reset"} => Low(cnt)

(***************************************************************************)
(* time passes Self_Test only between the failure and the end of the nap.  *)
(***************************************************************************)
TimeBound == pc["tester"] \notin {"badunlock", "nap"} => time <= Self_Test

SelfTestInv == TypeOK /\ CntBound /\ TimeBound

LEMMA SelfTestInit == Init => SelfTestInv
PROOF
  <1> SUFFICES ASSUME Init PROVE SelfTestInv
    OBVIOUS
  <1>1. /\ pc \in [Procs -> ScriptPCs \cup TesterPCs \cup CtrlPCs]
        /\ pc["script"] = "run" /\ pc["tester"] = "top" /\ pc["ctrl"] = "serve"
    <2> DEFINE at(p) == CASE p = "script" -> "run" [] p = "tester" -> "top" [] p = "ctrl" -> "serve"
    <2>1. at("script") = "run" /\ at("tester") = "top" /\ at("ctrl") = "serve"
      BY Zenon
    <2>2. pc = [p \in Procs |-> at(p)]
      BY Zenon DEF Init
    <2> HIDE DEF at
    <2> QED BY <2>1, <2>2 DEF Procs, ScriptPCs, TesterPCs, CtrlPCs
  <1>2. cnt = 0 /\ time = 0 /\ locked \in BOOLEAN /\ reg = 0 /\ quiet = 0
    BY DEF Init
  <1>3. TypeOK
    BY <1>1, <1>2, SelfTestAssumption DEF TypeOK, ScriptPCs, TesterPCs, CtrlPCs
  <1>4. CntBound /\ TimeBound
    BY <1>1, <1>2, SelfTestAssumption DEF CntBound, TimeBound, Low
  <1> QED BY <1>3, <1>4 DEF SelfTestInv

(***************************************************************************)
(* Where a process may go, and what its going there leaves to be shown.    *)
(***************************************************************************)
PCsOf(p) == CASE p = "script" -> ScriptPCs [] p = "tester" -> TesterPCs [] p = "ctrl" -> CtrlPCs

LEMMA StepType ==
  ASSUME TypeOK, NEW p \in Procs, NEW from, NEW to \in PCsOf(p), Step(p, from, to)
  PROVE  /\ pc' \in [Procs -> ScriptPCs \cup TesterPCs \cup CtrlPCs]
         /\ pc'["script"] \in ScriptPCs /\ pc'["tester"] \in TesterPCs /\ pc'["ctrl"] \in CtrlPCs
         /\ pc[p] = from /\ pc'[p] = to /\ \A q \in Procs \ {p} : pc'[q] = pc[q]
BY DEF TypeOK, PCsOf, Step, Procs

(***************************************************************************)
(* A lock, an unlock or any other step that writes none of the counters.   *)
(***************************************************************************)
LEMMA PlainStep ==
  ASSUME SelfTestInv, NEW p \in Procs, NEW from, NEW to \in PCsOf(p), Step(p, from, to),
         UNCHANGED <<cnt, time, reg, quiet>>, locked' \in BOOLEAN,
         p = "script" => from \notin {"judge", "reset"} /\ to \notin {"store", "judge"},
         p = "tester" => (from \in {"badunlock", "nap"} => to = "nap")
  PROVE  SelfTestInv'
PROOF
  <1>1. /\ pc' \in [Procs -> ScriptPCs \cup TesterPCs \cup CtrlPCs]
        /\ pc'["script"] \in ScriptPCs /\ pc'["tester"] \in TesterPCs /\ pc'["ctrl"] \in CtrlPCs
        /\ pc[p] = from /\ pc'[p] = to /\ \A q \in Procs \ {p} : pc'[q] = pc[q]
    BY StepType DEF SelfTestInv
  <1>2. TypeOK'
    BY <1>1 DEF SelfTestInv, TypeOK
  <1>3. CntBound'
    BY <1>1 DEF SelfTestInv, CntBound, Procs
  <1>4. TimeBound'
    BY <1>1 DEF SelfTestInv, TimeBound, Procs
  <1> QED BY <1>2, <1>3, <1>4 DEF SelfTestInv

LEMMA ScriptStep ==
  ASSUME SelfTestInv, Load \/ Store \/ Signal \/ Restart
  PROVE  SelfTestInv'
PROOF
  <1> USE SelfTestAssumption
  <1> "script" \in Procs /\ "tester" \in Procs /\ "ctrl" \in Procs
    BY DEF Procs
  <1>1. CASE Load
    <2>1. TypeOK'
      BY <1>1, StepType
      DEF Load, SelfTestInv, TypeOK, CntBound, Low, AtMost, PCsOf, ScriptPCs
    <2>2. CntBound' /\ TimeBound'
      BY <1>1 DEF Load, Step, SelfTestInv, TypeOK, CntBound, TimeBound, Low, Procs
    <2> QED BY <2>1, <2>2 DEF SelfTestInv
  <1>2. CASE Store
    <2>1. TypeOK'
      BY <1>2, StepType
      DEF Store, Step, SelfTestInv, TypeOK, CntBound, Low, PCsOf, ScriptPCs
    <2>2. CntBound' /\ TimeBound'
      BY <1>2 DEF Store, Step, SelfTestInv, TypeOK, CntBound, TimeBound, Low, Procs
    <2> QED BY <2>1, <2>2 DEF SelfTestInv
  <1>3. CASE Signal
    <2>1. /\ pc["script"] = "judge"
          /\ pc'["script"] = IF Expired THEN "reset" ELSE "unlock"
          /\ pc'["ctrl"] = pc["ctrl"]
          /\ pc'["tester"] = pc["tester"] \/ (pc["tester"] = "wait" /\ pc'["tester"] = "woken")
          /\ pc' \in [Procs -> ScriptPCs \cup TesterPCs \cup CtrlPCs]
      BY <1>3 DEF Signal, SelfTestInv, TypeOK, ScriptPCs, TesterPCs, Procs
    <2>2. TypeOK'
      BY <1>3, <2>1 DEF Signal, SelfTestInv, TypeOK, ScriptPCs, TesterPCs
    <2>3. CntBound' /\ TimeBound'
      BY <1>3, <2>1
      DEF Signal, Expired, SelfTestInv, TypeOK, CntBound, TimeBound, Low
    <2> QED BY <2>2, <2>3 DEF SelfTestInv
  <1>4. CASE Restart
    <2>1. TypeOK'
      BY <1>4, StepType DEF Restart, SelfTestInv, TypeOK, PCsOf, ScriptPCs
    <2>2. CntBound' /\ TimeBound'
      BY <1>4 DEF Restart, Step, SelfTestInv, TypeOK, CntBound, TimeBound, Low, Procs
    <2> QED BY <2>1, <2>2 DEF SelfTestInv
  <1> QED BY <1>1, <1>2, <1>3, <1>4

LEMMA TesterStep ==
  ASSUME SelfTestInv, OkTime \/ BadTime \/ NapAndCap
  PROVE  SelfTestInv'
PROOF
  <1> USE SelfTestAssumption
  <1> "script" \in Procs /\ "tester" \in Procs
    BY DEF Procs
  <1>1. TypeOK'
    BY StepType DEF OkTime, BadTime, NapAndCap, AtMost, SelfTestInv, TypeOK, TimeBound, Step,
       PCsOf, TesterPCs
  <1>2. CntBound' /\ TimeBound'
    BY DEF OkTime, BadTime, NapAndCap, AtMost, SelfTestInv, TypeOK, CntBound, TimeBound, Step,
       Procs
  <1> QED BY <1>1, <1>2 DEF SelfTestInv

LEMMA SeenStep ==
  ASSUME SelfTestInv, OkCnt \/ CtrlReset
  PROVE  SelfTestInv'
PROOF
  <1> USE SelfTestAssumption
  <1> "script" \in Procs /\ "tester" \in Procs /\ "ctrl" \in Procs
    BY DEF Procs
  <1>1. TypeOK'
    BY StepType DEF OkCnt, CtrlReset, MasterSeen, SelfTestInv, TypeOK, PCsOf, TesterPCs, CtrlPCs
  <1>2. CntBound' /\ TimeBound'
    BY DEF OkCnt, CtrlReset, MasterSeen, SelfTestInv, TypeOK, CntBound, TimeBound, Low, Step,
       Procs
  <1> QED BY <1>1, <1>2 DEF SelfTestInv

LEMMA QuietStep ==
  ASSUME SelfTestInv,
         \/ RunScript \/ ScriptExits \/ ScriptUnlock \/ Locks
         \/ CondWait \/ WokenUnlock \/ heart_test \/ OkUnlock \/ BadUnlock \/ StrayUnlock
         \/ SpuriousWakeup \/ SessionEnds \/ CtrlUnlock
  PROVE  SelfTestInv'
PROOF
  <1> USE DEF Procs, PCsOf, Elapse, Lock, Unlock
  <1>1. CASE RunScript \/ ScriptExits \/ ScriptUnlock \/ ScriptLock
    BY <1>1, PlainStep DEF RunScript, ScriptExits, ScriptUnlock, ScriptLock, ScriptPCs, SelfTestInv, TypeOK
  <1>2. CASE SessionEnds \/ CtrlUnlock \/ CtrlLock
    BY <1>2, PlainStep DEF SessionEnds, CtrlUnlock, CtrlLock, CtrlPCs, SelfTestInv, TypeOK
  <1>3. CASE TesterLock \/ WokenLock \/ OkLock \/ BadLock
    BY <1>3, PlainStep DEF TesterLock, WokenLock, OkLock, BadLock, TesterPCs
  <1>4. CASE CondWait \/ WokenUnlock \/ OkUnlock \/ BadUnlock \/ StrayUnlock
    BY <1>4, PlainStep DEF CondWait, WokenUnlock, OkUnlock, BadUnlock, StrayUnlock, TesterPCs
  <1>5. CASE heart_test \/ SpuriousWakeup
    BY <1>5, PlainStep DEF heart_test, SpuriousWakeup, TesterPCs, SelfTestInv, TypeOK
  <1> QED BY <1>1, <1>2, <1>3, <1>4, <1>5 DEF Locks

LEMMA SelfTestNext == SelfTestInv /\ [Next]_vars => SelfTestInv'
PROOF
  <1> SUFFICES ASSUME SelfTestInv, [Next]_vars PROVE SelfTestInv'
    OBVIOUS
  <1>1. CASE UNCHANGED vars
    BY <1>1 DEF vars, SelfTestInv, TypeOK, CntBound, TimeBound
  <1>2. CASE Next
    BY <1>2, ScriptStep, TesterStep, SeenStep, QuietStep DEF Next, popen_script, Tester
  <1> QED BY <1>1, <1>2

(***************************************************************************)
(* The count of rounds never passes Self_Test, and the tester's nap never  *)
(* grows past 6 * (Self_Test + 1) seconds, in spite of lost updates.       *)
(***************************************************************************)
THEOREM TypeCorrect == Spec => []TypeOK
PROOF
  <1>1. SelfTestInv => TypeOK
    BY DEF SelfTestInv
  <1> QED BY <1>1, SelfTestInit, SelfTestNext, PTL DEF Spec

(***************************************************************************)
(* Only the tester clears time, and only after it has reached the Master:  *)
(* capping it without the mutex never makes the script forget a failure.   *)
(***************************************************************************)
THEOREM FailureNeverForgotten == Spec => FailureRemembered
PROOF
  <1> DEFINE A == time > 0 /\ time' = 0 /\ Self_Test > 0 => pc["tester"] = "oktime"
  <1>1. TypeOK /\ [Next]_vars => [A]_vars
    <2> SUFFICES ASSUME TypeOK, Next, time > 0, time' = 0, Self_Test > 0
                 PROVE  pc["tester"] = "oktime"
      OBVIOUS
    <2>1. time' # time
      OBVIOUS
    <2>2. OkTime \/ BadTime \/ NapAndCap
      BY <2>1 DEF Next, popen_script, Tester, RunScript, ScriptExits, Load, Store, Signal, Restart,
         ScriptUnlock, CondWait, WokenUnlock, heart_test, OkCnt, OkUnlock, BadUnlock,
         StrayUnlock, SpuriousWakeup, SessionEnds, CtrlReset, CtrlUnlock, Locks, ScriptLock,
         TesterLock, WokenLock, OkLock, BadLock, CtrlLock, Elapse, Lock, Unlock, MasterSeen
    <2>3. time' # time + 1 /\ time' # AtMost(time, Self_Test)
      BY SelfTestAssumption DEF TypeOK, AtMost
    <2> QED BY <2>2, <2>3 DEF OkTime, Step, BadTime, NapAndCap
  <1> QED BY <1>1, TypeCorrect, PTL DEF Spec, FailureRemembered

================================================================================
