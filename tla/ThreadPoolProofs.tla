--------------------------- MODULE ThreadPoolProofs ---------------------------
(***************************************************************************)
(* Proofs about ThreadPool, for every number of threads and tasks.         *)
(***************************************************************************)
EXTENDS ThreadPool, FiniteSetTheorems, TLAPS

(***************************************************************************)
(* A signal only moves a blocked thread to the matching runnable label.    *)
(***************************************************************************)
LEMMA SignalType ==
  ASSUME NEW p \in [Threads -> WorkerPCs \cup MainPCs], NEW q \in condition_signal(p)
  PROVE  /\ q \in [Threads -> WorkerPCs \cup MainPCs]
         /\ \A t \in Threads : q[t] = p[t] \/ (p[t] = "wait" /\ q[t] = "woken")
                                            \/ (p[t] = "dwait" /\ q[t] = "dwoken")
BY DEF condition_signal, Blocked, Runnable, WorkerPCs, MainPCs

LEMMA BroadcastType ==
  ASSUME NEW p \in [Threads -> WorkerPCs \cup MainPCs]
  PROVE  /\ condition_broadcast(p) \in [Threads -> WorkerPCs \cup MainPCs]
         /\ \A t \in Threads :
              LET q == condition_broadcast(p)
              IN  q[t] = p[t] \/ (p[t] = "wait" /\ q[t] = "woken")
                              \/ (p[t] = "dwait" /\ q[t] = "dwoken")
BY DEF condition_broadcast, Blocked, Runnable, WorkerPCs, MainPCs

(***************************************************************************)
(* What a step may do to the program counters without disturbing TypeInv.  *)
(***************************************************************************)
PcType(p) ==
  /\ p \in [Threads -> WorkerPCs \cup MainPCs]
  /\ p[Main] \in MainPCs /\ \A w \in Workers : p[w] \in WorkerPCs

NoneKept(p) == \A w \in Workers : p[w] = "none" => pc[w] = "none"

Creating == {"create", "load", "store", "addlock", "addbody", "arm"}

LEMMA ThreadFacts ==
  /\ Threads = Workers \cup {Main} /\ Main \in Threads /\ Main \notin Workers
  /\ Workers \subseteq Threads /\ Workers \subseteq Int
BY PoolAssumption DEF Threads, Workers, Main

LEMMA GotoMain ==
  ASSUME PcType(pc), NEW l \in MainPCs
  PROVE  LET p == [pc EXCEPT ![Main] = l]
         IN  PcType(p) /\ p[Main] = l /\ NoneKept(p)
BY ThreadFacts DEF PcType, NoneKept

LEMMA GotoWorker ==
  ASSUME PcType(pc), NEW w \in Workers, NEW l \in WorkerPCs \ {"none"}
  PROVE  LET p == [pc EXCEPT ![w] = l]
         IN  PcType(p) /\ p[Main] = pc[Main] /\ NoneKept(p) /\ p[w] = l
BY ThreadFacts DEF PcType, NoneKept

LEMMA SignalPc ==
  ASSUME NEW p, PcType(p), NoneKept(p), NEW q \in condition_signal(p)
  PROVE  /\ PcType(q) /\ NoneKept(q)
         /\ q[Main] = p[Main] \/ (p[Main] = "dwait" /\ q[Main] = "dwoken")
PROOF
  <1>1. "woken" \in WorkerPCs /\ "dwoken" \in MainPCs /\ "wait" \notin MainPCs
        /\ "dwait" \notin WorkerPCs
    BY DEF WorkerPCs, MainPCs
  <1> QED BY <1>1, SignalType, ThreadFacts DEF PcType, NoneKept

(***************************************************************************)
(* The inductive invariant behind TypeOK.  While the workers are created,  *)
(* counter (or main's copy of it) stays below the number of every worker   *)
(* still to be created; handlers run only once main has armed the timer.   *)
(***************************************************************************)
DataType ==
  /\ first \in Tasks \cup {NULL} /\ last \in Tasks \cup {NULL}
  /\ next \in [Tasks -> Tasks \cup {NULL}]
  /\ added \in 0..MaxTasks
  /\ tstate \in [Tasks -> TaskStates]
  /\ counter \in Int /\ counter <= MaxThreads
  /\ idle \in Int /\ quit \in BOOLEAN /\ reg \in Int
  /\ owner \in Threads \cup {NoThread}
  /\ hnd \in [Threads -> {"none", "lock", "body"}]
  /\ timeout \in [Workers -> BOOLEAN]
  /\ task \in [Workers -> Tasks \cup {NULL}]

CreationBound ==
  /\ pc[Main] = "create" => \A w \in Workers : pc[w] = "none" => counter < w
  /\ pc[Main] = "load" =>
       counter < MaxThreads /\ \A w \in Workers : pc[w] = "none" => counter + 1 < w
  /\ pc[Main] = "store" =>
       reg < MaxThreads /\ \A w \in Workers : pc[w] = "none" => reg + 1 < w

Armed == \A t \in Threads : hnd[t] # "none" => pc[Main] \notin Creating

TypeInv == DataType /\ PcType(pc) /\ CreationBound /\ Armed

LEMMA TypeParts == TypeOK <=> DataType /\ PcType(pc)
BY DEF TypeOK, DataType, PcType

LEMMA TypeInit == Init => TypeInv
PROOF
  <1> SUFFICES ASSUME Init PROVE TypeInv
    OBVIOUS
  <1> USE PoolAssumption, ThreadFacts DEF Init
  <1>1. DataType
    <2>1. /\ first \in Tasks \cup {NULL} /\ last \in Tasks \cup {NULL}
          /\ next \in [Tasks -> Tasks \cup {NULL}] /\ added \in 0..MaxTasks
          /\ tstate \in [Tasks -> TaskStates] /\ counter \in Int /\ counter <= MaxThreads
      BY DEF TaskStates
    <2>2. idle \in Int /\ reg \in Int /\ owner \in Threads \cup {NoThread}
      OBVIOUS
    <2>3. quit \in BOOLEAN /\ hnd \in [Threads -> {"none", "lock", "body"}]
      OBVIOUS
    <2>4. timeout \in [Workers -> BOOLEAN] /\ task \in [Workers -> Tasks \cup {NULL}]
      OBVIOUS
    <2> QED BY <2>1, <2>2, <2>3, <2>4 DEF DataType
  <1>2. PcType(pc) /\ pc[Main] = "create"
    BY DEF PcType, WorkerPCs, MainPCs
  <1>3. CreationBound /\ Armed
    BY <1>2 DEF CreationBound, Armed, Workers
  <1> QED BY <1>1, <1>2, <1>3 DEF TypeInv

(***************************************************************************)
(* Steps of main past the creation, of handlers and of workers.            *)
(***************************************************************************)
LEMMA PlainStep ==
  ASSUME TypeInv, DataType', PcType(pc'), NoneKept(pc'), hnd' = hnd,
         \/ pc'[Main] \notin Creating
         \/ pc'[Main] \in Creating \ {"create", "load", "store"} /\ pc[Main] \in Creating
         \/ pc'[Main] = pc[Main] /\ reg' = reg /\ counter' <= counter
  PROVE  TypeInv'
PROOF
  <1>1. CreationBound'
    <2>1. CASE pc'[Main] \notin Creating \/ pc'[Main] \in Creating \ {"create", "load", "store"}
      BY <2>1 DEF CreationBound, Creating
    <2>2. CASE pc'[Main] = pc[Main] /\ reg' = reg /\ counter' <= counter
      <3>1. counter \in Int /\ counter' \in Int /\ MaxThreads \in Nat
        BY PoolAssumption DEF TypeInv, DataType
      <3>2. \A w \in Workers : w \in Int /\ (pc'[w] = "none" => pc[w] = "none")
        BY ThreadFacts DEF NoneKept
      <3>3. CASE pc[Main] = "create"
        BY <2>2, <3>1, <3>2, <3>3 DEF TypeInv, CreationBound
      <3>4. CASE pc[Main] = "load"
        BY <2>2, <3>1, <3>2, <3>4 DEF TypeInv, CreationBound
      <3>5. CASE pc[Main] \notin {"create", "load"}
        BY <2>2, <3>1, <3>2, <3>5 DEF TypeInv, CreationBound
      <3> QED BY <3>3, <3>4, <3>5
    <2> QED BY <2>1, <2>2
  <1>2. Armed'
    BY DEF TypeInv, Armed, Creating
  <1> QED BY <1>1, <1>2 DEF TypeInv

LEMMA AddTaskData ==
  ASSUME TypeInv, NEW p, PcType(p), NoneKept(p), threadpool_add_task(p),
         hnd' \in [Threads -> {"none", "lock", "body"}]
  PROVE  /\ DataType' /\ PcType(pc') /\ NoneKept(pc')
         /\ pc'[Main] = p[Main] \/ (p[Main] = "dwait" /\ pc'[Main] = "dwoken")
PROOF
  <1>1. /\ PcType(pc') /\ NoneKept(pc')
        /\ pc'[Main] = p[Main] \/ (p[Main] = "dwait" /\ pc'[Main] = "dwoken")
    BY SignalPc DEF threadpool_add_task, Announce
  <1>2. counter' \in Int /\ counter' <= MaxThreads
    BY PoolAssumption DEF threadpool_add_task, Announce, TypeInv, DataType
  <1>3. added + 1 \in Tasks /\ added' \in 0..MaxTasks
    BY PoolAssumption DEF threadpool_add_task, Link, TypeInv, DataType, Tasks
  <1>4. /\ first' \in Tasks \cup {NULL} /\ last' \in Tasks \cup {NULL}
        /\ next' \in [Tasks -> Tasks \cup {NULL}]
        /\ tstate' \in [Tasks -> TaskStates]
    BY <1>3 DEF threadpool_add_task, Link, TypeInv, DataType, TaskStates
  <1>5. /\ owner' = NoThread /\ idle' = idle /\ quit' = quit
        /\ timeout' = timeout /\ task' = task /\ reg' = reg
    BY DEF threadpool_add_task, condition_unlock, localVars
  <1>6. DataType'
    BY <1>2, <1>3, <1>4, <1>5 DEF TypeInv, DataType
  <1> QED BY <1>1, <1>6

LEMMA EndRoundType ==
  ASSUME TypeInv, NEW w \in Workers, EndRound(w), idle' \in Int
  PROVE  TypeInv'
PROOF
  <1> DEFINE p == [pc EXCEPT ![w] = "exited"]
             r == [pc EXCEPT ![w] = "top"]
  <1>1. /\ PcType(p) /\ p[Main] = pc[Main] /\ NoneKept(p)
        /\ PcType(r) /\ r[Main] = pc[Main] /\ NoneKept(r)
    BY GotoWorker DEF TypeInv, WorkerPCs
  <1>2. pc' = p \/ pc' = r \/ pc' \in condition_signal(p)
    BY DEF EndRound, Goto
  <1>3. /\ PcType(pc') /\ NoneKept(pc')
        /\ pc'[Main] = pc[Main] \/ pc'[Main] = "dwoken"
    BY <1>1, <1>2, SignalPc
  <1>4. counter' = counter \/ counter' = counter - 1
    BY DEF EndRound
  <1>5. DataType'
    BY <1>4, PoolAssumption DEF TypeInv, DataType, EndRound, condition_unlock, queueVars, localVars
  <1> QED BY <1>3, <1>4, <1>5, PlainStep DEF EndRound, Creating, TypeInv, DataType, localVars

LEMMA MainStep ==
  ASSUME TypeInv, NEW l \in MainPCs \ {"create", "load", "store"}, Goto(Main, l), DataType',
         hnd' = hnd, l \in Creating => pc[Main] \in Creating
  PROVE  TypeInv'
PROOF
  <1>1. PcType(pc') /\ pc'[Main] = l /\ NoneKept(pc')
    BY GotoMain DEF Goto, TypeInv
  <1> QED BY <1>1, PlainStep

LEMMA WorkerStep ==
  ASSUME TypeInv, NEW w \in Workers, NEW l \in WorkerPCs \ {"none"}, Goto(w, l), DataType',
         hnd' = hnd, reg' = reg, counter' = counter
  PROVE  TypeInv'
PROOF
  <1>1. PcType(pc') /\ pc'[Main] = pc[Main] /\ NoneKept(pc')
    BY GotoWorker DEF Goto, TypeInv
  <1> QED BY <1>1, PlainStep DEF TypeInv, DataType

LEMMA TypeNext == TypeInv /\ [Next]_vars => TypeInv'
PROOF
  <1> SUFFICES ASSUME TypeInv, [Next]_vars PROVE TypeInv'
    OBVIOUS
  <1> USE PoolAssumption
  <1>1. CASE UNCHANGED vars
    <2>1. DataType' /\ pc' = pc /\ hnd' = hnd /\ reg' = reg /\ counter' = counter
      BY <1>1 DEF TypeInv, DataType, vars, queueVars, localVars
    <2> QED BY <2>1 DEF TypeInv, CreationBound, Armed
  <1>2. ASSUME NEW w \in Workers, CreateThread(w) PROVE TypeInv'
    <2> DEFINE p == [pc EXCEPT ![w] = "top"]
    <2>1. PcType(p) /\ p[Main] = "create" /\ NoneKept(p) /\ p[w] = "top"
      BY <1>2, GotoWorker DEF CreateThread, At, TypeInv, WorkerPCs
    <2>2. pc' = [p EXCEPT ![Main] = "load"]
      BY <1>2, ThreadFacts DEF CreateThread, TypeInv, PcType
    <2>3. PcType(pc') /\ pc'[Main] = "load" /\ NoneKept(pc') /\ pc'[w] = "top"
      BY <2>1, <2>2, ThreadFacts DEF PcType, NoneKept, MainPCs
    <2>4. DataType' /\ hnd' = hnd /\ counter' = counter /\ counter \in Int
      BY <1>2 DEF CreateThread, TypeInv, DataType, queueVars, localVars
    <2>5. counter < w
      BY <1>2 DEF CreateThread, At, TypeInv, CreationBound
    <2>6. ASSUME NEW u \in Workers, pc'[u] = "none" PROVE u > w
      <3>1. pc[u] = "none" /\ u # w
        BY <2>3, <2>6 DEF NoneKept
      <3>2. \A v \in 1..(w-1) : pc[v] # "none"
        BY <1>2 DEF CreateThread
      <3> QED BY <3>1, <3>2 DEF Workers
    <2>7. CreationBound'
      BY <2>3, <2>4, <2>5, <2>6 DEF CreationBound, Workers
    <2>8. Armed'
      BY <1>2, <2>3, <2>4 DEF CreateThread, At, TypeInv, Armed, Creating
    <2> QED BY <2>3, <2>4, <2>7, <2>8 DEF TypeInv
  <1>3. CASE LoadCounter
    <2>1. PcType(pc') /\ pc'[Main] = "store" /\ NoneKept(pc')
      BY <1>3, GotoMain DEF LoadCounter, At, Goto, TypeInv, MainPCs
    <2>2. DataType' /\ hnd' = hnd /\ reg' = counter
      BY <1>3 DEF LoadCounter, TypeInv, DataType, queueVars, localVars
    <2>3. CreationBound'
      BY <1>3, <2>1, <2>2 DEF LoadCounter, At, TypeInv, CreationBound, NoneKept
    <2>4. Armed'
      BY <1>3, <2>1, <2>2 DEF LoadCounter, At, TypeInv, Armed, Creating
    <2> QED BY <2>1, <2>2, <2>3, <2>4 DEF TypeInv
  <1>4. CASE StoreCounter
    <2>1. PcType(pc') /\ pc'[Main] = "create" /\ NoneKept(pc')
      BY <1>4, GotoMain DEF StoreCounter, At, Goto, TypeInv, MainPCs
    <2>2. hnd' = hnd /\ counter' = reg + 1 /\ reg < MaxThreads /\ reg \in Int
      BY <1>4 DEF StoreCounter, At, TypeInv, DataType, CreationBound
    <2>3. DataType'
      BY <1>4, <2>2 DEF StoreCounter, TypeInv, DataType, queueVars, localVars
    <2>4. CreationBound'
      BY <1>4, <2>1, <2>2 DEF StoreCounter, At, TypeInv, CreationBound, NoneKept
    <2>5. Armed'
      BY <1>4, <2>1, <2>2 DEF StoreCounter, At, TypeInv, Armed, Creating
    <2> QED BY <2>1, <2>3, <2>4, <2>5 DEF TypeInv
  <1>5. CASE InitDone \/ LoginLock \/ timers_init \/ DestroyEnter \/ DestroyLock \/ DestroyWait
              \/ DestroyWake \/ DestroyDrained \/ DestroyFree
    <2>1. DataType' /\ hnd' = hnd
      BY <1>5, ThreadFacts DEF InitDone, LoginLock, timers_init, DestroyEnter, DestroyLock,
         DestroyWait, DestroyWake, DestroyDrained, DestroyFree, condition_lock,
         condition_unlock, TypeInv, DataType, TaskStates, queueVars, localVars
    <2>2. \E l \in MainPCs \ {"create", "load", "store"} :
            Goto(Main, l) /\ (l \in Creating => pc[Main] \in Creating)
      BY <1>5 DEF InitDone, LoginLock, timers_init, DestroyEnter, DestroyLock,
         DestroyWait, DestroyWake, DestroyDrained, DestroyFree, At, MainPCs, Creating
    <2> QED BY <2>1, <2>2, MainStep
  <1>6. CASE LoginAdd
    <2> DEFINE p == [pc EXCEPT ![Main] = "arm"]
    <2>1. PcType(p) /\ p[Main] = "arm" /\ NoneKept(p)
      BY GotoMain DEF TypeInv, MainPCs
    <2>2. hnd' = hnd /\ pc[Main] \in Creating /\ threadpool_add_task(p)
      BY <1>6 DEF LoginAdd, At, Creating
    <2>3. DataType' /\ PcType(pc') /\ NoneKept(pc') /\ pc'[Main] = "arm"
      BY <2>1, <2>2, AddTaskData DEF TypeInv, DataType
    <2> QED BY <2>2, <2>3, PlainStep DEF Creating
  <1>7. CASE DestroyBody
    <2> DEFINE b == condition_broadcast(pc)
    <2>1. PcType(b) /\ NoneKept(b)
      BY BroadcastType, ThreadFacts DEF TypeInv, PcType, NoneKept, WorkerPCs, MainPCs
    <2>2. ASSUME NEW p, PcType(p), NoneKept(p), NEW l \in {"join", "drain", "dfree"},
                 pc' = [p EXCEPT ![Main] = l]
          PROVE  PcType(pc') /\ NoneKept(pc') /\ pc'[Main] \notin Creating
      <3>1. l \in MainPCs \ Creating
        BY DEF MainPCs, Creating
      <3> QED BY <2>2, <3>1, ThreadFacts DEF PcType, NoneKept
    <2>3. PcType(pc') /\ NoneKept(pc') /\ pc'[Main] \notin Creating
      BY <1>7, <2>1, <2>2 DEF DestroyBody, TypeInv, NoneKept
    <2>4. DataType' /\ hnd' = hnd
      BY <1>7 DEF DestroyBody, TypeInv, DataType, queueVars, localVars
    <2> QED BY <2>3, <2>4, PlainStep
  <1>8. ASSUME NEW t \in Threads, Alarm(t) PROVE TypeInv'
    <2>1. /\ DataType' /\ pc' = pc /\ reg' = reg /\ counter' = counter
      BY <1>8 DEF Alarm, TypeInv, DataType, queueVars, localVars
    <2>2. pc[Main] \notin Creating
      BY <1>8 DEF Alarm, TimerArmed, Creating
    <2> QED BY <2>1, <2>2 DEF TypeInv, CreationBound, Armed
  <1>9. ASSUME NEW t \in Threads, HandlerLock(t) PROVE TypeInv'
    <2>1. /\ DataType' /\ pc' = pc /\ reg' = reg /\ counter' = counter
      BY <1>9 DEF HandlerLock, condition_lock, TypeInv, DataType, queueVars, localVars
    <2>2. pc[Main] \notin Creating
      BY <1>9 DEF HandlerLock, TypeInv, Armed, Creating
    <2> QED BY <2>1, <2>2 DEF TypeInv, CreationBound, Armed
  <1>10. ASSUME NEW t \in Threads, HandlerAdd(t) PROVE TypeInv'
    <2>1. pc[Main] \notin Creating
      BY <1>10 DEF HandlerAdd, TypeInv, Armed, Creating
    <2>2. hnd' \in [Threads -> {"none", "lock", "body"}] /\ threadpool_add_task(pc)
      BY <1>10 DEF HandlerAdd, TypeInv, DataType
    <2>3. DataType' /\ PcType(pc') /\ NoneKept(pc') /\ pc'[Main] \notin Creating
      BY <2>1, <2>2, AddTaskData DEF TypeInv, NoneKept, Creating
    <2> QED BY <2>3 DEF TypeInv, CreationBound, Armed, Creating
  <1>11. ASSUME NEW w \in Workers,
                TopLock(w) \/ Wait(w) \/ WaitExpires(w) \/ SpuriousWakeup(w) \/ WakeLock(w)
                  \/ TimeoutLock(w) \/ TakeTask(w) \/ FinishTask(w) \/ Relock(w)
         PROVE TypeInv'
    <2>1. hnd' = hnd /\ reg' = reg /\ counter' = counter
      BY <1>11 DEF TopLock, Wait, WaitExpires, SpuriousWakeup, WakeLock, TimeoutLock,
         TakeTask, FinishTask, Relock
    <2>2. \E l \in WorkerPCs \ {"none"} : Goto(w, l)
      BY <1>11 DEF TopLock, Wait, WaitExpires, SpuriousWakeup, WakeLock, TimeoutLock,
         TakeTask, FinishTask, Relock, WorkerPCs
    <2>3. CASE TopLock(w) \/ Wait(w) \/ WaitExpires(w) \/ SpuriousWakeup(w) \/ WakeLock(w)
                  \/ TimeoutLock(w) \/ Relock(w)
      <3>1. /\ UNCHANGED <<queueVars, quit, task, reg, counter, hnd>>
            /\ owner' \in {owner, w, NoThread}
            /\ idle' \in {idle, idle + 1}
            /\ timeout' = timeout \/ \E b \in BOOLEAN : timeout' = [timeout EXCEPT ![w] = b]
        BY <2>3 DEF TopLock, Wait, WaitExpires, SpuriousWakeup, WakeLock,
           TimeoutLock, Relock, condition_lock, condition_unlock, localVars
      <3>2. DataType'
        BY <3>1, ThreadFacts DEF TypeInv, DataType, queueVars
      <3> QED BY <2>1, <2>2, <3>2, WorkerStep
    <2>4. CASE TakeTask(w)
      <3>1. first \in Tasks
        BY <2>4 DEF TakeTask, TypeInv, DataType
      <3>2. DataType'
        BY <2>4, <3>1 DEF TakeTask, condition_unlock, TypeInv, DataType, TaskStates
      <3> QED BY <2>1, <2>2, <3>2, WorkerStep
    <2>5. CASE FinishTask(w)
      <3>1. DataType'
        BY <2>5 DEF FinishTask, TypeInv, DataType, TaskStates, localVars
      <3> QED BY <2>1, <2>2, <3>1, WorkerStep
    <2> QED BY <1>11, <2>3, <2>4, <2>5
  <1>12. ASSUME NEW w \in Workers, LeaveEmpty(w) \/ Round(w) PROVE TypeInv'
    BY <1>12, EndRoundType DEF LeaveEmpty, Round, TypeInv, DataType
  <1> QED
    BY <1>1, <1>2, <1>3, <1>4, <1>5, <1>6, <1>7, <1>8, <1>9, <1>10, <1>11, <1>12
    DEF Next, main, threadpool_init, threadpool_destroy, handler, thread_routine

(***************************************************************************)
(* Every variable of the pool keeps its range, whatever the number of      *)
(* workers and tasks.                                                      *)
(***************************************************************************)
THEOREM TypeCorrect == Spec => []TypeOK
PROOF
  <1>1. TypeInv => TypeOK
    BY TypeParts DEF TypeInv
  <1> QED BY <1>1, TypeInit, TypeNext, PTL DEF Spec

-----------------------------------------------------------------------------
(***************************************************************************)
(* The queue.  A task a worker runs must be told from those that wait, so  *)
(* QueueLinked is inductive only together with TaskHeldByOneWorker.        *)
(***************************************************************************)
QueueInv == QueueLinked /\ TaskHeldByOneWorker

NoNewRun(p) == \A w \in Workers : p[w] = "run" => pc[w] = "run"

LEMMA SignalNoNewRun ==
  ASSUME NEW p, PcType(p), NoNewRun(p), NEW q \in condition_signal(p)
  PROVE  NoNewRun(q)
BY SignalType, ThreadFacts DEF PcType, NoNewRun

LEMMA QueueStutter ==
  ASSUME QueueInv, UNCHANGED <<queueVars, task>>, NoNewRun(pc')
  PROVE  QueueInv'
PROOF
  <1>1. QueueLinked'
    BY DEF QueueInv, QueueLinked, queueVars
  <1>2. TaskHeldByOneWorker'
    BY DEF QueueInv, TaskHeldByOneWorker, queueVars, NoNewRun
  <1> QED BY <1>1, <1>2 DEF QueueInv

(***************************************************************************)
(* threadpool_add_task is TaskQueue's Submit and keeps the chain.          *)
(***************************************************************************)
LEMMA QueueAdd ==
  ASSUME TypeInv, QueueInv, NEW p, PcType(p), NoNewRun(p), threadpool_add_task(p)
  PROVE  QueueInv' /\ TQ!Submit
PROOF
  <1> DEFINE new == added + 1
  <1>1. /\ new \in Tasks /\ added \in Nat /\ Tasks \subseteq Nat \ {NULL}
        /\ first \in Tasks \cup {NULL}
        /\ next \in [Tasks -> Tasks \cup {NULL}] /\ tstate \in [Tasks -> TaskStates]
    BY PoolAssumption DEF threadpool_add_task, TypeInv, DataType, Tasks, NULL
  <1>2. /\ added' = new /\ last' = new /\ tstate' = [tstate EXCEPT ![new] = "queued"]
        /\ first' = IF first = NULL THEN new ELSE first
        /\ next' = IF first = NULL THEN next ELSE [next EXCEPT ![last] = new]
        /\ task' = task
    BY DEF threadpool_add_task, Link, localVars
  <1>3. TQ!Submit
    BY <1>2 DEF threadpool_add_task, TQ!Submit
  <1>4. tstate[new] = "new" /\ next[new] = NULL
    BY <1>1 DEF QueueInv, QueueLinked
  <1>5. QueueLinked'
    <2>1. CASE first = NULL
      BY <2>1, <1>1, <1>2, <1>4 DEF QueueInv, QueueLinked
    <2>2. CASE first # NULL
      <3>0. last = added /\ first <= last /\ next[last] = NULL
        BY <2>2 DEF QueueInv, QueueLinked
      <3>1. /\ last \in Tasks
            /\ \A t \in Tasks : tstate[t] = "queued" <=> first <= t /\ t <= last
            /\ \A t \in Tasks : first <= t /\ t < last => next[t] = t + 1
            /\ \A t \in Tasks : t > added => tstate[t] = "new" /\ next[t] = NULL
        <4>1. last \in Tasks
          <5>1. first >= 1 /\ added + 1 <= MaxTasks /\ first \in Nat /\ MaxTasks \in Nat
            BY <2>2, <1>1, PoolAssumption DEF Tasks
          <5> QED BY <5>1, <3>0, <1>1 DEF Tasks
        <4> QED BY <2>2, <4>1 DEF QueueInv, QueueLinked
      <3>2. /\ first' = first /\ \A t \in Tasks : next'[t] = IF t = last THEN new ELSE next[t]
            /\ \A t \in Tasks : tstate'[t] = IF t = new THEN "queued" ELSE tstate[t]
        BY <2>2, <1>1, <1>2
      <3> QED BY <1>1, <1>2, <1>4, <3>0, <3>1, <3>2 DEF QueueLinked
    <2> QED BY <2>1, <2>2
  <1>6. NoNewRun(pc')
    BY SignalNoNewRun DEF threadpool_add_task, Announce
  <1>7. TaskHeldByOneWorker'
    BY <1>1, <1>2, <1>4, <1>6 DEF QueueInv, TaskHeldByOneWorker, NoNewRun
  <1> QED BY <1>3, <1>5, <1>7 DEF QueueInv

(***************************************************************************)
(* A worker takes the head of the chain, which is the oldest task waiting. *)
(***************************************************************************)
LEMMA QueueTake ==
  ASSUME TypeInv, QueueInv, NEW w \in Workers, TakeTask(w)
  PROVE  QueueInv' /\ TQ!Take(first)
PROOF
  <1>1. /\ first \in Tasks /\ Tasks \subseteq Nat \ {NULL} /\ added \in Nat
        /\ next \in [Tasks -> Tasks \cup {NULL}] /\ tstate \in [Tasks -> TaskStates]
        /\ task \in [Workers -> Tasks \cup {NULL}] /\ PcType(pc)
    BY PoolAssumption DEF TakeTask, TypeInv, DataType, Tasks, NULL
  <1>2. /\ tstate' = [tstate EXCEPT ![first] = "running"] /\ first' = next[first]
        /\ UNCHANGED <<last, next, added>>
        /\ task' = [task EXCEPT ![w] = first] /\ pc' = [pc EXCEPT ![w] = "run"]
    BY DEF TakeTask, Goto
  <1>3. /\ last = added /\ first <= last /\ next[last] = NULL /\ last \in Tasks
        /\ \A t \in Tasks : tstate[t] = "queued" <=> first <= t /\ t <= last
        /\ \A t \in Tasks : first <= t /\ t < last => next[t] = t + 1
        /\ \A t \in Tasks : t > added => tstate[t] = "new" /\ next[t] = NULL
    BY <1>1 DEF QueueInv, QueueLinked, TypeInv, DataType, Tasks, NULL
  <1>4. \A t \in Tasks : tstate'[t] = IF t = first THEN "running" ELSE tstate[t]
    BY <1>1, <1>2
  <1>5. QueueLinked'
    <2>1. CASE first = last
      <3>1. first' = NULL
        BY <2>1, <1>1, <1>2, <1>3
      <3>2. \A t \in Tasks : tstate'[t] # "queued"
        BY <2>1, <1>1, <1>3, <1>4
      <3>3. \A t \in Tasks : t > added => t # first
        BY <1>1, <1>3
      <3> QED BY <3>1, <3>2, <3>3, <1>2, <1>3, <1>4 DEF QueueLinked
    <2>2. CASE first < last
      <3>1. first' = first + 1 /\ first' # NULL
        BY <2>2, <1>1, <1>2, <1>3 DEF NULL
      <3> QED BY <2>2, <3>1, <1>1, <1>2, <1>3, <1>4 DEF QueueLinked
    <2> QED BY <2>1, <2>2, <1>1, <1>3
  <1>6. TQ!Take(first)
    <2>1. tstate[first] = "queued"
      BY <1>1, <1>3
    <2>2. \A u \in 1..(first-1) : tstate[u] # "queued"
      <3>1. \A u \in 1..(first-1) : u \in Tasks /\ u < first
        BY <1>1, PoolAssumption DEF Tasks
      <3> QED BY <3>1, <1>1, <1>3
    <2> QED BY <2>1, <2>2, <1>2 DEF TQ!Take
  <1>7. TaskHeldByOneWorker'
    <2>1. tstate[first] = "queued"
      BY <1>1, <1>3
    <2>2. \A v \in Workers : pc'[v] = "run" => v = w \/ pc[v] = "run"
      BY <1>1, <1>2, ThreadFacts DEF PcType
    <2>3. \A v \in Workers : task'[v] = IF v = w THEN first ELSE task[v]
      BY <1>1, <1>2
    <2>4. \A v \in Workers : pc[v] = "run" => task[v] # first
      BY <2>1 DEF QueueInv, TaskHeldByOneWorker
    <2> SUFFICES ASSUME NEW v \in Workers, pc'[v] = "run"
                 PROVE  /\ task'[v] \in Tasks /\ tstate'[task'[v]] = "running"
                        /\ \A u \in Workers \ {v} : pc'[u] = "run" => task'[u] # task'[v]
      BY DEF TaskHeldByOneWorker
    <2>5. CASE v = w
      BY <2>5, <1>1, <1>4, <2>2, <2>3, <2>4
    <2>6. CASE v # w
      <3>1. pc[v] = "run" /\ task'[v] = task[v]
        BY <2>6, <2>2, <2>3
      <3>2. task[v] \in Tasks /\ tstate[task[v]] = "running" /\ task[v] # first
        BY <3>1, <2>4 DEF QueueInv, TaskHeldByOneWorker
      <3>3. \A u \in Workers \ {v} : pc'[u] = "run" => task'[u] # task'[v]
        BY <3>1, <3>2, <2>2, <2>3 DEF QueueInv, TaskHeldByOneWorker
      <3> QED BY <3>1, <3>2, <3>3, <1>4
    <2> QED BY <2>5, <2>6
  <1> QED BY <1>5, <1>6, <1>7 DEF QueueInv

LEMMA QueueFinish ==
  ASSUME TypeInv, QueueInv, NEW w \in Workers, FinishTask(w)
  PROVE  QueueInv' /\ task[w] \in Tasks /\ TQ!Finish(task[w])
PROOF
  <1>1. /\ Tasks \subseteq Nat \ {NULL} /\ tstate \in [Tasks -> TaskStates] /\ PcType(pc)
        /\ task[w] \in Tasks /\ tstate[task[w]] = "running"
        /\ \A v \in Workers \ {w} : pc[v] = "run" => task[v] # task[w]
    BY DEF FinishTask, At, TypeInv, DataType, Tasks, NULL, QueueInv, TaskHeldByOneWorker
  <1>2. /\ tstate' = [tstate EXCEPT ![task[w]] = "freed"]
        /\ UNCHANGED <<first, last, next, added, task>> /\ pc' = [pc EXCEPT ![w] = "relock"]
    BY DEF FinishTask, Goto, localVars
  <1>3. \A t \in Tasks : tstate'[t] = "queued" <=> tstate[t] = "queued"
    BY <1>1, <1>2
  <1>4. \A t \in Tasks : tstate[t] = "new" => tstate'[t] = "new"
    BY <1>1, <1>2
  <1>5. QueueLinked'
    BY <1>2, <1>3, <1>4 DEF QueueInv, QueueLinked
  <1>6. \A v \in Workers : pc'[v] = "run" => pc[v] = "run" /\ v # w
    BY <1>1, <1>2, ThreadFacts DEF PcType
  <1>7. TaskHeldByOneWorker'
    BY <1>1, <1>2, <1>6 DEF QueueInv, TaskHeldByOneWorker
  <1>8. TQ!Finish(task[w])
    BY <1>1, <1>2 DEF TQ!Finish
  <1> QED BY <1>1, <1>5, <1>7, <1>8 DEF QueueInv

LEMMA QueueFree ==
  ASSUME TypeInv, QueueInv, DestroyFree
  PROVE  QueueInv' /\ TQ!Abandon
PROOF
  <1>1. /\ tstate' = [t \in Tasks |-> IF tstate[t] = "queued" THEN "freed" ELSE tstate[t]]
        /\ first' = NULL /\ UNCHANGED <<last, next, added, task>>
        /\ NoNewRun(pc')
    BY ThreadFacts DEF DestroyFree, Goto, localVars, NoNewRun, TypeInv, PcType
  <1>2. QueueLinked'
    BY <1>1 DEF QueueInv, QueueLinked
  <1>3. TaskHeldByOneWorker'
    BY <1>1 DEF QueueInv, TaskHeldByOneWorker, NoNewRun
  <1> QED BY <1>1, <1>2, <1>3 DEF QueueInv, TQ!Abandon, TQ!Tasks, Tasks

LEMMA QueueInit == Init => QueueInv /\ TQ!Init
BY ThreadFacts DEF Init, QueueInv, QueueLinked, TaskHeldByOneWorker, Tasks, NULL,
   TQ!Init, TQ!Tasks

(***************************************************************************)
(* Every other step leaves the queue, and who runs what, as they are.      *)
(***************************************************************************)
LEMMA QueueOther ==
  ASSUME TypeInv, [Next]_vars,
         ~LoginAdd, ~DestroyFree, \A t \in Threads : ~HandlerAdd(t),
         \A w \in Workers : ~TakeTask(w) /\ ~FinishTask(w)
  PROVE  UNCHANGED <<queueVars, task>> /\ NoNewRun(pc')
PROOF
  <1> USE ThreadFacts
  <1>0. PcType(pc) /\ NoNewRun(pc)
    BY DEF TypeInv, NoNewRun
  <1>1. CASE UNCHANGED vars
    BY <1>1 DEF vars, localVars, NoNewRun
  <1>2. ASSUME NEW w \in Workers, CreateThread(w)
        PROVE  UNCHANGED <<queueVars, task>> /\ NoNewRun(pc')
    BY <1>0, <1>2 DEF CreateThread, NoNewRun, PcType, localVars
  <1>3. CASE LoadCounter \/ StoreCounter \/ InitDone \/ LoginLock \/ timers_init \/ DestroyEnter
             \/ DestroyLock \/ DestroyWait \/ DestroyWake \/ DestroyDrained
    <2>1. UNCHANGED <<queueVars, task>> /\ \E l : Goto(Main, l)
      BY <1>3 DEF LoadCounter, StoreCounter, InitDone, LoginLock, timers_init, DestroyEnter,
         DestroyLock, DestroyWait, DestroyWake, DestroyDrained, localVars
    <2> QED BY <2>1, <1>0 DEF Goto, NoNewRun, PcType
  <1>4. CASE DestroyBody
    <2> DEFINE b == condition_broadcast(pc)
    <2>1. \A w \in Workers : b[w] = pc[w] \/ b[w] \in {"woken", "dwoken"}
      BY <1>0, BroadcastType DEF PcType
    <2>2. b \in [Threads -> WorkerPCs \cup MainPCs]
      BY <1>0, BroadcastType DEF PcType
    <2>3. \A w \in Workers : pc'[w] = pc[w] \/ pc'[w] = b[w]
      BY <1>4, <1>0, <2>2 DEF DestroyBody, PcType
    <2> QED BY <1>4, <2>1, <2>3 DEF DestroyBody, NoNewRun, localVars
  <1>5. ASSUME NEW t \in Threads, Alarm(t) \/ HandlerLock(t)
        PROVE  UNCHANGED <<queueVars, task>> /\ NoNewRun(pc')
    BY <1>5 DEF Alarm, HandlerLock, NoNewRun, localVars
  <1>6. ASSUME NEW w \in Workers,
               TopLock(w) \/ Wait(w) \/ WaitExpires(w) \/ SpuriousWakeup(w) \/ WakeLock(w)
                 \/ TimeoutLock(w) \/ Relock(w)
        PROVE  UNCHANGED <<queueVars, task>> /\ NoNewRun(pc')
    <2>1. UNCHANGED <<queueVars, task>>
      BY <1>6 DEF TopLock, Wait, WaitExpires, SpuriousWakeup, WakeLock, TimeoutLock, Relock,
         localVars
    <2>2. \E l : l # "run" /\ Goto(w, l)
      BY <1>6 DEF TopLock, Wait, WaitExpires, SpuriousWakeup, WakeLock, TimeoutLock, Relock
    <2> QED BY <2>1, <2>2, <1>0 DEF Goto, NoNewRun, PcType
  <1>7. ASSUME NEW w \in Workers, LeaveEmpty(w) \/ Round(w)
        PROVE  UNCHANGED <<queueVars, task>> /\ NoNewRun(pc')
    <2> DEFINE p == [pc EXCEPT ![w] = "exited"]
    <2>1. EndRound(w)
      BY <1>7 DEF LeaveEmpty, Round
    <2>2. PcType(p) /\ NoNewRun(p)
      BY <1>0, GotoWorker DEF NoNewRun, PcType, WorkerPCs
    <2>3. pc' = p \/ pc' \in condition_signal(p) \/ Goto(w, "top")
      BY <2>1 DEF EndRound, Goto
    <2>4. NoNewRun(pc')
      BY <1>0, <2>2, <2>3, SignalNoNewRun DEF Goto, NoNewRun, PcType
    <2> QED BY <2>1, <2>4 DEF EndRound, localVars
  <1> QED
    BY <1>1, <1>2, <1>3, <1>4, <1>5, <1>6, <1>7
    DEF Next, main, threadpool_init, threadpool_destroy, handler, thread_routine

LEMMA QueueNext ==
  TypeInv /\ QueueInv /\ [Next]_vars => QueueInv' /\ [TQ!Next]_<<added, tstate>>
PROOF
  <1> SUFFICES ASSUME TypeInv, QueueInv, [Next]_vars
               PROVE  QueueInv' /\ [TQ!Next]_<<added, tstate>>
    OBVIOUS
  <1>0. PcType(pc) /\ NoNewRun(pc) /\ TQ!Tasks = Tasks
    BY DEF TypeInv, NoNewRun, TQ!Tasks, Tasks
  <1>1. CASE LoginAdd
    <2>1. PcType([pc EXCEPT ![Main] = "arm"]) /\ NoNewRun([pc EXCEPT ![Main] = "arm"])
      BY <1>0, GotoMain, ThreadFacts DEF MainPCs, NoNewRun, PcType
    <2> QED BY <1>1, <2>1, QueueAdd DEF LoginAdd, TQ!Next
  <1>2. ASSUME NEW t \in Threads, HandlerAdd(t)
        PROVE  QueueInv' /\ [TQ!Next]_<<added, tstate>>
    BY <1>0, <1>2, QueueAdd DEF HandlerAdd, TQ!Next
  <1>3. ASSUME NEW w \in Workers, TakeTask(w)
        PROVE  QueueInv' /\ [TQ!Next]_<<added, tstate>>
    <2>1. first \in Tasks
      BY <1>3 DEF TakeTask, TypeInv, DataType
    <2> QED BY <1>0, <1>3, <2>1, QueueTake DEF TQ!Next
  <1>4. ASSUME NEW w \in Workers, FinishTask(w)
        PROVE  QueueInv' /\ [TQ!Next]_<<added, tstate>>
    BY <1>0, <1>4, QueueFinish DEF TQ!Next
  <1>5. CASE DestroyFree
    BY <1>5, QueueFree DEF TQ!Next
  <1>6. CASE /\ ~LoginAdd /\ ~DestroyFree /\ \A t \in Threads : ~HandlerAdd(t)
             /\ \A w \in Workers : ~TakeTask(w) /\ ~FinishTask(w)
    BY <1>6, QueueOther, QueueStutter DEF queueVars
  <1> QED BY <1>1, <1>2, <1>3, <1>4, <1>5, <1>6

(***************************************************************************)
(* The chain from first to last holds exactly the waiting tasks, in order. *)
(***************************************************************************)
THEOREM QueueAlwaysLinked == Spec => []QueueLinked
PROOF
  <1>1. Init => TypeInv /\ QueueInv
    BY TypeInit, QueueInit
  <1>2. TypeInv /\ QueueInv /\ [Next]_vars => TypeInv' /\ QueueInv'
    BY TypeNext, QueueNext
  <1>3. QueueInv => QueueLinked
    BY DEF QueueInv
  <1> QED BY <1>1, <1>2, <1>3, PTL DEF Spec

(***************************************************************************)
(* No task is ever run by two workers, nor freed under the one running it. *)
(***************************************************************************)
THEOREM TaskNeverShared == Spec => []TaskHeldByOneWorker
PROOF
  <1>1. Init => TypeInv /\ QueueInv
    BY TypeInit, QueueInit
  <1>2. TypeInv /\ QueueInv /\ [Next]_vars => TypeInv' /\ QueueInv'
    BY TypeNext, QueueNext
  <1>3. QueueInv => TaskHeldByOneWorker
    BY DEF QueueInv
  <1> QED BY <1>1, <1>2, <1>3, PTL DEF Spec

(***************************************************************************)
(* The pool implements the first-in, first-out task queue: threads, locks, *)
(* signals and timeouts are invisible to whoever submits the tasks.        *)
(***************************************************************************)
THEOREM PoolImplementsTaskQueue == Spec => ImplementsTaskQueue
PROOF
  <1>1. Init => TypeInv /\ QueueInv /\ TQ!Init
    BY TypeInit, QueueInit
  <1>2. TypeInv /\ QueueInv /\ [Next]_vars
          => TypeInv' /\ QueueInv' /\ [TQ!Next]_<<added, tstate>>
    BY TypeNext, QueueNext
  <1> QED BY <1>1, <1>2, PTL DEF Spec, ImplementsTaskQueue, TQ!Spec

-----------------------------------------------------------------------------
(***************************************************************************)
(* The numbers the pool keeps: idle and counter against the workers they   *)
(* stand for, and the signals against the tasks that wait.                 *)
(***************************************************************************)

(***************************************************************************)
(* The workers whose place in p is in S, and those that run.               *)
(***************************************************************************)
InP(p, S) == {w \in Workers : p[w] \in S}

LiveP(p) == {w \in Workers : p[w] \notin {"none", "exited"}}

Awake == IdlePCs \ {"wait"}

LEMMA Places ==
  /\ \A S : In(S) = InP(pc, S) /\ In(S)' = InP(pc', S)
  /\ Live = LiveP(pc) /\ Live' = LiveP(pc')
BY DEF In, InP, Live, LiveP

(***************************************************************************)
(* Sets of workers and of tasks are finite and counted one by one.         *)
(***************************************************************************)
LEMMA CountWorkers ==
  ASSUME NEW A \in SUBSET Workers
  PROVE  IsFiniteSet(A) /\ Cardinality(A) \in Nat /\ (Cardinality(A) = 0 <=> A = {})
PROOF
  <1>1. IsFiniteSet(Workers)
    BY FS_Interval, PoolAssumption DEF Workers
  <1>2. IsFiniteSet(A)
    BY <1>1, FS_Subset
  <1> QED BY <1>2, FS_CardinalityType, FS_EmptySet

LEMMA CountAdded ==
  ASSUME NEW A \in SUBSET Workers, NEW w, w \notin A
  PROVE  Cardinality(A \cup {w}) = Cardinality(A) + 1
BY CountWorkers, FS_AddElement

LEMMA CountRemoved ==
  ASSUME NEW A \in SUBSET Workers, NEW w \in A
  PROVE  Cardinality(A \ {w}) = Cardinality(A) - 1
BY CountWorkers, FS_RemoveElement

LEMMA CountMonotone ==
  ASSUME NEW B \in SUBSET Workers, NEW A \in SUBSET B
  PROVE  Cardinality(A) <= Cardinality(B)
BY CountWorkers, FS_Subset

LEMMA CountTasks ==
  ASSUME NEW Q \in SUBSET Tasks
  PROVE  IsFiniteSet(Q) /\ Cardinality(Q) \in Nat /\ (Q = {} => Cardinality(Q) = 0)
PROOF
  <1>1. IsFiniteSet(Tasks)
    BY FS_Interval, PoolAssumption DEF Tasks
  <1>2. IsFiniteSet(Q)
    BY <1>1, FS_Subset
  <1> QED BY <1>2, FS_CardinalityType, FS_EmptySet

(***************************************************************************)
(* A step moves at most one worker by its own code, and wakes others.      *)
(***************************************************************************)
Nudged(p, q) == \A w \in Workers : q[w] = p[w] \/ (p[w] = "wait" /\ q[w] = "woken")

LEMMA NudgedPlaces ==
  ASSUME NEW p, NEW q, Nudged(p, q)
  PROVE  /\ InP(q, IdlePCs) = InP(p, IdlePCs) /\ LiveP(q) = LiveP(p)
         /\ InP(q, {"wait"}) \subseteq InP(p, {"wait"})
         /\ InP(p, Awake) \subseteq InP(q, Awake)
BY DEF Nudged, InP, LiveP, IdlePCs, Awake

LEMMA SignalNudges ==
  ASSUME NEW p, PcType(p), NEW q \in condition_signal(p)
  PROVE  Nudged(p, q)
PROOF
  <1>1. "dwait" \notin WorkerPCs
    BY DEF WorkerPCs
  <1> QED BY <1>1, SignalType, ThreadFacts DEF PcType, Nudged

LEMMA MovedPlaces ==
  ASSUME PcType(pc), NEW w \in Workers, NEW l
  PROVE  LET q == [pc EXCEPT ![w] = l]
         IN  /\ \A S : InP(q, S) = IF l \in S THEN InP(pc, S) \cup {w} ELSE InP(pc, S) \ {w}
             /\ LiveP(q) = IF l \notin {"none", "exited"} THEN LiveP(pc) \cup {w}
                           ELSE LiveP(pc) \ {w}
BY ThreadFacts DEF PcType, InP, LiveP

(***************************************************************************)
(* The inductive invariant.  Covers is CounterCoversLive, in the form the  *)
(* provers take.  No worker waits once threadpool_destroy has looked at    *)
(* idle: only then may a signal meant for a worker reach main instead.     *)
(***************************************************************************)
Seen == IF pc[Main] = "load" THEN counter + 1
        ELSE IF pc[Main] = "store" THEN reg + 1 ELSE counter

Covers == Seen >= Cardinality(Live)

PastBroadcast == {"join", "drain", "dwait", "dwoken", "dfree", "destroyed"}

DestroyWakes ==
  /\ pc[Main] = "dbody" => quit
  /\ pc[Main] \in PastBroadcast => quit /\ In({"wait"}) = {}

CountInv ==
  IdleCount /\ Covers /\ DestroyWakes /\ NoLostWakeup /\ PoolFreedOnlyWhenWorkersGone

LEMMA SeenCovers == Covers <=> CounterCoversLive
BY DEF Covers, Seen, CounterCoversLive

LEMMA CountInit == Init => CountInv
PROOF
  <1> SUFFICES ASSUME Init PROVE CountInv
    OBVIOUS
  <1>1. /\ pc[Main] = "create" /\ \A w \in Workers : pc[w] = "none"
        /\ counter = 0 /\ idle = 0
    BY ThreadFacts DEF Init
  <1>2. In(IdlePCs) = {} /\ In({"wait"}) = {} /\ Live = {}
    BY <1>1 DEF In, IdlePCs, Live
  <1>3. Cardinality(In(IdlePCs)) = 0 /\ Cardinality(Live) = 0
    BY <1>2, FS_EmptySet
  <1>4. IdleCount /\ Covers
    BY <1>1, <1>3 DEF IdleCount, Covers, Seen
  <1>5. DestroyWakes /\ NoLostWakeup /\ PoolFreedOnlyWhenWorkersGone
    BY <1>1, <1>2 DEF DestroyWakes, PastBroadcast, NoLostWakeup, PoolFreedOnlyWhenWorkersGone
  <1> QED BY <1>4, <1>5 DEF CountInv

-----------------------------------------------------------------------------
(***************************************************************************)
(* What a step does to the places and to the numbers.  A step of a worker  *)
(* moves it to l, from where it may wake somebody else.                    *)
(***************************************************************************)
OwnStep(w) == thread_routine(w) \/ WaitExpires(w) \/ SpuriousWakeup(w)

MainKept == pc'[Main] = pc[Main] \/ (pc[Main] = "dwait" /\ pc'[Main] = "dwoken")

Moves(w, l) ==
  /\ Nudged([pc EXCEPT ![w] = l], pc') /\ MainKept
  /\ pc[w] \notin {"none", "exited"} /\ l # "none"
  /\ idle' = idle + (IF l \in IdlePCs THEN 1 ELSE 0) - (IF pc[w] \in IdlePCs THEN 1 ELSE 0)
  /\ counter' = counter - (IF l = "exited" THEN 1 ELSE 0)
  /\ reg' = reg /\ quit' = quit
  /\ l = "wait" => ~quit

LEMMA GotoMoves ==
  ASSUME PcType(pc), NEW w \in Workers, NEW l, Goto(w, l)
  PROVE  Nudged([pc EXCEPT ![w] = l], pc') /\ MainKept
BY ThreadFacts DEF PcType, Goto, Nudged, MainKept

LEMMA EndRoundMoves ==
  ASSUME TypeInv, NEW w \in Workers, EndRound(w)
  PROVE  \E l \in {"exited", "top"} :
           /\ Nudged([pc EXCEPT ![w] = l], pc') /\ MainKept
           /\ counter' = counter - (IF l = "exited" THEN 1 ELSE 0)
PROOF
  <1> DEFINE p == [pc EXCEPT ![w] = "exited"]
  <1>1. PcType(pc) /\ PcType(p) /\ p[Main] = pc[Main] /\ NoneKept(p)
    BY GotoWorker DEF TypeInv, WorkerPCs
  <1>2. \/ counter' = counter /\ Goto(w, "top")
        \/ counter' = counter - 1 /\ (pc' = p \/ pc' \in condition_signal(p))
    BY DEF EndRound, Goto
  <1>3. CASE counter' = counter /\ Goto(w, "top")
    <2>1. counter' = counter - (IF "top" = "exited" THEN 1 ELSE 0)
      BY <1>3 DEF TypeInv, DataType
    <2>2. Nudged([pc EXCEPT ![w] = "top"], pc') /\ MainKept
      BY <1>1, <1>3, GotoMoves
    <2> QED BY <2>1, <2>2
  <1>4. CASE counter' = counter - 1 /\ (pc' = p \/ pc' \in condition_signal(p))
    <2>1. Nudged(p, pc') /\ MainKept
      <3> HIDE DEF p
      <3>1. CASE pc' = p
        BY <1>1, <3>1 DEF MainKept, Nudged
      <3>2. CASE pc' \in condition_signal(p)
        BY <1>1, <3>2, SignalNudges, SignalPc DEF MainKept
      <3> QED BY <1>4, <3>1, <3>2
    <2> QED BY <1>4, <2>1
  <1> QED BY <1>2, <1>3, <1>4

LEMMA OwnStepMoves ==
  ASSUME TypeInv, NEW w \in Workers, OwnStep(w)
  PROVE  \E l : Moves(w, l)
PROOF
  <1>0. PcType(pc) /\ idle \in Int /\ counter \in Int
    BY DEF TypeInv, DataType
  <1>1. CASE TopLock(w)
    <2>1. Moves(w, "test")
      BY <1>0, <1>1, GotoMoves DEF TopLock, At, Moves, IdlePCs
    <2> QED BY <2>1
  <1>2. CASE Wait(w)
    <2>1. ~quit
      BY <1>2 DEF Wait, MustWait
    <2>2. Moves(w, "wait")
      BY <1>0, <1>2, <2>1, GotoMoves DEF Wait, At, Moves, IdlePCs
    <2> QED BY <2>2
  <1>3. CASE WaitExpires(w)
    <2>1. Moves(w, "timedout")
      BY <1>0, <1>3, GotoMoves DEF WaitExpires, Moves, IdlePCs
    <2> QED BY <2>1
  <1>4. CASE SpuriousWakeup(w)
    <2>1. Moves(w, "woken")
      BY <1>0, <1>4, GotoMoves DEF SpuriousWakeup, Moves, IdlePCs
    <2> QED BY <2>1
  <1>5. CASE WakeLock(w)
    <2>1. Moves(w, "test")
      BY <1>0, <1>5, GotoMoves DEF WakeLock, At, Moves, IdlePCs
    <2> QED BY <2>1
  <1>6. CASE TimeoutLock(w)
    <2>1. Moves(w, "leave")
      BY <1>0, <1>6, GotoMoves DEF TimeoutLock, At, Moves, IdlePCs
    <2> QED BY <2>1
  <1>7. CASE TakeTask(w)
    <2>1. pc[w] \in {"test", "leave"}
      BY <1>7 DEF TakeTask, OutOfLoop, At
    <2>2. Moves(w, "run")
      BY <1>0, <1>7, <2>1, GotoMoves DEF TakeTask, Moves, IdlePCs
    <2> QED BY <2>2
  <1>8. CASE LeaveEmpty(w)
    <2>1. pc[w] \in {"test", "leave"}
      BY <1>8 DEF LeaveEmpty, OutOfLoop, At
    <2>2. PICK l \in {"exited", "top"} :
            /\ Nudged([pc EXCEPT ![w] = l], pc') /\ MainKept
            /\ counter' = counter - (IF l = "exited" THEN 1 ELSE 0)
      BY <1>8, EndRoundMoves DEF LeaveEmpty
    <2>3. Moves(w, l)
      BY <1>0, <1>8, <2>1, <2>2 DEF LeaveEmpty, EndRound, Moves, IdlePCs
    <2> QED BY <2>3
  <1>9. CASE FinishTask(w)
    <2>1. Moves(w, "relock")
      BY <1>0, <1>9, GotoMoves DEF FinishTask, At, Moves, IdlePCs
    <2> QED BY <2>1
  <1>10. CASE Relock(w)
    <2>1. Moves(w, "round")
      BY <1>0, <1>10, GotoMoves DEF Relock, At, Moves, IdlePCs
    <2> QED BY <2>1
  <1>11. CASE Round(w)
    <2>1. PICK l \in {"exited", "top"} :
            /\ Nudged([pc EXCEPT ![w] = l], pc') /\ MainKept
            /\ counter' = counter - (IF l = "exited" THEN 1 ELSE 0)
      BY <1>11, EndRoundMoves DEF Round
    <2>2. Moves(w, l)
      BY <1>0, <1>11, <2>1 DEF Round, At, EndRound, Moves, IdlePCs
    <2> QED BY <2>2
  <1> QED
    BY <1>1, <1>2, <1>3, <1>4, <1>5, <1>6, <1>7, <1>8, <1>9, <1>10, <1>11
    DEF OwnStep, thread_routine

LEMMA MovesPlaces ==
  ASSUME PcType(pc), NEW w \in Workers, NEW l, Moves(w, l)
  PROVE  /\ InP(pc', IdlePCs) = IF l \in IdlePCs THEN InP(pc, IdlePCs) \cup {w}
                                ELSE InP(pc, IdlePCs) \ {w}
         /\ LiveP(pc') = IF l = "exited" THEN LiveP(pc) \ {w} ELSE LiveP(pc)
         /\ w \in LiveP(pc)
         /\ InP(pc', {"wait"}) \subseteq IF l = "wait" THEN InP(pc, {"wait"}) \cup {w}
                                        ELSE InP(pc, {"wait"}) \ {w}
         /\ (IF l \in Awake THEN InP(pc, Awake) \cup {w} ELSE InP(pc, Awake) \ {w})
              \subseteq InP(pc', Awake)
PROOF
  <1> DEFINE q == [pc EXCEPT ![w] = l]
  <1>1. /\ \A S : InP(q, S) = IF l \in S THEN InP(pc, S) \cup {w} ELSE InP(pc, S) \ {w}
        /\ LiveP(q) = IF l \notin {"none", "exited"} THEN LiveP(pc) \cup {w}
                      ELSE LiveP(pc) \ {w}
    BY MovedPlaces
  <1>2. Nudged(q, pc') /\ pc[w] \notin {"none", "exited"} /\ l # "none"
    BY DEF Moves
  <1> HIDE DEF q
  <1>3. /\ InP(pc', IdlePCs) = InP(q, IdlePCs) /\ LiveP(pc') = LiveP(q)
        /\ InP(pc', {"wait"}) \subseteq InP(q, {"wait"})
        /\ InP(q, Awake) \subseteq InP(pc', Awake)
    BY <1>2, NudgedPlaces
  <1>4. w \in LiveP(pc)
    BY <1>2 DEF LiveP
  <1>5. LiveP(pc') = IF l = "exited" THEN LiveP(pc) \ {w} ELSE LiveP(pc)
    <2>1. LiveP(q) = IF l # "exited" THEN LiveP(pc) \cup {w} ELSE LiveP(pc) \ {w}
      BY <1>1, <1>2
    <2>2. LiveP(pc) \cup {w} = LiveP(pc)
      BY <1>4
    <2> QED BY <1>3, <2>1, <2>2
  <1>6. InP(pc', IdlePCs) = IF l \in IdlePCs THEN InP(pc, IdlePCs) \cup {w}
                            ELSE InP(pc, IdlePCs) \ {w}
    BY <1>1, <1>3
  <1>7. InP(pc', {"wait"}) \subseteq IF l = "wait" THEN InP(pc, {"wait"}) \cup {w}
                                     ELSE InP(pc, {"wait"}) \ {w}
    BY <1>1, <1>3
  <1>8. (IF l \in Awake THEN InP(pc, Awake) \cup {w} ELSE InP(pc, Awake) \ {w})
          \subseteq InP(pc', Awake)
    BY <1>1, <1>3
  <1> QED BY <1>4, <1>5, <1>6, <1>7, <1>8

(***************************************************************************)
(* Every other step but CreateThread leaves the places, up to the signal a *)
(* new task sends; only threadpool_add_task changes counter then.          *)
(***************************************************************************)
Quiet == Nudged(pc, pc') /\ idle' = idle

MainAlone ==
  LoadCounter \/ StoreCounter \/ InitDone \/ LoginLock \/ timers_init \/ DestroyEnter
    \/ DestroyLock \/ DestroyWait \/ DestroyWake \/ DestroyDrained \/ DestroyFree

LEMMA MainAloneQuiet ==
  ASSUME TypeInv, MainAlone
  PROVE  Quiet
PROOF
  <1>1. idle' = idle /\ \E l : Goto(Main, l)
    BY DEF MainAlone, LoadCounter, StoreCounter, InitDone, LoginLock, timers_init, DestroyEnter,
       DestroyLock, DestroyWait, DestroyWake, DestroyDrained, DestroyFree
  <1> QED BY <1>1, ThreadFacts DEF Goto, Quiet, Nudged, TypeInv, PcType

LEMMA BroadcastNudges ==
  ASSUME PcType(pc)
  PROVE  /\ Nudged(pc, condition_broadcast(pc))
         /\ InP(condition_broadcast(pc), {"wait"}) = {}
         /\ condition_broadcast(pc) \in [Threads -> WorkerPCs \cup MainPCs]
PROOF
  <1>1. "dwait" \notin WorkerPCs
    BY DEF WorkerPCs
  <1>2. Nudged(pc, condition_broadcast(pc))
    BY <1>1, BroadcastType, ThreadFacts DEF PcType, Nudged
  <1>3. InP(condition_broadcast(pc), {"wait"}) = {}
    BY ThreadFacts DEF condition_broadcast, Blocked, Runnable, InP
  <1> QED BY <1>2, <1>3, BroadcastType DEF PcType

LEMMA DestroyBodyQuiet ==
  ASSUME TypeInv, DestroyBody
  PROVE  /\ Quiet /\ UNCHANGED <<counter, reg, quit, tstate>>
         /\ pc[Main] = "dbody" /\ pc'[Main] \in {"join", "drain", "dfree"}
         /\ pc'[Main] = "dfree" => ~(counter > 0)
         /\ In({"wait"})' = {} \/ (In({"wait"})' = In({"wait"}) /\ ~(counter > 0 /\ idle > 0))
PROOF
  <1>0. PcType(pc)
    BY DEF TypeInv
  <1>1. UNCHANGED <<idle, counter, reg, quit, tstate>> /\ pc[Main] = "dbody"
    BY DEF DestroyBody, At, queueVars
  <1>2. CASE counter > 0 /\ idle > 0
    <2> DEFINE b == condition_broadcast(pc)
    <2>1. pc' = [b EXCEPT ![Main] = "join"]
      BY <1>2 DEF DestroyBody
    <2>2. Nudged(pc, b) /\ InP(b, {"wait"}) = {} /\ b \in [Threads -> WorkerPCs \cup MainPCs]
      BY <1>0, BroadcastNudges
    <2> HIDE DEF b
    <2>3. Nudged(pc, pc') /\ InP(pc', {"wait"}) = {} /\ pc'[Main] = "join"
      BY <2>1, <2>2, ThreadFacts DEF Nudged, InP
    <2> QED BY <1>1, <2>3, Places DEF Quiet
  <1>3. CASE ~(counter > 0 /\ idle > 0)
    <2>1. /\ \A w \in Workers : pc'[w] = pc[w]
          /\ pc'[Main] = IF counter > 0 THEN "drain" ELSE "dfree"
      BY <1>0, <1>3, ThreadFacts DEF DestroyBody, PcType
    <2> QED BY <1>1, <1>3, <2>1 DEF Quiet, Nudged, In
  <1> QED BY <1>2, <1>3

LEMMA AddTaskQuiet ==
  ASSUME TypeInv, NEW p, PcType(p), \A w \in Workers : p[w] = pc[w], threadpool_add_task(p)
  PROVE  /\ Quiet /\ reg' = reg /\ quit' = quit
         /\ counter' \in Int /\ counter' >= counter
         /\ pc'[Main] = p[Main] \/ (p[Main] = "dwait" /\ pc'[Main] = "dwoken")
PROOF
  <1>1. pc' = p \/ pc' \in condition_signal(p)
    BY DEF threadpool_add_task, Announce
  <1>2. Nudged(pc, pc')
    BY <1>1, SignalNudges DEF Nudged
  <1>3. /\ UNCHANGED <<idle, reg, quit>> /\ counter \in Int
        /\ counter' = counter \/ counter' = counter + 1
    BY DEF threadpool_add_task, Announce, TypeInv, DataType
  <1>4. pc'[Main] = p[Main] \/ (p[Main] = "dwait" /\ pc'[Main] = "dwoken")
    BY <1>1, SignalType, ThreadFacts DEF PcType, MainPCs
  <1> QED BY <1>2, <1>3, <1>4 DEF Quiet

LEMMA QuietSteps ==
  ASSUME TypeInv, [Next]_vars, \A w \in Workers : ~CreateThread(w) /\ ~OwnStep(w)
  PROVE  Quiet
PROOF
  <1>1. CASE UNCHANGED vars
    BY <1>1 DEF vars, Quiet, Nudged
  <1>2. CASE MainAlone
    BY <1>2, MainAloneQuiet
  <1>3. CASE DestroyBody
    BY <1>3, DestroyBodyQuiet
  <1>4. CASE LoginAdd
    <2>1. /\ PcType([pc EXCEPT ![Main] = "arm"])
          /\ \A w \in Workers : [pc EXCEPT ![Main] = "arm"][w] = pc[w]
      BY GotoMain, ThreadFacts DEF TypeInv, PcType, MainPCs
    <2> QED BY <1>4, <2>1, AddTaskQuiet DEF LoginAdd
  <1>5. ASSUME NEW t \in Threads, Alarm(t) \/ HandlerLock(t)
        PROVE  Quiet
    BY <1>5 DEF Alarm, HandlerLock, Quiet, Nudged
  <1>6. ASSUME NEW t \in Threads, HandlerAdd(t)
        PROVE  Quiet
    BY <1>6, AddTaskQuiet DEF HandlerAdd, TypeInv
  <1> QED
    BY <1>1, <1>2, <1>3, <1>4, <1>5, <1>6
    DEF Next, main, threadpool_init, threadpool_destroy, handler, OwnStep, MainAlone

(***************************************************************************)
(* CreateThread only turns a worker that is nowhere into one at the top.   *)
(***************************************************************************)
LEMMA CreatePlaces ==
  ASSUME TypeInv, NEW w \in Workers, CreateThread(w)
  PROVE  /\ \A S \in SUBSET (IdlePCs) : InP(pc', S) = InP(pc, S)
         /\ LiveP(pc') = LiveP(pc) \cup {w} /\ w \notin LiveP(pc)
         /\ pc[Main] = "create" /\ pc'[Main] = "load"
         /\ UNCHANGED <<idle, counter, reg, quit, tstate>>
PROOF
  <1>1. pc[w] = "none" /\ pc[Main] = "create" /\ UNCHANGED <<idle, counter, reg, quit, tstate>>
    BY DEF CreateThread, At, queueVars
  <1>2. /\ pc'[Main] = "load" /\ pc'[w] = "top"
        /\ \A v \in Workers \ {w} : pc'[v] = pc[v]
    BY ThreadFacts DEF CreateThread, TypeInv, PcType
  <1>3. "top" \notin IdlePCs /\ "none" \notin IdlePCs
    BY DEF IdlePCs
  <1> QED BY <1>1, <1>2, <1>3 DEF InP, LiveP

-----------------------------------------------------------------------------
(***************************************************************************)
(* idle is the number of workers between idle++ and idle--.                *)
(***************************************************************************)
LEMMA IdleNext ==
  ASSUME TypeInv, IdleCount, [Next]_vars
  PROVE  IdleCount'
PROOF
  <1> DEFINE A == InP(pc, IdlePCs)
             B == InP(pc', IdlePCs)
  <1>0. /\ A \in SUBSET Workers /\ B \in SUBSET Workers /\ PcType(pc)
        /\ Cardinality(A) \in Nat /\ idle = Cardinality(A)
        /\ (idle' = Cardinality(B)) => IdleCount'
    BY Places, CountWorkers DEF IdleCount, InP, TypeInv
  <1>1. CASE \A w \in Workers : ~CreateThread(w) /\ ~OwnStep(w)
    BY <1>0, <1>1, QuietSteps, NudgedPlaces DEF Quiet
  <1>2. ASSUME NEW w \in Workers, CreateThread(w)
        PROVE  IdleCount'
    BY <1>0, <1>2, CreatePlaces
  <1>3. ASSUME NEW w \in Workers, OwnStep(w)
        PROVE  IdleCount'
    <2>1. PICK l : Moves(w, l)
      BY <1>3, OwnStepMoves
    <2>2. B = IF l \in IdlePCs THEN A \cup {w} ELSE A \ {w}
      BY <1>0, <2>1, MovesPlaces
    <2>3. w \in A <=> pc[w] \in IdlePCs
      BY DEF InP
    <2> HIDE DEF A, B
    <2>4. CASE l \in IdlePCs /\ w \notin A
      BY <1>0, <2>1, <2>2, <2>3, <2>4, CountAdded DEF Moves
    <2>5. CASE l \in IdlePCs /\ w \in A
      <3>1. B = A
        BY <2>2, <2>5
      <3> QED BY <1>0, <2>1, <2>3, <2>5, <3>1 DEF Moves
    <2>6. CASE l \notin IdlePCs /\ w \in A
      BY <1>0, <2>1, <2>2, <2>3, <2>6, CountRemoved DEF Moves
    <2>7. CASE l \notin IdlePCs /\ w \notin A
      <3>1. B = A
        BY <2>2, <2>7
      <3> QED BY <1>0, <2>1, <2>3, <2>7, <3>1 DEF Moves
    <2> QED BY <2>4, <2>5, <2>6, <2>7
  <1> QED BY <1>1, <1>2, <1>3

(***************************************************************************)
(* Whoever stops running is taken off counter in the same step, and main   *)
(* counts whom it creates before it creates the next.                      *)
(***************************************************************************)
LEMMA CoversNext ==
  ASSUME TypeInv, Covers, [Next]_vars
  PROVE  Covers'
PROOF
  <1> DEFINE A == LiveP(pc)
             B == LiveP(pc')
  <1>0. /\ A \in SUBSET Workers /\ B \in SUBSET Workers /\ PcType(pc)
        /\ Cardinality(A) \in Nat /\ Seen >= Cardinality(A)
        /\ (Seen' >= Cardinality(B)) => Covers'
        /\ counter \in Int /\ reg \in Int
    BY Places, CountWorkers DEF Covers, LiveP, TypeInv, DataType
  <1>1. CASE \A w \in Workers : ~CreateThread(w) /\ ~OwnStep(w)
    <2>1. A = B
      BY <1>1, QuietSteps, NudgedPlaces DEF Quiet
    <2>2. Seen' >= Seen /\ Seen' \in Int /\ Seen \in Int
      <3>1. CASE UNCHANGED vars
        BY <1>0, <3>1 DEF vars, Seen
      <3>2. CASE LoadCounter \/ StoreCounter
        BY <1>0, <3>2, ThreadFacts DEF LoadCounter, StoreCounter, At, Goto, PcType, Seen
      <3>3. CASE InitDone \/ LoginLock \/ timers_init \/ DestroyEnter \/ DestroyLock
                   \/ DestroyWait \/ DestroyWake \/ DestroyDrained \/ DestroyFree
        BY <1>0, <3>3, ThreadFacts DEF InitDone, LoginLock, timers_init, DestroyEnter, DestroyLock,
           DestroyWait, DestroyWake, DestroyDrained, DestroyFree, AtDrain, At, Goto, PcType, Seen
      <3>4. CASE DestroyBody
        BY <1>0, <3>4, DestroyBodyQuiet DEF Seen
      <3>5. CASE LoginAdd
        <4> DEFINE p == [pc EXCEPT ![Main] = "arm"]
        <4>1. PcType(p) /\ p[Main] = "arm" /\ \A w \in Workers : p[w] = pc[w]
          BY <1>0, GotoMain, ThreadFacts DEF PcType, MainPCs
        <4>2. pc[Main] = "addbody" /\ threadpool_add_task(p)
          BY <3>5 DEF LoginAdd, At
        <4> HIDE DEF p
        <4> QED BY <1>0, <4>1, <4>2, AddTaskQuiet DEF Seen
      <3>6. ASSUME NEW t \in Threads, Alarm(t) \/ HandlerLock(t)
            PROVE  Seen' >= Seen /\ Seen' \in Int /\ Seen \in Int
        BY <1>0, <3>6 DEF Alarm, HandlerLock, localVars, Seen
      <3>7. ASSUME NEW t \in Threads, HandlerAdd(t)
            PROVE  Seen' >= Seen /\ Seen' \in Int /\ Seen \in Int
        <4>1. pc[Main] \notin {"load", "store"}
          BY <3>7 DEF HandlerAdd, TypeInv, Armed, Creating
        <4> QED BY <1>0, <3>7, <4>1, AddTaskQuiet DEF HandlerAdd, Seen
      <3> QED
        BY <1>1, <3>1, <3>2, <3>3, <3>4, <3>5, <3>6, <3>7
        DEF Next, main, threadpool_init, threadpool_destroy, handler, OwnStep
    <2> QED BY <1>0, <2>1, <2>2
  <1>2. ASSUME NEW w \in Workers, CreateThread(w)
        PROVE  Covers'
    <2>1. B = A \cup {w} /\ w \notin A /\ Seen' = Seen + 1
      BY <1>2, CreatePlaces DEF Seen
    <2> HIDE DEF A, B
    <2>2. Cardinality(B) = Cardinality(A) + 1
      BY <1>0, <2>1, CountAdded
    <2>3. Seen \in Int
      BY <1>0 DEF Seen
    <2> QED BY <1>0, <2>1, <2>2, <2>3
  <1>3. ASSUME NEW w \in Workers, OwnStep(w)
        PROVE  Covers'
    <2>1. PICK l : Moves(w, l)
      BY <1>3, OwnStepMoves
    <2>2. w \in A /\ B = IF l = "exited" THEN A \ {w} ELSE A
      BY <1>0, <2>1, MovesPlaces
    <2>3. Seen \in Int /\ Seen' \in Int /\ Seen' >= Seen - (IF l = "exited" THEN 1 ELSE 0)
      BY <1>0, <2>1 DEF Moves, MainKept, Seen
    <2> HIDE DEF A, B
    <2>4. CASE l = "exited"
      <3>1. Cardinality(B) = Cardinality(A) - 1
        BY <1>0, <2>2, <2>4, CountRemoved
      <3> QED BY <1>0, <2>3, <2>4, <3>1
    <2>5. CASE l # "exited"
      BY <1>0, <2>2, <2>3, <2>5
    <2> QED BY <2>4, <2>5
  <1> QED BY <1>1, <1>2, <1>3

-----------------------------------------------------------------------------
(***************************************************************************)
(* Where main can come from, and quit, which is set once and for all.      *)
(***************************************************************************)
Freed == {"dfree", "destroyed"}

MainPlace ==
  /\ pc'[Main] = "dbody" => pc[Main] = "dbody" \/ DestroyLock
  /\ pc'[Main] \in PastBroadcast => pc[Main] \in PastBroadcast \/ DestroyBody
  /\ pc'[Main] \in Freed => pc[Main] \in Freed \/ DestroyBody \/ DestroyDrained

LEMMA MainPlaceNext ==
  ASSUME TypeInv, [Next]_vars
  PROVE  MainPlace /\ (quit' = quit \/ DestroyLock)
PROOF
  <1> USE DEF MainPlace, PastBroadcast, Freed
  <1>0. PcType(pc)
    BY DEF TypeInv
  <1>1. CASE UNCHANGED vars
    BY <1>1 DEF vars
  <1>2. ASSUME NEW w \in Workers, CreateThread(w)
        PROVE  MainPlace /\ (quit' = quit \/ DestroyLock)
    BY <1>2, CreatePlaces
  <1>3. CASE LoadCounter \/ StoreCounter \/ InitDone \/ LoginLock \/ timers_init \/ DestroyEnter
    BY <1>0, <1>3, ThreadFacts DEF LoadCounter, StoreCounter, InitDone, LoginLock, timers_init,
       DestroyEnter, Goto, PcType
  <1>4. CASE DestroyLock
    BY <1>0, <1>4, ThreadFacts DEF DestroyLock, Goto, PcType
  <1>5. CASE DestroyWait \/ DestroyWake \/ DestroyFree
    BY <1>0, <1>5, ThreadFacts DEF DestroyWait, DestroyWake, DestroyFree, AtDrain, At,
       Goto, PcType
  <1>6. CASE DestroyDrained
    BY <1>0, <1>6, ThreadFacts DEF DestroyDrained, AtDrain, Goto, PcType
  <1>7. CASE DestroyBody
    BY <1>7, DestroyBodyQuiet
  <1>8. CASE LoginAdd
    <2> DEFINE p == [pc EXCEPT ![Main] = "arm"]
    <2>1. PcType(p) /\ p[Main] = "arm" /\ \A w \in Workers : p[w] = pc[w]
      BY <1>0, GotoMain, ThreadFacts DEF PcType, MainPCs
    <2>2. threadpool_add_task(p)
      BY <1>8 DEF LoginAdd
    <2> HIDE DEF p
    <2> QED BY <2>1, <2>2, AddTaskQuiet
  <1>9. ASSUME NEW t \in Threads, Alarm(t) \/ HandlerLock(t)
        PROVE  MainPlace /\ (quit' = quit \/ DestroyLock)
    BY <1>9 DEF Alarm, HandlerLock
  <1>10. ASSUME NEW t \in Threads, HandlerAdd(t)
         PROVE  MainPlace /\ (quit' = quit \/ DestroyLock)
    BY <1>0, <1>10, AddTaskQuiet DEF HandlerAdd
  <1>11. ASSUME NEW w \in Workers, OwnStep(w)
         PROVE  MainPlace /\ (quit' = quit \/ DestroyLock)
    BY <1>11, OwnStepMoves DEF Moves, MainKept
  <1> QED
    BY <1>1, <1>2, <1>3, <1>4, <1>5, <1>6, <1>7, <1>8, <1>9, <1>10, <1>11
    DEF Next, main, threadpool_init, threadpool_destroy, handler, OwnStep

LEMMA WakesNext ==
  ASSUME TypeInv, IdleCount, Covers, DestroyWakes, [Next]_vars
  PROVE  DestroyWakes'
PROOF
  <1>0. MainPlace /\ (quit' = quit \/ DestroyLock) /\ PcType(pc)
    BY MainPlaceNext DEF TypeInv
  <1>1. CASE DestroyLock
    <2>1. pc'[Main] = "dbody" /\ quit'
      BY <1>0, <1>1, ThreadFacts DEF DestroyLock, Goto, PcType
    <2> QED BY <2>1 DEF DestroyWakes, PastBroadcast
  <1>2. CASE DestroyBody
    <2>1. /\ quit' = quit /\ pc[Main] = "dbody" /\ pc'[Main] \in {"join", "drain", "dfree"}
          /\ In({"wait"})' = {} \/ (In({"wait"})' = In({"wait"}) /\ ~(counter > 0 /\ idle > 0))
      BY <1>2, DestroyBodyQuiet
    <2>2. ASSUME ~(counter > 0 /\ idle > 0)
          PROVE  In({"wait"}) = {}
      <3>1. /\ Live \in SUBSET Workers /\ In(IdlePCs) \in SUBSET Workers
            /\ In({"wait"}) \subseteq Live /\ In({"wait"}) \subseteq In(IdlePCs)
        BY DEF Live, In, IdlePCs
      <3>2. counter \in Int /\ idle \in Int
            /\ counter >= Cardinality(Live) /\ idle = Cardinality(In(IdlePCs))
        BY <2>1 DEF TypeInv, DataType, IdleCount, Covers, Seen
      <3>3. Cardinality(Live) = 0 \/ Cardinality(In(IdlePCs)) = 0
        BY <2>2, <3>1, <3>2, CountWorkers
      <3> QED BY <3>1, <3>3, CountWorkers
    <2>3. In({"wait"})' = {}
      BY <2>1, <2>2
    <2> QED BY <2>1, <2>3 DEF DestroyWakes, PastBroadcast
  <1>3. ASSUME NEW w \in Workers, CreateThread(w)
        PROVE  DestroyWakes'
    BY <1>3, CreatePlaces DEF DestroyWakes, PastBroadcast
  <1>4. ASSUME NEW w \in Workers, OwnStep(w)
        PROVE  DestroyWakes'
    <2>1. PICK l : Moves(w, l)
      BY <1>4, OwnStepMoves
    <2>2. /\ quit' = quit /\ (l = "wait" => ~quit)
          /\ pc'[Main] = pc[Main] \/ (pc[Main] = "dwait" /\ pc'[Main] = "dwoken")
      BY <2>1 DEF Moves, MainKept
    <2>3. l # "wait" => In({"wait"})' \subseteq In({"wait"})
      BY <1>0, <2>1, MovesPlaces, Places
    <2> QED BY <2>2, <2>3 DEF DestroyWakes, PastBroadcast
  <1>5. CASE ~DestroyLock /\ ~DestroyBody /\ \A w \in Workers : ~CreateThread(w) /\ ~OwnStep(w)
    <2>1. In({"wait"})' \subseteq In({"wait"})
      BY <1>5, QuietSteps, NudgedPlaces, Places DEF Quiet
    <2> QED BY <1>0, <1>5, <2>1 DEF MainPlace, DestroyWakes
  <1> QED BY <1>1, <1>2, <1>3, <1>4, <1>5

LEMMA FreedNext ==
  ASSUME TypeInv, Covers, PoolFreedOnlyWhenWorkersGone, [Next]_vars
  PROVE  PoolFreedOnlyWhenWorkersGone'
PROOF
  <1>0. MainPlace /\ PcType(pc) /\ Live \in SUBSET Workers /\ counter \in Int
    BY MainPlaceNext DEF TypeInv, DataType, Live
  <1>1. CASE DestroyBody \/ DestroyDrained
    <2> SUFFICES ASSUME pc'[Main] \in Freed PROVE Live' = {}
      BY DEF PoolFreedOnlyWhenWorkersGone, Freed
    <2>1. counter <= 0 /\ pc[Main] \notin {"load", "store"} /\ Nudged(pc, pc')
      <3>1. CASE DestroyBody
        BY <1>0, <3>1, DestroyBodyQuiet DEF Quiet, Freed
      <3>2. CASE DestroyDrained
        BY <3>2, MainAloneQuiet DEF DestroyDrained, AtDrain, MainAlone, Quiet
      <3> QED BY <1>1, <3>1, <3>2
    <2>2. Cardinality(Live) = 0
      BY <1>0, <2>1, CountWorkers DEF Covers, Seen
    <2> QED BY <1>0, <2>1, <2>2, CountWorkers, NudgedPlaces, Places
  <1>2. ASSUME NEW w \in Workers, CreateThread(w)
        PROVE  PoolFreedOnlyWhenWorkersGone'
    BY <1>2, CreatePlaces DEF PoolFreedOnlyWhenWorkersGone
  <1>3. CASE ~DestroyBody /\ ~DestroyDrained /\ \A w \in Workers : ~CreateThread(w)
    <2>1. Live' \subseteq Live
      <3>1. ASSUME NEW w \in Workers, OwnStep(w)
            PROVE  Live' \subseteq Live
        BY <1>0, <3>1, OwnStepMoves, MovesPlaces, Places
      <3> QED BY <1>3, <3>1, QuietSteps, NudgedPlaces, Places DEF Quiet
    <2> QED BY <1>0, <1>3, <2>1 DEF MainPlace, PoolFreedOnlyWhenWorkersGone, Freed
  <1> QED BY <1>1, <1>2, <1>3

-----------------------------------------------------------------------------
(***************************************************************************)
(* No wakeup is lost.  Fewer sleepers, more workers awake or fewer tasks   *)
(* do no harm; a new task needs a signal, and a worker that takes itself   *)
(* out of the awake ones takes a task or leaves an empty queue.            *)
(***************************************************************************)
LEMMA WakeupPlaces ==
  NoLostWakeup <=>
    (InP(pc, {"wait"}) # {} => Cardinality(InP(pc, Awake)) >= Cardinality(Queued))
BY Places DEF NoLostWakeup, Awake

LEMMA WakeupPlacesNext ==
  NoLostWakeup' <=>
    (InP(pc', {"wait"}) # {} => Cardinality(InP(pc', Awake)) >= Cardinality(Queued'))
BY Places DEF NoLostWakeup, Awake

LEMMA PlaceSets ==
  /\ \A p, S : InP(p, S) \in SUBSET Workers
  /\ Queued \in SUBSET Tasks /\ Queued' \in SUBSET Tasks
BY DEF InP, Queued

LEMMA WakeupKept ==
  ASSUME NoLostWakeup, InP(pc', {"wait"}) \subseteq InP(pc, {"wait"}),
         InP(pc, Awake) \subseteq InP(pc', Awake), Queued' \subseteq Queued
  PROVE  NoLostWakeup'
PROOF
  <1>1. /\ Cardinality(InP(pc, Awake)) \in Nat /\ Cardinality(InP(pc', Awake)) \in Nat
        /\ Cardinality(InP(pc, Awake)) <= Cardinality(InP(pc', Awake))
    BY PlaceSets, CountWorkers, CountMonotone
  <1>2. /\ Cardinality(Queued) \in Nat /\ Cardinality(Queued') \in Nat
        /\ Cardinality(Queued') <= Cardinality(Queued)
    BY PlaceSets, CountTasks, FS_Subset
  <1> QED BY <1>1, <1>2, WakeupPlaces, WakeupPlacesNext

LEMMA WakeupAdd ==
  ASSUME TypeInv, QueueInv, CountInv, NEW p, PcType(p), \A w \in Workers : p[w] = pc[w],
         p[Main] = "dwait" => pc[Main] = "dwait", threadpool_add_task(p)
  PROVE  NoLostWakeup'
PROOF
  <1> DEFINE new == added + 1
  <1>1. Queued' \subseteq Queued \cup {new}
    BY DEF threadpool_add_task, Link, Queued, TypeInv, DataType
  <1>2. InP(p, {"wait"}) = InP(pc, {"wait"}) /\ InP(p, Awake) = InP(pc, Awake)
    BY DEF InP
  <1>3. CASE InP(pc', {"wait"}) = {}
    BY <1>3, WakeupPlacesNext
  <1>4. ASSUME InP(pc', {"wait"}) # {}
        PROVE  Cardinality(InP(pc', Awake)) >= Cardinality(Queued')
    <2>1. Nudged(pc, pc') /\ InP(pc, {"wait"}) # {}
      BY <1>4, AddTaskQuiet, NudgedPlaces DEF Quiet
    <2>2. InP(pc, {"wait"}) \subseteq InP(pc, IdlePCs)
      BY DEF InP, IdlePCs
    <2>3. idle > 0
      <3>1. idle = Cardinality(InP(pc, IdlePCs)) /\ idle \in Nat
        BY PlaceSets, CountWorkers, Places DEF CountInv, IdleCount
      <3> QED BY <2>1, <2>2, <3>1, PlaceSets, CountWorkers
    <2>4. pc' \in condition_signal(p)
      BY <2>3 DEF threadpool_add_task, Announce, TypeInv, DataType
    <2>5. Blocked(p) # {}
      BY <2>1, ThreadFacts, <1>2 DEF Blocked, InP
    <2>6. PICK t \in Blocked(p) : pc' = [p EXCEPT ![t] = Runnable(@)]
      BY <2>4, <2>5 DEF condition_signal
    <2>7. t \in Workers /\ p[t] = "wait"
      <3>1. t \in Threads /\ p[t] \in {"wait", "dwait"}
        BY <2>6 DEF Blocked
      <3>2. t # Main
        <4>1. "wait" \notin MainPCs
          BY DEF MainPCs
        <4>2. pc[Main] # "dwait"
          BY <2>1, Places DEF CountInv, DestroyWakes, PastBroadcast
        <4> QED BY <3>1, <4>1, <4>2 DEF PcType
      <3> QED BY <3>1, <3>2, ThreadFacts DEF PcType, WorkerPCs
    <2>8. InP(pc, Awake) \cup {t} \subseteq InP(pc', Awake) /\ t \notin InP(pc, Awake)
      <3>1. \A w \in Workers : pc'[w] = IF w = t THEN "woken" ELSE pc[w]
        BY <2>6, <2>7, ThreadFacts DEF Runnable, PcType
      <3>2. "woken" \in Awake /\ "wait" \notin Awake /\ pc[t] = "wait"
        BY <2>7 DEF Awake, IdlePCs
      <3> QED BY <2>7, <3>1, <3>2 DEF InP
    <2>9. Cardinality(InP(pc', Awake)) >= Cardinality(InP(pc, Awake)) + 1
      <3>1. /\ Cardinality(InP(pc, Awake) \cup {t}) = Cardinality(InP(pc, Awake)) + 1
            /\ InP(pc, Awake) \cup {t} \in SUBSET InP(pc', Awake)
        BY <2>7, <2>8, PlaceSets, CountAdded
      <3>2. /\ Cardinality(InP(pc, Awake) \cup {t}) <= Cardinality(InP(pc', Awake))
            /\ Cardinality(InP(pc, Awake)) \in Nat /\ Cardinality(InP(pc', Awake)) \in Nat
        BY <3>1, PlaceSets, CountWorkers, CountMonotone
      <3> QED BY <3>1, <3>2
    <2>10. Cardinality(Queued') <= Cardinality(Queued) + 1
      <3>1. /\ IsFiniteSet(Queued \cup {new}) /\ Cardinality(Queued) \in Nat
            /\ Cardinality(Queued \cup {new}) \in {Cardinality(Queued), Cardinality(Queued) + 1}
        BY PlaceSets, CountTasks, FS_AddElement
      <3>2. Cardinality(Queued') <= Cardinality(Queued \cup {new}) /\ Cardinality(Queued') \in Nat
        BY <1>1, <3>1, PlaceSets, CountTasks, FS_Subset
      <3> QED BY <3>1, <3>2
    <2>11. Cardinality(InP(pc, Awake)) >= Cardinality(Queued)
      BY <2>1, WakeupPlaces DEF CountInv
    <2> QED BY <2>9, <2>10, <2>11, PlaceSets, CountWorkers, CountTasks
  <1> QED BY <1>3, <1>4, WakeupPlacesNext

LEMMA MovedSleep ==
  ASSUME PcType(pc), NEW w \in Workers, NEW l, NEW q, q = [pc EXCEPT ![w] = l], l # "wait"
  PROVE  /\ InP(q, {"wait"}) = InP(pc, {"wait"}) \ {w}
         /\ InP(q, Awake) = IF l \in Awake THEN InP(pc, Awake) \cup {w}
                            ELSE InP(pc, Awake) \ {w}
         /\ w \in InP(pc, Awake) <=> pc[w] \in Awake
PROOF
  <1>1. \A S : InP(q, S) = IF l \in S THEN InP(pc, S) \cup {w} ELSE InP(pc, S) \ {w}
    BY MovedPlaces
  <1>2. InP(q, {"wait"}) = IF l \in {"wait"} THEN InP(pc, {"wait"}) \cup {w}
                           ELSE InP(pc, {"wait"}) \ {w}
    BY <1>1
  <1>3. w \in InP(pc, Awake) <=> pc[w] \in Awake
    BY DEF InP
  <1> QED BY <1>1, <1>2, <1>3

LEMMA WakeupOwn ==
  ASSUME TypeInv, QueueInv, CountInv, NEW w \in Workers, OwnStep(w)
  PROVE  NoLostWakeup'
PROOF
  <1>0. PcType(pc) /\ NoLostWakeup
    BY DEF TypeInv, CountInv
  <1>a. /\ \A l \in {"test", "woken", "timedout", "leave"} : l \in Awake
        /\ \A l \in {"wait", "run", "relock", "round", "top", "exited"} : l \notin Awake
    BY DEF Awake, IdlePCs
  <1>1. CASE Wait(w) \/ LeaveEmpty(w)
    <2>1. first = NULL /\ tstate' = tstate
      BY <1>1 DEF Wait, MustWait, LeaveEmpty, EndRound, queueVars
    <2>2. Queued' = {}
      BY <2>1 DEF QueueInv, QueueLinked, Queued
    <2> QED BY <2>2, PlaceSets, CountWorkers, CountTasks, WakeupPlacesNext
  <1>2. ASSUME NEW l, Goto(w, l), l # "wait", tstate' = tstate, pc[w] \in Awake => l \in Awake
        PROVE  NoLostWakeup'
    <2>1. pc' = [pc EXCEPT ![w] = l]
      BY <1>2 DEF Goto
    <2>2. /\ InP(pc', {"wait"}) = InP(pc, {"wait"}) \ {w}
          /\ InP(pc', Awake) = IF l \in Awake THEN InP(pc, Awake) \cup {w}
                               ELSE InP(pc, Awake) \ {w}
          /\ w \in InP(pc, Awake) => l \in Awake
      BY <1>0, <1>2, <2>1, MovedSleep
    <2> QED BY <1>0, <1>2, <2>2, WakeupKept DEF Queued
  <1>3. CASE TopLock(w) \/ WaitExpires(w) \/ SpuriousWakeup(w) \/ WakeLock(w) \/ TimeoutLock(w)
             \/ Relock(w)
    <2>1. PICK l \in {"test", "timedout", "woken", "leave", "round"} :
            Goto(w, l) /\ (pc[w] \in Awake => l \in Awake)
      BY <1>3, <1>a DEF TopLock, WaitExpires, SpuriousWakeup, WakeLock, TimeoutLock, Relock, At
    <2>2. tstate' = tstate
      BY <1>3 DEF TopLock, WaitExpires, SpuriousWakeup, WakeLock, TimeoutLock, Relock, queueVars
    <2> QED BY <1>2, <2>1, <2>2
  <1>4. CASE FinishTask(w)
    <2>1. pc[w] = "run" /\ Goto(w, "relock") /\ tstate' = [tstate EXCEPT ![task[w]] = "freed"]
      BY <1>4 DEF FinishTask, At
    <2>2. Queued' \subseteq Queued
      BY <2>1 DEF Queued, TypeInv, DataType
    <2>3. pc' = [pc EXCEPT ![w] = "relock"]
      BY <2>1 DEF Goto
    <2>4. /\ InP(pc', {"wait"}) = InP(pc, {"wait"}) \ {w}
          /\ InP(pc', Awake) = InP(pc, Awake) \ {w} /\ w \notin InP(pc, Awake)
      BY <1>0, <1>a, <2>1, <2>3, MovedSleep
    <2> QED BY <1>0, <2>2, <2>4, WakeupKept
  <1>5. CASE Round(w)
    <2>1. pc[w] = "round" /\ tstate' = tstate
      BY <1>5 DEF Round, At, EndRound, queueVars
    <2>2. PICK l \in {"exited", "top"} : Nudged([pc EXCEPT ![w] = l], pc')
      BY <1>5, EndRoundMoves DEF Round
    <2>a. l \notin Awake /\ l # "wait" /\ pc[w] \notin Awake
      BY <1>a, <2>1, <2>2
    <2> DEFINE q == [pc EXCEPT ![w] = l]
    <2>b. q = [pc EXCEPT ![w] = l]
      OBVIOUS
    <2>4. Nudged(q, pc')
      BY <2>2
    <2> HIDE DEF q
    <2>3. /\ InP(q, {"wait"}) = InP(pc, {"wait"}) \ {w}
          /\ InP(q, Awake) = InP(pc, Awake) \ {w} /\ w \notin InP(pc, Awake)
      BY <1>0, <2>a, <2>b, MovedSleep
    <2>5. InP(pc', {"wait"}) \subseteq InP(q, {"wait"}) /\ InP(q, Awake) \subseteq InP(pc', Awake)
      BY <2>4, NudgedPlaces
    <2> QED BY <1>0, <2>1, <2>3, <2>5, WakeupKept DEF Queued
  <1>6. CASE TakeTask(w)
    <2>1. /\ pc[w] \in {"test", "leave"} /\ pc' = [pc EXCEPT ![w] = "run"]
          /\ first \in Tasks /\ tstate' = [tstate EXCEPT ![first] = "running"]
      BY <1>6 DEF TakeTask, OutOfLoop, At, Goto, TypeInv, DataType
    <2>2. first \in Queued
      BY <1>6, <2>1, PoolAssumption
      DEF Queued, QueueInv, QueueLinked, TakeTask, TypeInv, DataType, Tasks
    <2>3. Queued' = Queued \ {first}
      BY <2>1 DEF Queued, TypeInv, DataType
    <2>4. /\ InP(pc', {"wait"}) = InP(pc, {"wait"}) \ {w}
          /\ InP(pc', Awake) = InP(pc, Awake) \ {w} /\ w \in InP(pc, Awake)
      BY <1>0, <1>a, <2>1, MovedSleep
    <2>5. Cardinality(InP(pc', Awake)) = Cardinality(InP(pc, Awake)) - 1
      BY <2>4, PlaceSets, CountRemoved
    <2>6. Cardinality(Queued') = Cardinality(Queued) - 1
      BY <2>2, <2>3, PlaceSets, CountTasks, FS_RemoveElement
    <2>7. InP(pc', {"wait"}) # {} => InP(pc, {"wait"}) # {}
      BY <2>4
    <2> QED
      BY <1>0, <2>5, <2>6, <2>7, PlaceSets, CountWorkers, CountTasks, WakeupPlaces, WakeupPlacesNext
  <1> QED BY <1>1, <1>3, <1>4, <1>5, <1>6 DEF OwnStep, thread_routine

LEMMA WakeupNext ==
  ASSUME TypeInv, QueueInv, CountInv, [Next]_vars
  PROVE  NoLostWakeup'
PROOF
  <1>0. PcType(pc) /\ NoLostWakeup
    BY DEF TypeInv, CountInv
  <1>1. CASE LoginAdd
    <2>1. /\ PcType([pc EXCEPT ![Main] = "arm"]) /\ [pc EXCEPT ![Main] = "arm"][Main] = "arm"
          /\ \A w \in Workers : [pc EXCEPT ![Main] = "arm"][w] = pc[w]
      BY <1>0, GotoMain, ThreadFacts DEF PcType, MainPCs
    <2> QED BY <1>1, <2>1, WakeupAdd DEF LoginAdd
  <1>2. ASSUME NEW t \in Threads, HandlerAdd(t)
        PROVE  NoLostWakeup'
    BY <1>0, <1>2, WakeupAdd DEF HandlerAdd
  <1>3. ASSUME NEW w \in Workers, OwnStep(w)
        PROVE  NoLostWakeup'
    BY <1>3, WakeupOwn
  <1>4. CASE /\ ~LoginAdd /\ \A t \in Threads : ~HandlerAdd(t)
             /\ \A w \in Workers : ~OwnStep(w)
    <2>1. Queued' \subseteq Queued
      <3>1. CASE DestroyFree
        BY <3>1 DEF DestroyFree, Queued
      <3>2. CASE ~DestroyFree
        BY <1>4, <3>2, QueueOther DEF OwnStep, thread_routine, queueVars, Queued
      <3> QED BY <3>1, <3>2
    <2>2. CASE \E w \in Workers : CreateThread(w)
      <3>1. {"wait"} \in SUBSET IdlePCs /\ Awake \in SUBSET IdlePCs
        BY DEF Awake, IdlePCs
      <3> QED BY <1>0, <2>1, <2>2, <3>1, CreatePlaces, WakeupKept
    <2>3. CASE \A w \in Workers : ~CreateThread(w)
      BY <1>0, <1>4, <2>1, <2>3, QuietSteps, NudgedPlaces, WakeupKept DEF Quiet
    <2> QED BY <2>2, <2>3
  <1> QED BY <1>1, <1>2, <1>3, <1>4

-----------------------------------------------------------------------------
(***************************************************************************)
(* The results.                                                            *)
(***************************************************************************)
PoolInv == TypeInv /\ QueueInv /\ CountInv

LEMMA PoolInit == Init => PoolInv
BY TypeInit, QueueInit, CountInit DEF PoolInv

LEMMA PoolNext == PoolInv /\ [Next]_vars => PoolInv'
BY TypeNext, QueueNext, IdleNext, CoversNext, WakesNext, WakeupNext, FreedNext
   DEF PoolInv, CountInv

(***************************************************************************)
(* idle, which threadpool_add_task and threadpool_destroy decide by, is at *)
(* every moment the number of workers that wait or are about to look.      *)
(***************************************************************************)
THEOREM IdleIsCounted == Spec => []IdleCount
PROOF
  <1>1. PoolInv => IdleCount
    BY DEF PoolInv, CountInv
  <1> QED BY <1>1, PoolInit, PoolNext, PTL DEF Spec

(***************************************************************************)
(* While a worker sleeps, enough others are awake for the tasks that wait: *)
(* no signal of threadpool_add_task is missed.                             *)
(***************************************************************************)
THEOREM WakeupNeverLost == Spec => []NoLostWakeup
PROOF
  <1>1. PoolInv => NoLostWakeup
    BY DEF PoolInv, CountInv
  <1> QED BY <1>1, PoolInit, PoolNext, PTL DEF Spec

(***************************************************************************)
(* counter is never below the number of workers that run, although         *)
(* threadpool_init increments it without the lock.                         *)
(***************************************************************************)
THEOREM CounterIsEnough == Spec => []CounterCoversLive
PROOF
  <1>1. PoolInv => CounterCoversLive
    BY SeenCovers DEF PoolInv, CountInv
  <1> QED BY <1>1, PoolInit, PoolNext, PTL DEF Spec

(***************************************************************************)
(* threadpool_destroy frees the pool only when no worker can touch it.     *)
(***************************************************************************)
THEOREM PoolFreedLast == Spec => []PoolFreedOnlyWhenWorkersGone
PROOF
  <1>1. PoolInv => PoolFreedOnlyWhenWorkersGone
    BY DEF PoolInv, CountInv
  <1> QED BY <1>1, PoolInit, PoolNext, PTL DEF Spec

-----------------------------------------------------------------------------
(***************************************************************************)
(* The mutex and the handler.  Before threadpool_destroy, main owns the    *)
(* mutex only where it submits the login task, with no timer armed, or in  *)
(* a handler; and a handler runs on main only.                             *)
(***************************************************************************)
HandlerOnMain == \A t \in Threads : hnd[t] # "none" => t = Main

MainHolds == owner = Main => pc[Main] = "addbody" \/ hnd[Main] = "body" \/ quit

AlarmInv == HandlerOnMain /\ MainHolds

LEMMA OwnStepLocks ==
  ASSUME TypeInv, NEW w \in Workers, OwnStep(w)
  PROVE  /\ hnd' = hnd /\ quit' = quit /\ MainKept
         /\ owner' \in {owner, w, NoThread}
PROOF
  <1>1. hnd' = hnd /\ owner' \in {owner, w, NoThread}
    <2>1. CASE TopLock(w) \/ Wait(w) \/ WaitExpires(w) \/ SpuriousWakeup(w) \/ WakeLock(w)
               \/ TimeoutLock(w) \/ TakeTask(w) \/ FinishTask(w) \/ Relock(w)
      BY <2>1 DEF TopLock, Wait, WaitExpires, SpuriousWakeup, WakeLock, TimeoutLock, TakeTask,
         FinishTask, Relock, condition_lock, condition_unlock
    <2>2. CASE LeaveEmpty(w) \/ Round(w)
      BY <2>2 DEF LeaveEmpty, Round, EndRound, condition_unlock
    <2> QED BY <2>1, <2>2 DEF OwnStep, thread_routine
  <1>2. quit' = quit /\ MainKept
    BY OwnStepMoves DEF Moves
  <1> QED BY <1>1, <1>2

LEMMA AlarmNext ==
  ASSUME AlarmTargets \subseteq {Main}, TypeInv, DestroyWakes, AlarmInv, [Next]_vars
  PROVE  AlarmInv'
PROOF
  <1>0. /\ PcType(pc) /\ hnd \in [Threads -> {"none", "lock", "body"}] /\ NoThread # Main
    BY DEF TypeInv, DataType, NoThread, Main
  <1>1. CASE UNCHANGED vars
    BY <1>1 DEF vars, AlarmInv, HandlerOnMain, MainHolds
  <1>2. CASE LoginLock \/ DestroyLock
    <2>1. hnd' = hnd
      BY <1>2 DEF LoginLock, DestroyLock
    <2>2. pc'[Main] = "addbody" \/ quit'
      BY <1>0, <1>2, ThreadFacts DEF LoginLock, DestroyLock, Goto, PcType
    <2> QED BY <2>1, <2>2 DEF AlarmInv, HandlerOnMain, MainHolds
  <1>3. CASE LoadCounter \/ StoreCounter \/ InitDone \/ timers_init \/ DestroyEnter \/ DestroyBody
             \/ DestroyWait \/ DestroyDrained \/ DestroyFree \/ \E w \in Workers : CreateThread(w)
    <2>1. hnd' = hnd /\ quit' = quit /\ owner' \in {owner, NoThread}
      BY <1>3 DEF LoadCounter, StoreCounter, InitDone, timers_init, DestroyEnter, DestroyBody,
         DestroyWait, DestroyDrained, DestroyFree, CreateThread, condition_unlock
    <2>2. pc[Main] # "addbody"
      BY <1>3 DEF LoadCounter, StoreCounter, InitDone, timers_init, DestroyEnter, DestroyBody,
         DestroyWait, DestroyDrained, DestroyFree, CreateThread, AtDrain, At
    <2> QED BY <1>0, <2>1, <2>2 DEF AlarmInv, HandlerOnMain, MainHolds
  <1>4. CASE DestroyWake
    <2>1. hnd' = hnd /\ quit' = quit /\ pc[Main] = "dwoken"
      BY <1>4 DEF DestroyWake, At
    <2>2. quit'
      BY <2>1 DEF DestroyWakes, PastBroadcast
    <2> QED BY <2>1, <2>2 DEF AlarmInv, HandlerOnMain, MainHolds
  <1>5. CASE LoginAdd
    <2>1. hnd' = hnd /\ owner' = NoThread
      BY <1>5 DEF LoginAdd, threadpool_add_task, condition_unlock
    <2> QED BY <1>0, <2>1 DEF AlarmInv, HandlerOnMain, MainHolds
  <1>6. ASSUME NEW t \in Threads, Alarm(t)
        PROVE  AlarmInv'
    <2>1. /\ t = Main /\ hnd[t] = "none" /\ hnd' = [hnd EXCEPT ![t] = "lock"]
          /\ UNCHANGED <<owner, pc, quit>>
      BY <1>6 DEF Alarm
    <2> QED BY <1>0, <2>1, ThreadFacts DEF AlarmInv, HandlerOnMain, MainHolds
  <1>7. ASSUME NEW t \in Threads, HandlerLock(t)
        PROVE  AlarmInv'
    <2>1. hnd[t] = "lock" /\ hnd' = [hnd EXCEPT ![t] = "body"] /\ t = Main
      BY <1>7 DEF HandlerLock, AlarmInv, HandlerOnMain
    <2> QED BY <1>0, <2>1, ThreadFacts DEF AlarmInv, HandlerOnMain, MainHolds
  <1>8. ASSUME NEW t \in Threads, HandlerAdd(t)
        PROVE  AlarmInv'
    <2>1. /\ hnd[t] = "body" /\ t = Main /\ owner' = NoThread
          /\ \E again \in {"none", "lock"} : hnd' = [hnd EXCEPT ![t] = again]
      BY <1>8 DEF HandlerAdd, threadpool_add_task, condition_unlock, AlarmInv, HandlerOnMain
    <2> QED BY <1>0, <2>1, ThreadFacts DEF AlarmInv, HandlerOnMain, MainHolds
  <1>9. ASSUME NEW w \in Workers, OwnStep(w)
        PROVE  AlarmInv'
    <2>1. /\ hnd' = hnd /\ quit' = quit /\ MainKept
          /\ owner' \in {owner, w, NoThread}
      BY <1>9, OwnStepLocks
    <2> QED BY <1>0, <2>1, ThreadFacts DEF MainKept, AlarmInv, HandlerOnMain, MainHolds
  <1> QED
    BY <1>1, <1>2, <1>3, <1>4, <1>5, <1>6, <1>7, <1>8, <1>9
    DEF Next, main, threadpool_init, threadpool_destroy, handler, OwnStep

(***************************************************************************)
(* When the kernel runs the handler on main, as it does while main does    *)
(* not block the signal, no handler ever waits for a mutex that its own    *)
(* thread holds, until threadpool_destroy.                                 *)
(***************************************************************************)
THEOREM HandlerNeverSelfBlocks ==
  ASSUME AlarmTargets \subseteq {Main}
  PROVE  Spec => []AlarmNeverSelfBlocks
PROOF
  <1>1. Init => AlarmInv
    BY ThreadFacts DEF Init, AlarmInv, HandlerOnMain, MainHolds, NoThread, Main
  <1>2. PoolInv /\ AlarmInv /\ [Next]_vars => AlarmInv'
    BY AlarmNext DEF PoolInv, CountInv
  <1>3. PoolInv /\ AlarmInv => AlarmNeverSelfBlocks
    BY DEF PoolInv, TypeInv, Armed, Creating, AlarmInv, HandlerOnMain, MainHolds, AlarmNeverSelfBlocks
  <1> QED BY <1>1, <1>2, <1>3, PoolInit, PoolNext, PTL DEF Spec
=============================================================================
