----------------------------- MODULE ThreadPool -----------------------------
(***************************************************************************)
(* The thread pool of the Master (Master/threadpool, Master/condition) and *)
(* the thread that drives it: main() creates the workers, submits the      *)
(* login task, arms the interval timer and spins; every later task is      *)
(* submitted by the SIGALRM handler, on whatever thread the kernel picks.  *)
(*                                                                         *)
(* The pool's mutex is explicit (owner), because two pieces of code keep   *)
(* it while something else must happen: a handler that interrupts its      *)
(* owner, and threadpool_destroy, which joins the workers under it.        *)
(***************************************************************************)
EXTENDS Integers, FiniteSets

CONSTANTS
  MaxThreads,                \* conf.INS, the pool's max_threads
  MaxTasks,                  \* bound on the tasks submitted in a behaviour
  Forever,                   \* tasks that need not return: login_pthread, 1
  AlarmTargets,              \* threads the kernel may run the handler on
  Destroys                   \* does main ever reach threadpool_destroy?

Main == 0
Workers == 1..MaxThreads
Threads == Workers \cup {Main}
Tasks == 1..MaxTasks
NULL == 0                    \* no task
NoThread == -1               \* nobody owns the mutex

ASSUME PoolAssumption ==
  /\ MaxThreads \in Nat
  /\ MaxTasks \in Nat
  /\ Forever \subseteq Tasks
  /\ AlarmTargets \subseteq Threads
  /\ Destroys \in BOOLEAN

VARIABLES
  first, last, next,         \* the linked queue: ends and each task's next
  added,                     \* tasks allocated so far, numbered in order
  tstate,                    \* what has become of each task
  counter, idle, quit,       \* the fields of threadpool_t of those names
  owner,                     \* owner of the mutex in pool->ready
  pc,                        \* where each thread is in its own code
  hnd,                       \* where each thread is in the SIGALRM handler
  timeout, task,             \* locals timeout and t of thread_routine
  reg                        \* main's register inside pool->counter++

queueVars == <<first, last, next, added, tstate>>
localVars == <<timeout, task>>
vars == <<queueVars, counter, idle, quit, owner, pc, hnd, localVars, reg>>

TaskStates == {"new", "queued", "running", "freed"}
WorkerPCs == {"none", "top", "test", "wait", "woken", "timedout", "leave",
              "run", "relock", "round", "exited"}
MainPCs == {"create", "load", "store", "addlock", "addbody", "arm", "spin",
            "dlock", "dbody", "join", "drain", "dwait", "dwoken", "dfree",
            "destroyed"}

(***************************************************************************)
(* Threads outside the handler run their own code.                         *)
(***************************************************************************)
At(t, label) == pc[t] = label /\ hnd[t] = "none"

Goto(t, label) == pc' = [pc EXCEPT ![t] = label]

condition_lock(t) == owner = NoThread /\ owner' = t

condition_unlock == owner' = NoThread

(***************************************************************************)
(* The program counters a signal can leave behind: one blocked thread, if  *)
(* there is any, is made runnable; it still has to take the mutex.         *)
(***************************************************************************)
Blocked(p) == {t \in Threads : p[t] \in {"wait", "dwait"}}

Runnable(label) == IF label = "wait" THEN "woken" ELSE "dwoken"

condition_signal(p) ==
  IF Blocked(p) = {} THEN {p}
  ELSE {[p EXCEPT ![t] = Runnable(@)] : t \in Blocked(p)}

condition_broadcast(p) ==
  [t \in Threads |-> IF t \in Blocked(p) THEN Runnable(p[t]) ELSE p[t]]

-----------------------------------------------------------------------------
Init ==
  /\ first = NULL /\ last = NULL
  /\ next = [t \in Tasks |-> NULL]
  /\ added = 0
  /\ tstate = [t \in Tasks |-> "new"]
  /\ counter = 0 /\ idle = 0 /\ quit = FALSE
  /\ owner = NoThread
  /\ pc = [t \in Threads |-> IF t = Main THEN "create" ELSE "none"]
  /\ hnd = [t \in Threads |-> "none"]
  /\ timeout = [w \in Workers |-> FALSE]
  /\ task = [w \in Workers |-> NULL]
  /\ reg = 0

(***************************************************************************)
(* threadpool_init: the loop of pthread_create and pool->counter++.  The   *)
(* increment takes no lock, while a worker that already waited out its two *)
(* seconds decrements under the lock, so the load and the store are apart. *)
(***************************************************************************)
CreateThread(w) ==
  /\ At(Main, "create") /\ pc[w] = "none" /\ \A v \in 1..(w-1) : pc[v] # "none"
  /\ pc' = [pc EXCEPT ![w] = "top", ![Main] = "load"]
  /\ UNCHANGED <<queueVars, counter, idle, quit, owner, hnd, localVars, reg>>

LoadCounter ==
  /\ At(Main, "load")
  /\ reg' = counter
  /\ Goto(Main, "store")
  /\ UNCHANGED <<queueVars, counter, idle, quit, owner, hnd, localVars>>

StoreCounter ==
  /\ At(Main, "store")
  /\ counter' = reg + 1
  /\ Goto(Main, "create")
  /\ UNCHANGED <<queueVars, idle, quit, owner, hnd, localVars, reg>>

InitDone ==
  /\ At(Main, "create") /\ \A w \in Workers : pc[w] # "none"
  /\ Goto(Main, "addlock")
  /\ UNCHANGED <<queueVars, counter, idle, quit, owner, hnd, localVars, reg>>

-----------------------------------------------------------------------------
(***************************************************************************)
(* threadpool_add_task: link the new task behind last, then signal if      *)
(* some worker is idle, else count one more thread.  The code counts the   *)
(* thread without creating it.  p is the program counters with the         *)
(* caller's already advanced.                                              *)
(***************************************************************************)
Link_ForgetsLast(new) ==     \* last set only when the queue was not empty
  /\ added' = new
  /\ tstate' = [tstate EXCEPT ![new] = "queued"]
  /\ first' = IF first = NULL THEN new ELSE first
  /\ next' = IF first = NULL THEN next ELSE [next EXCEPT ![last] = new]
  /\ last' = IF first = NULL THEN last ELSE new

Link_Front(new) ==           \* pushes at the head instead of the tail
  /\ added' = new
  /\ tstate' = [tstate EXCEPT ![new] = "queued"]
  /\ first' = new
  /\ next' = [next EXCEPT ![new] = first]
  /\ last' = IF first = NULL THEN new ELSE last

Link(new) ==
  /\ added' = new
  /\ tstate' = [tstate EXCEPT ![new] = "queued"]
  /\ first' = IF first = NULL THEN new ELSE first
  /\ next' = IF first = NULL THEN next ELSE [next EXCEPT ![last] = new]
  /\ last' = new

Announce_OnlyFirst(p) ==     \* signals only for the task that ends emptiness
  /\ pc' \in IF idle > 0 /\ first = NULL THEN condition_signal(p) ELSE {p}
  /\ counter' = IF idle <= 0 /\ counter < MaxThreads THEN counter + 1 ELSE counter

Announce_Unbounded(p) ==     \* forgets max_threads
  /\ pc' \in IF idle > 0 THEN condition_signal(p) ELSE {p}
  /\ counter' = IF idle <= 0 THEN counter + 1 ELSE counter

Announce_Silent(p) ==        \* leaves the new task to the next timeout
  /\ pc' = p
  /\ counter' = IF idle <= 0 /\ counter < MaxThreads THEN counter + 1 ELSE counter

Announce(p) ==
  \/ /\ idle > 0
     /\ pc' \in condition_signal(p)
     /\ UNCHANGED counter
  \/ /\ idle <= 0 /\ counter < MaxThreads
     /\ counter' = counter + 1
     /\ pc' = p
  \/ /\ idle <= 0 /\ counter >= MaxThreads       \* returns -1, the task stays
     /\ pc' = p
     /\ UNCHANGED counter

threadpool_add_task(p) ==
  /\ added < MaxTasks
  /\ Link(added + 1)
  /\ Announce(p)
  /\ condition_unlock
  /\ UNCHANGED <<idle, quit, localVars, reg>>

(***************************************************************************)
(* main submits the login task, then arms the timer.                       *)
(***************************************************************************)
LoginLock ==
  /\ At(Main, "addlock")
  /\ condition_lock(Main)
  /\ Goto(Main, "addbody")
  /\ UNCHANGED <<queueVars, counter, idle, quit, hnd, localVars, reg>>

LoginAdd ==
  /\ At(Main, "addbody")
  /\ threadpool_add_task([pc EXCEPT ![Main] = "arm"])
  /\ UNCHANGED hnd

timers_init ==
  /\ At(Main, "arm")
  /\ Goto(Main, "spin")
  /\ UNCHANGED <<queueVars, counter, idle, quit, owner, hnd, localVars, reg>>

(***************************************************************************)
(* SIGALRM, once the timer is armed, on a thread that is alive and not     *)
(* already in the handler.  One run of timers_manager submits one task or  *)
(* several; a tick on which no timer expires changes nothing here.         *)
(***************************************************************************)
TimerArmed_BeforeLogin ==    \* timers_init called before the login task is added
  pc[Main] \notin {"create", "load", "store"}

TimerArmed ==
  pc[Main] \in {"spin", "dlock", "dbody", "join", "drain", "dwait", "dwoken", "dfree"}

Alarm(t) ==
  /\ TimerArmed
  /\ t \in AlarmTargets /\ pc[t] \notin {"none", "exited"} /\ hnd[t] = "none"
  /\ added < MaxTasks
  /\ hnd' = [hnd EXCEPT ![t] = "lock"]
  /\ UNCHANGED <<queueVars, counter, idle, quit, owner, pc, localVars, reg>>

HandlerLock(t) ==
  /\ hnd[t] = "lock"
  /\ condition_lock(t)
  /\ hnd' = [hnd EXCEPT ![t] = "body"]
  /\ UNCHANGED <<queueVars, counter, idle, quit, pc, localVars, reg>>

HandlerAdd(t) ==
  /\ hnd[t] = "body"
  /\ threadpool_add_task(pc)
  /\ \E again \in {"none", "lock"} :
       /\ again = "lock" => added' < MaxTasks
       /\ hnd' = [hnd EXCEPT ![t] = again]

-----------------------------------------------------------------------------
(***************************************************************************)
(* thread_routine, one round of its loop.                                  *)
(***************************************************************************)
TopLock(w) ==                \* timeout = 0; lock; idle++
  /\ At(w, "top")
  /\ condition_lock(w)
  /\ idle' = idle + 1
  /\ timeout' = [timeout EXCEPT ![w] = FALSE]
  /\ Goto(w, "test")
  /\ UNCHANGED <<queueVars, counter, quit, hnd, task, reg>>

MustWait == first = NULL /\ ~quit

Wait(w) ==                   \* condition_timedwait releases the mutex
  /\ At(w, "test") /\ MustWait
  /\ condition_unlock
  /\ Goto(w, "wait")
  /\ UNCHANGED <<queueVars, counter, idle, quit, hnd, localVars, reg>>

WaitExpires(w) ==            \* ETIMEDOUT after two seconds
  /\ pc[w] = "wait"
  /\ Goto(w, "timedout")
  /\ UNCHANGED <<queueVars, counter, idle, quit, owner, hnd, localVars, reg>>

SpuriousWakeup(w) ==         \* pthread_cond_timedwait may return early
  /\ pc[w] = "wait"
  /\ Goto(w, "woken")
  /\ UNCHANGED <<queueVars, counter, idle, quit, owner, hnd, localVars, reg>>

WakeLock(w) ==
  /\ At(w, "woken")
  /\ condition_lock(w)
  /\ Goto(w, "test")
  /\ UNCHANGED <<queueVars, counter, idle, quit, hnd, localVars, reg>>

TimeoutLock(w) ==
  /\ At(w, "timedout")
  /\ condition_lock(w)
  /\ timeout' = [timeout EXCEPT ![w] = TRUE]
  /\ Goto(w, "leave")
  /\ UNCHANGED <<queueVars, counter, idle, quit, hnd, task, reg>>

OutOfLoop(w) == At(w, "leave") \/ (At(w, "test") /\ ~MustWait)

TakeTask_Stays(w) ==         \* runs the first task without unlinking it
  /\ OutOfLoop(w) /\ first # NULL
  /\ idle' = idle - 1
  /\ task' = [task EXCEPT ![w] = first]
  /\ tstate' = [tstate EXCEPT ![first] = "running"]
  /\ condition_unlock
  /\ Goto(w, "run")
  /\ UNCHANGED <<first, last, next, added, counter, quit, hnd, timeout, reg>>

TakeTask(w) ==               \* idle--; unlink the first task; unlock; run it
  /\ OutOfLoop(w) /\ first # NULL
  /\ idle' = idle - 1
  /\ task' = [task EXCEPT ![w] = first]
  /\ tstate' = [tstate EXCEPT ![first] = "running"]
  /\ first' = next[first]
  /\ condition_unlock
  /\ Goto(w, "run")
  /\ UNCHANGED <<last, next, added, counter, quit, hnd, timeout, reg>>

(***************************************************************************)
(* The end of a round: leave for good when the pool is being destroyed and *)
(* the queue is empty, or when this round's wait timed out.                *)
(***************************************************************************)
EndRound_NoBreak(w) ==       \* falls from the quit branch into the timeout one
  LET quits == quit /\ first = NULL
      one == IF quits THEN 1 ELSE 0
      two == IF timeout[w] THEN 1 ELSE 0
  IN  /\ counter' = counter - one - two
      /\ Goto(w, IF one + two > 0 THEN "exited" ELSE "top")
      /\ condition_unlock
      /\ UNCHANGED <<queueVars, quit, hnd, localVars, reg>>

EndRound_Silent(w) ==        \* the last worker to leave wakes nobody
  /\ IF (quit /\ first = NULL) \/ timeout[w]
     THEN counter' = counter - 1 /\ Goto(w, "exited")
     ELSE UNCHANGED counter /\ Goto(w, "top")
  /\ condition_unlock
  /\ UNCHANGED <<queueVars, quit, hnd, localVars, reg>>

EndRound(w) ==
  /\ \/ /\ quit /\ first = NULL
        /\ counter' = counter - 1
        /\ LET p == [pc EXCEPT ![w] = "exited"]
           IN  pc' \in IF counter' = 0 THEN condition_signal(p) ELSE {p}
     \/ /\ ~(quit /\ first = NULL) /\ timeout[w]
        /\ counter' = counter - 1
        /\ Goto(w, "exited")
     \/ /\ ~(quit /\ first = NULL) /\ ~timeout[w]
        /\ Goto(w, "top")
        /\ UNCHANGED counter
  /\ condition_unlock
  /\ UNCHANGED <<queueVars, quit, hnd, localVars, reg>>

LeaveEmpty_Idle(w) ==        \* idle-- only on the path that runs a task
  /\ OutOfLoop(w) /\ first = NULL
  /\ EndRound(w)
  /\ UNCHANGED idle

LeaveEmpty(w) ==             \* idle--, and no task to run
  /\ OutOfLoop(w) /\ first = NULL
  /\ idle' = idle - 1
  /\ EndRound(w)

FinishTask(w) ==             \* t->run returned; free(t)
  /\ At(w, "run")
  /\ tstate' = [tstate EXCEPT ![task[w]] = "freed"]
  /\ Goto(w, "relock")
  /\ UNCHANGED <<first, last, next, added, counter, idle, quit, owner, hnd, localVars, reg>>

Relock(w) ==
  /\ At(w, "relock")
  /\ condition_lock(w)
  /\ Goto(w, "round")
  /\ UNCHANGED <<queueVars, counter, idle, quit, hnd, localVars, reg>>

Round(w) ==
  /\ At(w, "round")
  /\ EndRound(w)
  /\ UNCHANGED idle

-----------------------------------------------------------------------------
(***************************************************************************)
(* threadpool_destroy.  Its first test reads quit without the lock.        *)
(***************************************************************************)
DestroyEnter ==
  /\ Destroys /\ At(Main, "spin") /\ ~quit
  /\ Goto(Main, "dlock")
  /\ UNCHANGED <<queueVars, counter, idle, quit, owner, hnd, localVars, reg>>

DestroyLock ==
  /\ At(Main, "dlock")
  /\ condition_lock(Main)
  /\ quit' = TRUE
  /\ Goto(Main, "dbody")
  /\ UNCHANGED <<queueVars, counter, idle, hnd, localVars, reg>>

DestroyBody_NoDrain ==       \* with nobody idle, forgets the busy workers
  /\ At(Main, "dbody")
  /\ pc' = IF counter > 0 /\ idle > 0
           THEN [condition_broadcast(pc) EXCEPT ![Main] = "join"]
           ELSE [pc EXCEPT ![Main] = "dfree"]
  /\ UNCHANGED <<queueVars, counter, idle, quit, owner, hnd, localVars, reg>>

DestroyBody ==
  /\ At(Main, "dbody")
  /\ pc' = IF counter > 0 /\ idle > 0
           THEN [condition_broadcast(pc) EXCEPT ![Main] = "join"]
           ELSE [pc EXCEPT ![Main] = IF counter > 0 THEN "drain" ELSE "dfree"]
  /\ UNCHANGED <<queueVars, counter, idle, quit, owner, hnd, localVars, reg>>

AtDrain ==                   \* past pthread_join of every tid, the mutex held
  /\ pc[Main] \in {"join", "drain"} /\ hnd[Main] = "none"
  /\ pc[Main] = "join" => \A w \in Workers : pc[w] = "exited"

DestroyWait ==
  /\ AtDrain /\ counter # 0
  /\ condition_unlock
  /\ Goto(Main, "dwait")
  /\ UNCHANGED <<queueVars, counter, idle, quit, hnd, localVars, reg>>

DestroyWake ==
  /\ At(Main, "dwoken")
  /\ condition_lock(Main)
  /\ Goto(Main, "drain")
  /\ UNCHANGED <<queueVars, counter, idle, quit, hnd, localVars, reg>>

DestroyDrained ==
  /\ AtDrain /\ counter = 0
  /\ Goto(Main, "dfree")
  /\ UNCHANGED <<queueVars, counter, idle, quit, owner, hnd, localVars, reg>>

DestroyFree ==               \* free the tids, the queue and the pool
  /\ At(Main, "dfree")
  /\ first' = NULL
  /\ tstate' = [t \in Tasks |-> IF tstate[t] = "queued" THEN "freed" ELSE tstate[t]]
  /\ condition_unlock
  /\ Goto(Main, "destroyed")
  /\ UNCHANGED <<last, next, added, counter, idle, quit, hnd, localVars, reg>>

threadpool_destroy ==
  \/ DestroyEnter \/ DestroyLock \/ DestroyBody
  \/ DestroyWait \/ DestroyWake \/ DestroyDrained \/ DestroyFree

-----------------------------------------------------------------------------
threadpool_init ==
  (\E w \in Workers : CreateThread(w)) \/ LoadCounter \/ StoreCounter \/ InitDone

main == threadpool_init \/ LoginLock \/ LoginAdd \/ timers_init \/ threadpool_destroy

handler(t) == HandlerLock(t) \/ HandlerAdd(t)

thread_routine(w) ==         \* the steps the thread takes when it is scheduled
  \/ TopLock(w) \/ Wait(w) \/ WakeLock(w) \/ TimeoutLock(w) \/ TakeTask(w)
  \/ LeaveEmpty(w) \/ FinishTask(w) \/ Relock(w) \/ Round(w)

Next ==
  \/ main
  \/ \E t \in Threads : Alarm(t) \/ handler(t)
  \/ \E w \in Workers : thread_routine(w) \/ WaitExpires(w) \/ SpuriousWakeup(w)

Spec == Init /\ [][Next]_vars

(***************************************************************************)
(* Scheduling: every thread that can take a step eventually takes one, and *)
(* a task returns unless it is one of Forever.  Nothing is assumed of the  *)
(* alarms, of the timeouts, or that main ever calls threadpool_destroy.    *)
(***************************************************************************)
InForever(w) == pc[w] = "run" /\ task[w] \in Forever

Fairness ==
  /\ WF_vars(main /\ ~DestroyEnter)
  /\ \A t \in Threads : WF_vars(handler(t))
  /\ \A w \in Workers : WF_vars(thread_routine(w) /\ ~InForever(w))

FairSpec == Spec /\ Fairness

-----------------------------------------------------------------------------
(***************************************************************************)
(* Every variable keeps its range; in particular counter never exceeds     *)
(* max_threads, although main increments it without the lock.              *)
(***************************************************************************)
TypeOK ==
  /\ first \in Tasks \cup {NULL} /\ last \in Tasks \cup {NULL}
  /\ next \in [Tasks -> Tasks \cup {NULL}]
  /\ added \in 0..MaxTasks
  /\ tstate \in [Tasks -> TaskStates]
  /\ counter \in Int /\ counter <= MaxThreads
  /\ idle \in Int
  /\ quit \in BOOLEAN
  /\ owner \in Threads \cup {NoThread}
  /\ pc \in [Threads -> WorkerPCs \cup MainPCs]
  /\ pc[Main] \in MainPCs /\ \A w \in Workers : pc[w] \in WorkerPCs
  /\ hnd \in [Threads -> {"none", "lock", "body"}]
  /\ timeout \in [Workers -> BOOLEAN]
  /\ task \in [Workers -> Tasks \cup {NULL}]
  /\ reg \in Int

(***************************************************************************)
(* threadpool_add_task tests only first and links behind last, which is    *)
(* never cleared: the chain from first must end at last and hold exactly   *)
(* the tasks that wait, oldest first, or a task is lost or met twice.      *)
(***************************************************************************)
QueueLinked ==
  /\ \A t \in Tasks : t > added => tstate[t] = "new" /\ next[t] = NULL
  /\ first = NULL => \A t \in Tasks : tstate[t] # "queued"
  /\ first # NULL =>
       /\ last = added /\ first <= last /\ next[last] = NULL
       /\ \A t \in Tasks : tstate[t] = "queued" <=> first <= t /\ t <= last
       /\ \A t \in Tasks : first <= t /\ t < last => next[t] = t + 1

(***************************************************************************)
(* idle is the number of workers between idle++ and idle--, whatever they  *)
(* do in between: waiting, woken, timed out or holding the mutex.          *)
(***************************************************************************)
IdlePCs == {"test", "wait", "woken", "timedout", "leave"}

In(S) == {w \in Workers : pc[w] \in S}

IdleCount == idle = Cardinality(In(IdlePCs))

(***************************************************************************)
(* While some worker sleeps on the condition, at least as many workers are *)
(* already on their way as tasks wait in the queue: threadpool_add_task    *)
(* and thread_routine never miss a signal, nor leave a task behind.        *)
(***************************************************************************)
Queued == {t \in Tasks : tstate[t] = "queued"}

NoLostWakeup ==
  In({"wait"}) # {} => Cardinality(In(IdlePCs \ {"wait"})) >= Cardinality(Queued)

(***************************************************************************)
(* A worker runs a task that no other worker runs and that is not freed.   *)
(***************************************************************************)
TaskHeldByOneWorker ==
  \A v \in Workers : pc[v] = "run" =>
    /\ task[v] \in Tasks /\ tstate[task[v]] = "running"
    /\ \A w \in Workers \ {v} : pc[w] = "run" => task[w] # task[v]

(***************************************************************************)
(* The unlocked counter++ of threadpool_init, the threads counted but not  *)
(* created and the threads that time out leave counter too high at worst:  *)
(* it never falls below the number of workers that still run.              *)
(***************************************************************************)
Live == {w \in Workers : pc[w] \notin {"none", "exited"}}

CounterCoversLive ==
  LET seen == CASE pc[Main] = "load" -> counter + 1
                [] pc[Main] = "store" -> reg + 1
                [] OTHER -> counter
  IN  seen >= Cardinality(Live)

(***************************************************************************)
(* threadpool_destroy frees the pool only after every worker has left its  *)
(* routine: counter = 0 is enough to know it.                              *)
(***************************************************************************)
PoolFreedOnlyWhenWorkersGone == pc[Main] \in {"dfree", "destroyed"} => Live = {}

(***************************************************************************)
(* The handler takes a mutex, which its own thread must not hold already:  *)
(* until threadpool_destroy, which keeps it while the timer still runs,    *)
(* main is interrupted only where it holds none.                           *)
(***************************************************************************)
AlarmNeverSelfBlocks ==
  ~quit => \A t \in Threads : ~(hnd[t] = "lock" /\ owner = t)

(***************************************************************************)
(* What the pool promises, without threads: see TaskQueue.                 *)
(***************************************************************************)
TQ == INSTANCE TaskQueue WITH MaxTasks <- MaxTasks, added <- added, tstate <- tstate

ImplementsTaskQueue == TQ!Spec

(***************************************************************************)
(* A queued task is taken, unless no worker is left to take it, because    *)
(* each has timed out or is in a task that does not return, or the pool is *)
(* being destroyed.                                                        *)
(***************************************************************************)
NobodyLeft == \A w \in Workers : pc[w] = "exited" \/ InForever(w)

Served ==
  \A t \in Tasks : tstate[t] = "queued" ~> tstate[t] # "queued" \/ NobodyLeft \/ quit

(***************************************************************************)
(* threadpool.c:124 says a thread is created for a task when nobody is     *)
(* idle and the limit is not reached: then every task is taken in the end. *)
(***************************************************************************)
AcceptedTaskStarts == \A t \in Tasks : tstate[t] = "queued" ~> tstate[t] # "queued"

(***************************************************************************)
(* The way through threadpool_destroy that does not deadlock: when it      *)
(* found nobody idle, it sleeps on the condition, and the last busy worker *)
(* must wake it.  It relies on a counter that tells the truth, an empty    *)
(* queue (a worker that timed out earlier leaves without a signal), tasks  *)
(* that return, and no handler that interrupts main meanwhile.             *)
(***************************************************************************)
DrainEnds ==
  pc[Main] = "drain" /\ first = NULL /\ counter = Cardinality(Live)
    ~> \/ pc[Main] = "destroyed" \/ hnd[Main] # "none"
       \/ \E w \in Workers : InForever(w)

(***************************************************************************)
(* threadpool.c:149-156 says destroy wakes the idle threads, reclaims them *)
(* and waits for the busy ones: it must return once the tasks do.          *)
(***************************************************************************)
DestroyReturns == pc[Main] = "dlock" ~> pc[Main] = "destroyed"

=============================================================================
