# lan_pihealth: a verification project

TLA+ models, TLC runs and TLAPS proofs for the health monitoring system in
this repository: a **Master** that keeps a list of clients on the LAN, checks
their heartbeat and collects their logs, and a **Client** that runs monitoring
scripts, keeps their logs and tests by itself whether the Master is there.

Paths are relative to the repository (`Master/Master.c` is
`src/Master/Master.c`). `PROJECT.json` lists the components, the runs, the
source lines every definition stands for, one mutant per property, the
findings, the hazards and the theorems.

## 1. The system

### Master: one process, several threads

| part | code | state | operations |
|---|---|---|---|
| thread pool | `threadpool/`, `condition/` | queue `first`/`last`, `counter`, `idle`, `quit`, mutex and condition `ready` | `threadpool_init`, `threadpool_add_task`, `thread_routine`, `threadpool_destroy` |
| timers | `Master.c` 233-291 | `interval` of `print_timer`, `heart_timer`, `ctrldata_timer` | `timers_init`, `timers_manager` (the SIGALRM handler), `print`, `heart`, `ctrldata` |
| user list | `node/`, `Master.c` 25-43 | linked list `linkedlist`, each node with address and `fd` | `head_node_init`, `node_create`, `insert`, `delete_node`, `check_ip`, `output` |
| login | `epoll/` | epoll set, one buffer `buf` for all connections | `do_epoll`, `handle_accpet`, `do_read`, `do_write` |
| heartbeat | `Master.c` 55-136 | sockets and `wset` of one round | `heart_pthread` |
| collection | `Master.c` 137-199 | control and data socket, the global `conf.Dir` | `ctrl_data_pthread` |
| configuration | `common/common.c` | none | `get_conf_value` |

`main` reads the configuration, builds the list from a range of addresses,
starts the workers, submits `login_pthread` (which never returns), arms a timer
of one second and spins. From then on everything is submitted by the handler of
SIGALRM, on whatever thread the kernel interrupts. The list is used by the
login task, by each heartbeat task and by the handler **without a lock**; the
pool's mutex protects the pool only.

### Client: eleven processes

| part | code | state | operations |
|---|---|---|---|
| login | `Client.c` 169-179 | one TCP connection | connect, send name, block for the welcome |
| heartbeat listener | `Client.c` 185-203 | none | accept and close |
| self-test | `Client.c` 72-83, 212-240, 354-356 | shared memory: `cnt`, `time`, mutex, condition | script 0 counts, the tester probes with `heart_test`, the control server clears |
| scripts (six processes) | `Client.c` 28-114 | the process's `buffer`; the files `Log` and `Back` | `popen_script`, `file_size`, `backup` |
| control server | `Client.c` 257-359 | control and data connection; the files | `unback`, `send_file`, `remove` |
| warnings | `Client.c` 55-65, `common.c` 149-176, 407-421 | none | `strtok_func`, `socket_connect_udp` |
| configuration | `common/common.c` | none | `get_conf_value` |

### How they interact

    client                                    Master
    login: connect, send name  ------------>  epoll loop: inserts the address, welcomes
    heartbeat listener         <------------  heart_pthread: connects to every listed address
    control server             <------------  ctrl_data_pthread: 100+i, answer 200+i or 400+i
    data listener              <------------  ctrl_data_pthread: one connection per log
    tester (heart_test)        ------------>  epoll loop: accepted, inserted, closed

### What is hard in it

* **Interleaving without locks**: the user list, `conf.Dir`, the login buffer,
  the client's log files, `threadpool_init`'s `counter++`, the tester's read of
  `time`.
* **Signals**: a handler that takes the pool's mutex, and that two threads can
  run at the same time.
* **Waiting**: workers that time out for good, a condition waited on without a
  predicate, a `recv` without a timeout, `pthread_join` under a mutex.
* **Failure between two steps**: a data connection that fails or completes too
  late, an `accept`, `send_file` or `remove` that fails after the answer was sent,
  `unback` of an empty file, a send that fails before a remove, a client killed in
  the middle of a session or of a write, a host that vanishes without closing its
  connections, a Master that dies of SIGPIPE.
* **Limits**: period 0, the buffer of a script, descriptors that are not closed.

### What makes each part correct

* pool: the queue is always a proper chain; a task is taken once, in order, and
  never left while a worker sleeps; `counter` is high enough for
  `threadpool_destroy` to trust it.
* timers: each fires exactly at its rate, an unset one never.
* list: no freed node reachable, no socket of a round left open, who answers stays,
  who is gone leaves, who was lost by a race comes back, and no address is listed
  twice. The last fails in one interleaving, after which the others do too.
* login: each client that connects gets its welcome.
* collection: an answer belongs to its request, a data connection to its session;
  logs are stored in order and once; what the client removes is stored; a request
  is answered. That a file belongs to its client and log is not true of the code.
* self-test: silence of the Master is noticed and probed, again and again.
* log files: the file promised to the Master is there, and a backup can be unpacked.
  That no line is lost is not true of the code.
* warnings: exactly the lines meant are reported.
* configuration: a name that is given is read, a missing one is empty.

## 2. Modules and their correspondence to the code

| module | models | state | one action per |
|---|---|---|---|
| `TaskQueue` | abstract pool: first in first out, each task taken once | number of tasks, state of each | submit, take, finish, abandon |
| `ThreadPool` | `threadpool.c`, `condition.c`, `main` and the handler that submit | the fields of `threadpool_t`, the owner of the mutex, a program counter per thread and per handler, locals `t` and `timeout` | section of code between two lock operations |
| `ThreadPoolProofs` | proofs about `ThreadPool`: the queue; the numbers and the mutex | | |
| `Timers`, `MCTimers` | `timers_manager`, SIGALRM and its delivery | the intervals, the pending signal, the place of each thread in the handler | decrement, test with reset, call |
| `TimersProofs` | proofs about `Timers` | | |
| `UserList`, `MCUserList` | the list and every thread on it | `next`, `addr`, `fd` per heap block, which blocks are allocated, every walking pointer, `missed`, `crashed` | one read of `p->next` in the login task and `ctrldata`; one iteration of a heartbeat's loop; `delete_node` |
| `UserListProofs` | proofs about `UserList` | | |
| `Registration`, `MCRegistration` | `UserList` composed with the self-test of the clients | that of `UserList` | (none of its own: `heart_test` is an accept of `UserList`, `Collected` the start of a task with the client's address) |
| `Login` | `epoll.c` and the client's login | per connection: peer, socket contents, registered event; `buf` | one call of a handler for one descriptor |
| `LoginProofs` | proofs about `Login` | | |
| `Collection` | abstract collection: each log asked for, promised, stored, or given up | what has become of each log of each task | ask, promise, store, skip, stop |
| `DataSession`, `MCDataSession` | `ctrl_data_pthread` and the control server | place of each task and server, contents of every connection, `conf.Dir` as a path, files written, which connections died or were left by a vanished host, what has the number of a closed descriptor | one system call or one change of `conf.Dir`; a call that fails; kill, vanish, restart |
| `DataSessionProofs` | proofs about `DataSession`, the refinement of `Collection` included | | |
| `SelfTest` | the shared memory segment and its three processes | `cnt`, `time`, the lock word, a program counter per process | one read, write, lock or unlock |
| `SelfTestProofs` | proofs about `SelfTest` | | |
| `ClientLog` | the files of one script | contents of `Log`, `Back`, `BLog`, the script's buffer, what was sent | one open, append, read, send or remove |
| `ClientLogProofs` | proofs about `ClientLog` | | |
| `Config`, `MCConfig` | `get_conf_value` | the file, the line to read, `value` | one line read |
| `WarnFilter`, `MCWarnFilter` | the reading loop of `popen_script`, `strtok_func`, `socket_connect_udp` | the lines of a round, the copy `test` as cells, where `strtok` left off, datagrams sent | one `fgets`, one `strtok`, one `sendto` |
| `TextProofs` | proofs about `WarnFilter` and `Config` | | |

Every property has a mutated definition beside the definition it changes
(`Link_ForgetsLast` beside `Link`): the code with a plausible bug, on which the
run must find the property violated.

Points worth knowing when reading the modules:

* **ThreadPool.** The mutex is explicit (`owner`), for the handler and
  `threadpool_destroy` both hold or want it at awkward moments.
  `pool->counter++` in `threadpool_init` is a load and a store, since the
  workers already run. A signal makes one blocked thread runnable, any one; a
  waiter may also time out or wake without a signal. `Forever` are the tasks
  that need not return: `login_pthread` is task 1. `Destroys` adds
  `threadpool_destroy` after `while(1)`: the shipped `main` never gets there, but
  it is a function of the pool with its own promises.
* **UserList.** Blocks are a fixed set of heap cells; `free` only takes the cell
  out of `live`. Its `next` stays until `node_create` reuses it, which is what makes
  a walk over a freed node visible; its address is overwritten by `free`, so that
  `check_ip` may or may not find it equal. `fd` is the heartbeat round that set it.
  The makefiles do not ask for optimisation, so a loop reads `p->next` for its test,
  for its body and for its advance: in `check_ip`, `insert` and `ctrldata` these are
  steps of their own (`CheckTest`, `CheckCompare`, `CheckAdvance`, and so on).
  `missed` records the one interleaving in which `check_ip` passes over the address
  it looks for: the node just compared is deleted, and `p = p->next` comes to stand
  on the one behind it. From then on an address may be listed twice, `delete_node`
  may find the other one, and the properties of the list promise nothing. `Crash` is
  a thread that follows NULL; nothing happens after it. In a heartbeat's loops an
  iteration is one step, since as long as one heartbeat runs nobody else changes a
  `next` that is not NULL; with two it shows less than the code does.
* **SelfTest.** Unlocking a mutex one does not hold is undefined in POSIX; for
  the process-shared default mutex of glibc it clears the lock word, and that is
  the outcome modelled. `ScriptExits` is the `exit(1)` of a `popen` that fails.
  `quiet` is a history variable: the rounds since the Master was last seen.
* **ClientLog.** `BLog` is either a file of its own or the log itself: with the
  shipped `client.conf`, `get_conf_value("Log0")` returns the value of `BLog0`,
  because `Log0=` is a substring of the later line (see `Config`).
* **UserList, sockets.** `unclosed` holds the clients to whom a heartbeat has a
  socket open. A node's `fd` is the only record of it, so `SocketsClosed` says
  that each belongs to a node the second loop has yet to reach. `SocketFails` is the
  return of `Master.c` 72-83 in the middle of the first loop.
* **Login.** `do_read` reads to the start of `buf` (`epoll.c` 81), over what it
  holds: `buf` is the set of names not sent yet, any of which a new name may wipe
  out. `ConnectFails` is a client that goes on without
  the Master, and whose connection may turn up in `accept` all the same; when
  `socket_create_tcp` failed, nobody can connect.
* **DataSession.** A connection that times out after half a second may still
  turn up in the other host's backlog. After `close(data_fd)` the number is free
  until the next `recv` on it: another task's socket, the login's or a heartbeat's
  may be given it (`taken`), and the `recv` then reads from that connection
  (`RecvForeign`, `RecvOther`) and the next `close` ends it. What follows once it
  has got something there (`foreign`), or once a task follows a NULL `conf.Dir`
  (`crashed`), is not modelled: the behaviours stop.
  `ServerAnswer` has a third outcome, no answer: `ClientLog` shows when.
  `DataAcceptFails`, and the second outcomes of `ServerData` and `ServerRemove`, are
  the calls after the answer that fail and `continue`, with the connection left in
  the backlog or open. A kill takes the client's connections with it; the next
  `send` of a task fails, goes into the void, or raises SIGPIPE, which ends the
  Master with all its tasks (`Die`). Tasks that have not connected by then are those
  of the Master that is started next. A host that vanishes (`Vanish`) leaves its
  connections as they are on the Master (`lost`); a request to it is given up in the
  end (`Reset`), a task that waits for data waits for ever. A client may be started
  again at any time, the files as they were. `strayed` is set by the two events
  after which a data connection may come to a session that is not its own: an accept
  that failed, and a data connection opened to a client started again since its
  answer.
* **Collection.** The abstract status of a log is computed from a task's place,
  its counter `kind` and what is stored; no history variable is needed. `void` is
  `foreign \/ crashed`: from then on nothing is promised.
* **ClientLog, kill.** Of a write that a kill cuts off, a part may be in the file;
  a part of a record of `Back` is `Torn`. `born` marks the lines printed before
  the last kill.
* **ClientLog, the buffer.** `popen_script` adds each round's lines to a buffer of
  `4 * MAX_SIZE` bytes that it never empties, with `strcat` (`Client.c` 29, 44, 53).
  Once it is full the process writes over its own stack, which has no defined
  meaning; the outcome modelled is that the script ends (`ScriptEnds`), as it does
  when `popen` or `fopen` fails, and it may do so in any round. `GiveUp` are the
  calls of the server that fail and `continue`.
* **WarnFilter.** The copy is a sequence of cells, a word or a blank each, in which
  `strtok` writes NULs. Both calls of `strtok_func` in `Client.c:55` work on the
  same copy, and the second sees what the first left.
* **Registration.** Of `SelfTest` only the property `SilenceIsProbed` is used, as an
  assumption on the environment of `UserList`. The run `selftest` shows that the
  client's tester opens its connection again and again (`heart_test`); the premise is
  stronger, in that the Master's `accept` must see those connections.

## 3. Runs

Twelve runs. All finish in minutes with two workers; the times are in seconds.

| run | instance | states | time | what it shows |
|---|---|---|---|---|
| `pool` | 2 workers, 4 tasks, task 1 need not return, alarms on main, destroy | 120 k | 45 | queue, counters and wakeups of the pool; refinement of `TaskQueue`; a task is served while a worker is left; `threadpool_destroy` returns where it does not deadlock |
| `user` | 3 listed clients, the middle one comes and goes, 1 heartbeat | 241 k | 40 | with one heartbeat at a time, and until `check_ip` misses a node (`missed`), the unlocked list stays sound, the sockets of a round are closed, and a round that somebody answered leaves exactly those that did |
| `registration` | a newcomer and a client that comes and goes, 2 nodes, `ctrldata` | 1251 k | 170 | a client that stays up is listed again and again, unless the Master crashes or has listed an address twice |
| `timers_rate` | periods 2, 3, 0; 20 alarms; one thread | 3 k | 2 | exact rates |
| `selftest` | `Self_Test` = 3; deadlock checked | 26 k | 5 | the stray unlock and the lost signals never stop the self-test |
| `log` | 4 lines, 3 requests, 1 kill, size limit 3, `BLog` either file | 833 k | 15 | the file answered for is still there when it is sent; only a kill leaves a `Back` that never unpacks |
| `config_value` | all files of up to 3 entries, 4 names, 5 values, every line with its newline | 60 k | 10 | a name on one line only is read right, one on none is empty |
| `login` | 3 clients and a probe, connects that fail | 172 k | 25 | the shared buffer never keeps a welcome, one client at a time works |
| `session` | 2 tasks for one client, 2 logs of 0 or 2 buffers, 1 kill | 477 k | 190 | answers stay matched, data connections too but for two named causes; what was sent is stored; refinement of `Collection`; what a waiting task waits for |
| `warn` | 2 lines of up to 6 words and blanks, one script of the memory kind and one other | 107 k | 5 | the lines reported are those that end in `note` |
| `pool_accepted` | 2 workers, 2 tasks | | | **violated**: an accepted task may never start |
| `login_together` | 2 clients | | | **violated**: one client never gets its welcome |

Why the bounds are enough: two workers already give a signal the choice of its
receiver and leave one worker beside the login task, and four tasks let the
queue grow, empty and grow again (three workers and three tasks, 729 k states,
were checked by hand with the same outcome). Three list nodes have a first, a
middle and a last one; in `registration` the newcomer needs only one node beside
the other client's. Two tasks let a session start while one is served, and one
find the descriptor number of the other; one kill, or one host that vanishes, can
hit any point of either.
Tasks for two clients (`session_two.cfg`, 673 k states, by hand) leave
`AnswerFitsRequest`, `RequestHeld` and `ImplementsOrdered` true. `Self_Test` = 3 separates
the first, the middle and the last round. Logs of
no and of two buffers reach every branch of the collection loop. Three entries
let a second match overwrite the first with a third line around them. Six cells
hold two words, blanks before, between and after them, and the level; two lines
show a copy with the remains of a longer one in it.

Deadlock is checked where the system never stops (`selftest`, `user`, `warn`). It
is not checked where a bound ends the behaviour (`timers_rate`, `log`,
`config_value`, `session`, `login`, and `registration`, whose nodes can run out) or
where the system really may stop (`pool`, after `threadpool_destroy`).

### Fairness

* `pool`: threads that can run do run; a task returns unless it is in `Forever`.
  Nothing is assumed of alarms, timeouts, spurious wakeups or the call of
  `threadpool_destroy`. Weak fairness on a lock is enough since nobody needs a
  lock that is taken again and again for ever. `DrainEnds` has as premises an
  empty queue and a counter that equals the number of live workers: without the
  first, a worker that timed out in an earlier round leaves without a signal
  (`threadpool.c` 68-72); without the second, no worker ever brings `counter` to 0.
* `user`: the heart timer keeps starting rounds and a round goes on. Logins and
  clients are free. `GoneIsRemoved` has as premises that the Master does not crash or
  list an address twice, and that `socket` and `ioctl` do not fail for ever.
* `registration`: as `user`, and the login task goes on. The property has three
  premises: what the client's own self-test promises (`SelfTest!SilenceIsProbed`:
  if from some point on no task is started with its address, it connects to the
  login port again and again), that the other clients stop coming and going, and
  that the Master does not crash or list an address twice.
* `selftest`: processes run; the three that want the mutex get it if it is free
  again and again (strong fairness), because the holder sleeps for seconds
  between two uses. The Master and spurious wakeups are free. `SilenceIsProbed` is
  about a client whose script process lives.
* `login`: `epoll_wait` returns every descriptor that stays ready; a client goes
  on unless killed. Connects may fail.
* `session`: threads and servers run. Connections may always fail, clients may be
  killed and need not be restarted. `AnsweredUnlessStuck` names what stops a task
  for ever: a task that returned with its connection open (`Master.c:174`), a
  request the server did not answer (`Client.c:321`), a server that waits for the
  data connection of a Master that died, a task that waits for data the server does
  not send or for the end of a connection it does not close (`Client.c` 298-313,
  331-347), a host that vanished, a data connection that missed its session, and a
  descriptor number used again.

### Counterexample configurations

These further configurations each check one property that a document or comment
of the repository suggests and that the code does not have. They are kept as
illustrations beside the runs above; TLC reports a violation for each
(`tlc -config X.cfg M`).

| configuration | module | property | what TLC shows |
|---|---|---|---|
| `pool_destroy_returns` | `ThreadPool` | `DestroyReturns` | `threadpool.c:152-154` joins the workers under the mutex they need |
| `user_silent` | `MCUserList` | `GoneIsRemoved` | when no host answers, `nfd > 0` fails (`Master.c:104`) and nobody is removed |
| `user_twice` | `MCUserList` | `ListedOnce` | `check_ip` passes over a node behind one just deleted (`node.c` 77-81); its address is listed twice |
| `user_crash` | `MCUserList` | `NeverCrashes` | the tail is deleted between two reads of `p->next`; the login task follows NULL |
| `user_argument` | `MCUserList` | `CtrlArgumentLive` | a queued task holds the address of a freed node (`Master.c:264`) |
| `user_newcomer` | `MCUserList` | `LoggedInStays` | a client that logs in between the two loops of a heartbeat is deleted (`Master.c:107`) |
| `user_overlap` | `MCUserList` | `LoyalStaysListed` | two heartbeats overwrite each other's `fd`; a client that answers is deleted |
| `timers_overlap` | `MCTimers` | `NeverPastZero` | two threads in `timers_manager` step over zero; the timer is dead |
| `selftest_alarm` | `SelfTest` | `NoFalseAlarm` | an update is lost and the alarm is raised though the Master was there |
| `log_lost` | `ClientLog` | `LineKept` | the server removes a log it could not send, or that was appended to since it was read |
| `log_unanswered` | `ClientLog` | `RequestAnswered` | `unback` fails on a `Back` not yet written, and no answer is sent |
| `config_log` | `MCConfig` | `OwnEntryRead` | `Log0` reads the value of `BLog0` |
| `session_stuck` | `MCDataSession` | `RequestIsAnswered` | `Master.c:174` returns without `close(ctrl_fd)`; the next task is never answered |
| `session_mixed` | `MCDataSession` | `StoredUnderOwnName` | two clients: `conf.Dir` of one task is changed by the other |
| `session_stray` | `MCDataSession` | `SessionsKeepData` | after an accept that failed, or a restart, a data connection is in the queue of a session that is not its own |
| `session_foreign` | `MCDataSession` | `OwnDataOnly` | after `close(data_fd)` in the loop, `recv` reads from another task's connection |
| `session_whole` | `MCDataSession` | `WholeLogStored` | `close(data_fd)` inside the loop: only the first buffer is stored |
| `warn_level` | `MCWarnFilter` | `WarningIsReported` | a line of level `warning` is not reported: the search for `note` has cut the copy (`Client.c:55`) |
| `warn_datagram` | `MCWarnFilter` | `LevelIsSent` | `sizeof(buff)` of a pointer: the level does not leave the client (`common.c:167`) |

## 4. Proofs

TLAPS proves, for every value of the constants:

| theorem | statement |
|---|---|
| `ThreadPoolProofs!TypeCorrect` | `Spec => []TypeOK` |
| `ThreadPoolProofs!QueueAlwaysLinked` | `Spec => []QueueLinked` |
| `ThreadPoolProofs!TaskNeverShared` | `Spec => []TaskHeldByOneWorker` |
| `ThreadPoolProofs!PoolImplementsTaskQueue` | `Spec => ImplementsTaskQueue` |
| `TimersProofs!TimersTyped` | `Spec => []TypeOK` |
| `TimersProofs!TimersKeepRate` | `Spec => []FiresOncePerPeriod` |
| `TimersProofs!UnsetTimersSilent` | `Spec => []UnsetNeverFires` |
| `TimersProofs!OneThreadIsAccurate` | `Spec => []NeverPastZero`, if `Handlers = {t}` |
| `ThreadPoolProofs!IdleIsCounted` | `Spec => []IdleCount` |
| `ThreadPoolProofs!WakeupNeverLost` | `Spec => []NoLostWakeup` |
| `ThreadPoolProofs!CounterIsEnough` | `Spec => []CounterCoversLive` |
| `ThreadPoolProofs!PoolFreedLast` | `Spec => []PoolFreedOnlyWhenWorkersGone` |
| `ThreadPoolProofs!HandlerNeverSelfBlocks` | `Spec => []AlarmNeverSelfBlocks`, if `AlarmTargets \subseteq {Main}` |
| `UserListProofs!TypeCorrect` | `Spec => []TypeOK` |
| `UserListProofs!UserListedOnce` | `Spec => []NoDuplicateUser`, if `OneHeart` |
| `UserListProofs!ListStaysLive` | `Spec => []ListIsLive`, if `OneHeart` |
| `UserListProofs!RoundClosesSockets` | `Spec => []SocketsClosed`, if `OneHeart` |
| `UserListProofs!RoundLeavesAnswers` | `Spec => []RoundIsExact`, if `OneHeart` |
| `UserListProofs!LoyalUserStays` | `Spec => []LoyalStaysListed`, if `OneHeart` |
| `LoginProofs!TypeCorrect` | `Spec => []TypeOK` |
| `LoginProofs!BufferNeverForgotten` | `Spec => []BufferWillBeSent` |
| `LoginProofs!LoneNameComesBack` | `Spec => []NameComesBack` |
| `DataSessionProofs!TypeCorrect` | `Spec => []TypeOK` |
| `DataSessionProofs!AnswersInStep` | `Spec => []AnswerFitsRequest` |
| `DataSessionProofs!DataToItsSession` | `Spec => []DataGoesToItsSession` |
| `DataSessionProofs!SentNotLost` | `Spec => []SentIsStored` |
| `DataSessionProofs!RequestNeverLost` | `Spec => []RequestHeld` |
| `DataSessionProofs!SessionKeepsOrder` | `Spec => ImplementsOrdered` |
| `SelfTestProofs!TypeCorrect` | `Spec => []TypeOK` |
| `SelfTestProofs!FailureNeverForgotten` | `Spec => FailureRemembered` |
| `ClientLogProofs!TypeCorrect` | `Spec => []TypeOK` |
| `ClientLogProofs!PromisedFileStays` | `Spec => []FileStillThere` |
| `ClientLogProofs!BackupsUnpack` | `Spec => []BackUnpacks` |
| `TextProofs!TypeCorrect` | `Spec => []TypeOK` (`WarnFilter`) |
| `TextProofs!NotesReported` | `Spec => []ReportsNotes` |
| `TextProofs!NameIsRead` | `ConfSpec => []UnambiguousNameRead` (`Config`) |

The assumptions on the constants only give them their types and tell names
apart: `PoolAssumption` (numbers of threads and tasks are naturals, the other
constants are subsets of theirs), `TimersAssumption` (three integer periods),
`UserAssumption` (the configured range has at most `MaxNodes` addresses, no two
the same; there is a client), `LoginAssumption` (a probe is not a client),
`SessionAssumption` (every task has a client, the logs are numbered from 0),
`SelfTestAssumption` and `ClientLogAssumption` (limits are naturals),
`WarnAssumption` (words, line ends, blank and NUL are different cells; a level with its
newline is a line end, not a word), `ConfigAssumption` (files are sequences of
entries made of texts). Three groups of theorems have a hypothesis of their own, and each is needed:

* `AlarmTargets \subseteq {Main}`: the kernel gives a SIGALRM meant for the process
  to main as long as main does not block it. It is blocked on main only while main
  runs the handler itself: an alarm that comes before the handler of the last one has
  ended may go to a worker, which this hypothesis leaves out.
  A worker that is interrupted while it holds the pool's mutex would block itself.
* `Handlers = {t}`: SIGALRM is delivered to one thread, by the argument above to main.
  It is a premise inside `FiresOncePerPeriod` and the hypothesis of
  `OneThreadIsAccurate`. `timers_overlap.cfg` shows two threads stepping over zero.
* `OneHeart`: a heartbeat task ends before the timer starts the next one, as in the
  run `user`. `user_overlap.cfg` shows two at a time breaking `LoyalStaysListed`.

**ThreadPool, types.** `TypeOK` is not inductive: nothing in it says why
`counter`, incremented without the lock, stays within `max_threads`. `TypeInv`
adds two facts. *CreationBound*: while the workers are being created, `counter`
(or the copy main has loaded) is below the number of every worker not created
yet; workers only ever decrement, so a lost update can only raise `counter` up to
the loop's own count. *Armed*: no handler runs before main has armed the timer,
so nobody else increments meanwhile. The step lemmas treat main while it creates
(`MainStep`), plain steps (`PlainStep`), a submission (`AddTaskData`) and the end
of a worker's round (`EndRoundType`); `TypeNext` puts them together.

**ThreadPool, queue and refinement.** `QueueInv` is `QueueLinked` with
`TaskHeldByOneWorker`. Tasks are numbered as they are submitted, so the chain
from `first` must be `first, first + 1, ..., last`; together with "exactly those
are queued" this is inductive. One lemma per kind of step shows both that
`QueueInv` is kept and which step of `TaskQueue` it is: `QueueAdd` a Submit,
`QueueTake` a Take (the head is the oldest waiting task), `QueueFinish` a Finish,
`QueueFree` an Abandon, `QueueOther` a stutter.

**ThreadPool, numbers.** `IdleCount` is inductive given the types; the lemmas on
`InP` say how a set of workers at given places changes when one moves, and
`Nudged` what a signal may do to all of them. `NoLostWakeup` is not inductive: a
signal could reach main, which waits on the same condition in
`threadpool_destroy`. `DestroyWakes` adds that by then `quit` is set and no worker
waits any more. `Covers` is `CounterCoversLive` with the value main is about to
store in place of `counter`; it holds in spite of the unlocked increment because
a lost update only ever leaves `counter` too high. From it follows that when
`threadpool_destroy` sees 0, no worker is left. `AlarmNeverSelfBlocks` needs where
handlers run (`HandlerOnMain`) and when main owns the mutex itself (`MainHolds`).

**Timers.** `FiresOncePerPeriod` speaks of a quotient: a timer has fired as often as
its period goes into the alarms counted. Quotients are not inductive; `OnTime` is:
the alarms counted are `SET` for each expiry and those since the last one, and
between 1 and `SET` of them are left until the next (`RateStep`). `DivIs` turns this
into the quotient, and that at least one alarm is left also means that the
interval never passes zero (`OneThreadIsAccurate`). For timers with a period
of zero or less, `UnsetInv` adds that the interval is below zero whenever the handler is about to test it.

**UserList.** What a walk still reaches is the heart of it, from freed nodes too:
`After(next, p)` is the least set that holds the successor of `p` and of each of
its members. That no walk can lose what it has still to visit is then a
statement about sets, and that `Path`, which the properties are written with,
visits exactly those (`LinkedIsAfter`) takes the only inductions of the project:
over numbers and finite sets, by least counterexamples. `UserInv` holds until
`missed`: no two listed nodes have the same successor, listed nodes
are allocated and have different addresses (`ListInv`); `check_ip`, wherever it
stands, still reaches the node with its address if there is one, and what it has
compared has another address or is off the list (`CheckInv`), so that its advance
can lose the node only by landing on it, which is what `missed` records; the
new node ends the list it will be put in, and its address is nowhere on it
(`InsertInv`). `HeartInv` adds, for one heartbeat at a time, that its walk is on
the list, that each of its sockets belongs to a node it has still to pass,
that the nodes of loyal clients are connected or have still to be, and that every
node its second loop has passed is connected (`HeartExact`). The last needs that a
new node is always linked ahead of a walk on the list, since every such walk comes
to the list's end (`LastReached`). All but `TypeCorrect` assume `OneHeart`, under
which one step per iteration of a heartbeat's loops is what the code does.

**Login.** `TypeOK` is not inductive: it says that a name is not both in a socket
and in `buf`, and sending a name would break that if it were in `buf` already.
`NamesOnce` says that a name is in one place, the client itself included;
`NoneBefore` that only connections somebody tried to open have a descriptor.
`NameComesBack` is the safety of `AloneIsWelcomed`: while no other client has come to
log in, a client's name is in its socket, in `buf` with its own descriptor to be
written, or in its own welcome. It needs `ReadFirst`: only the descriptor of a name
that was read is written, so no probe and no connection given up takes it.

**DataSession.** The answers: on each connection at most one message is under way,
a request or its answer, and it belongs to the log its task is at (`Exchange`), unless
the task went down with the Master; and a connection whose client has ended or whose
host has vanished has no request in it (`Quiet`). The data, until a connection has
missed its session (`strayed`): whoever has been promised a log has the server to
itself, waiting for that task and that log, unless its connection is cut
(`PromiseKept`), so what is in a data queue is that one connection (`QueuedOwn`).
`SentInv` follows a log from `send_file` to the file; it needs that a task that works
has its control connection open (`OpenInv`), which is what keeps the next task out.
`Sessions` puts these together: they hold until `strayed`, and no step is left after
`crashed`. Nothing is assumed of which socket gets a number that was closed: until
the first byte is taken from it (`foreign`), a number used again is only a task that
waits somewhere else.

`RequestHeld` is the safety of `AnsweredUnlessStuck`: while a task waits for an
answer, its client lives and its host has not vanished, the request is where the
server will come to it, or the server left it unanswered. `HoldInv` has four parts,
until `strayed`: a task with a live connection is queued or served (`Held`); a server
that waits for a data connection has promised its task a log, or the task has opened
it (`Owed`), so the two never wait for each other; the request or the answer of a task
that waits is under way, or its server is in `recv` for it (`Heard`); and who has not
connected is not known to a server (`Unknown`).

**DataSession refines Collection.** `OrderInv` says that a log is stored at the end of
its round and not before (`StoredPast`, `StoredNow`), until a task has read from another
one's connection or has found `conf.Dir` NULL. With it each step of a task is an Ask,
Promise, Store, Skip or Stop of `Ordered`, each step of a server, a client, a host or
another socket a stutter, and the two accidents a Void. No hypothesis on the number of
clients is needed, since the file a log goes to is no part of it: that is a matter of
`conf.Dir`, which two tasks do mix up (`session_mixed.cfg`).

**SelfTest.** No proof uses the mutex, which excludes nobody after the stray unlock.
`CntBound`: only the script raises `cnt`, from a value it has read, so it is below
`Self_Test` except where the script has just found that it is not. `TimeBound`: the
tester passes `Self_Test` only between a failed probe and the end of its nap.

**ClientLog.** `BackUnpacks` needs `NeverEmpty`: nothing empty is ever compressed,
though the log may be removed by the server between the script's look at it and its
copy. `OpenIsNamed` and `ServerFile` say that the file a process has open, or has
promised, is still the one with that name unless the server removed it.

**WarnFilter.** `ReportsNotes` needs to know what the search for `note` leaves of the
copy. `SearchNote`: while it goes on, the copy from `save` on is still the line's, so
it comes to the last word of the line. `SearchWarning`: when it ends without a find,
the copy holds the first word alone, cut off by a NUL, so the search for `warning`
finds nothing after it. `ReportInv` says which of the lines done were reported. That
each `strtok` finds a place to stop (`Strtok`) is what `CutAtBlanks`, the last part of
`TypeOK`, is for: the copy ends where the line does, and `save` is not past its end.

**Config.** `ReadInv` says of the lines read so far what the property says of the
whole file: `value` is empty while none of them mentions the name followed by "=", and
the value of the only one that does, afterwards (`OnlyOwn`). No induction over the file
is needed, since the step reads one line. The lemmas are about `strstr` (`Strstr`:
it finds the first place) and about what is copied (`OwnLine`).

**Only model-checked.** Liveness (`Served`, `DrainEnds`, `GoneIsRemoved`,
`ListedAgain`, `SilenceIsProbed`, `AloneIsWelcomed`, `AnsweredUnlessStuck`), since
fairness and `ENABLED` are out of the prover's reach. Every invariant the passing
runs check is a theorem, for all values of the constants or under the hypotheses
above.

## 5. Not modelled

* The receiver of warnings on the Master, which is commented out (`Master.c`
  200-230): what reaches the network is the last thing `WarnFilter` knows.
* `write_log`, `print_pthread`, `output` (it walks the list as `ctrldata` does and
  can only crash), `socket_create_udp`, the shell scripts and
  makefiles: output, set-up or text with no state that anything reads back.
  `socket_create_tcp`, `socket_connect_tcp` and `socket_connect_udp` are modelled as
  what their callers see, not call by call on the operating system.
* Functions nothing calls: `set_timer`, `rss_func`, `my_inet_ntoa`, `get_conf_argv`,
  `handle_connect`, `client_ip`, `look_ip`, `reverse`, `clear`; the database
  parameters.
* Bytes: what a process does after `popen_script`'s `buffer` has overflowed (see
  above), and the limit on descriptor numbers, except as calls that may fail. The
  reuse of numbers is modelled where the program depends on it, in `DataSession`
  (`taken`).
* A freed node given to another `malloc` than `node_create`'s: a walk that stands on
  it would then read as `next` what that caller wrote.
* What happens after a task of `DataSession` has read from a connection that is not
  its own, and after an address is listed twice: the properties end there.
* Crashes of the Master other than by SIGPIPE, by a NULL `conf.Dir` and by a NULL
  pointer in the list; its list is rebuilt from the configuration, so a restart is
  the initial state of `UserList`. In `Registration` the Master does not crash.

## 6. Plan

Done: `TaskQueue`, `ThreadPool` and proofs; `UserList`; `Timers` and proofs;
`SelfTest`; `ClientLog` with kills; `Config`; `Login` with failing connects;
`DataSession` with failing calls, kills, vanished hosts, restarts and SIGPIPE;
`Collection` and the refinement;
`WarnFilter`; `Registration`.

Left for the models:

1. `Master`: `Timers`, `ThreadPool` and `UserList` composed, so that overlapping
   heartbeats come from periods and from the number of workers instead of the
   constant `Hearts`.
2. `DataSession` with `ClientLog` as the source of the logs, so that an unanswered
   request comes from the files instead of a choice.

Theorems left: the safety half of `Registration` (a client is on the list when its
login has ended), which does not hold when a heartbeat frees the node the login's
walk stands on, so that it needs the two kept apart in the model first.
