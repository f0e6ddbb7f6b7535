------------------------------- MODULE Timers -------------------------------
(***************************************************************************)
(* The Master's timers (Master.c, timers_manager): one interval timer      *)
(* raises SIGALRM every second, and its handler counts down three software *)
(* timers, print, heart and ctrldata, whose own handlers submit tasks.     *)
(*                                                                         *)
(* A SIGALRM raised while one is pending is lost.  The handler blocks      *)
(* SIGALRM on its own thread only, so while it runs the next signal can be *)
(* delivered to another thread: Handlers are the threads that take it.     *)
(***************************************************************************)
EXTENDS Integers

CONSTANTS
  SET,                       \* configured period of each timer: a triple
  Handlers,                  \* threads SIGALRM is delivered to
  MaxTicks                   \* bound on the alarms of a behaviour

Timer == 1..3                \* print_timer, heart_timer, ctrldata_timer

ASSUME TimersAssumption ==
  /\ SET \in [Timer -> Int]
  /\ MaxTicks \in Nat

VARIABLES
  interval,                  \* field interval of each timer
  ticks, pending,            \* alarms raised so far; one not delivered yet?
  pc, turn,                  \* per thread: place in timers_manager, its timer
  handled,                   \* alarms delivered
  fired                      \* times each timer was reset

vars == <<interval, ticks, pending, pc, turn, handled, fired>>

(***************************************************************************)
(* timers_init(1).                                                         *)
(***************************************************************************)
Init ==
  /\ interval = [k \in Timer |-> SET[k]]
  /\ ticks = 0 /\ pending = FALSE
  /\ pc = [t \in Handlers |-> "idle"]
  /\ turn = [t \in Handlers |-> 1]
  /\ handled = 0
  /\ fired = [k \in Timer |-> 0]

Alarm ==
  /\ ticks < MaxTicks
  /\ ticks' = ticks + 1
  /\ pending' = TRUE
  /\ UNCHANGED <<interval, pc, turn, handled, fired>>

Deliver(t) ==                \* the kernel runs the handler on thread t
  /\ pending /\ pc[t] = "idle"
  /\ pending' = FALSE
  /\ handled' = handled + 1
  /\ pc' = [pc EXCEPT ![t] = "count"]
  /\ turn' = [turn EXCEPT ![t] = 1]
  /\ UNCHANGED <<interval, ticks, fired>>

Decrement(t) ==              \* x_timer.interval--
  /\ pc[t] = "count"
  /\ interval' = [interval EXCEPT ![turn[t]] = @ - 1]
  /\ pc' = [pc EXCEPT ![t] = "test"]
  /\ UNCHANGED <<ticks, pending, turn, handled, fired>>

Advance(t) ==                \* on to the next timer, or out of the handler
  /\ pc' = [pc EXCEPT ![t] = IF turn[t] = 3 THEN "idle" ELSE "count"]
  /\ turn' = [turn EXCEPT ![t] = IF turn[t] = 3 THEN 1 ELSE turn[t] + 1]

NotDue(t) ==
  /\ pc[t] = "test" /\ interval[turn[t]] # 0
  /\ Advance(t)
  /\ UNCHANGED <<interval, ticks, pending, handled, fired>>

Due_NotReset(t) ==           \* forgets x_timer.interval = SET.x_time
  /\ pc[t] = "test" /\ interval[turn[t]] = 0
  /\ fired' = [fired EXCEPT ![turn[t]] = @ + 1]
  /\ pc' = [pc EXCEPT ![t] = "call"]
  /\ UNCHANGED <<interval, ticks, pending, turn, handled>>

Due_LateReset(t) ==          \* resets to one more, as if counted down after
  /\ pc[t] = "test" /\ interval[turn[t]] = 0
  /\ interval' = [interval EXCEPT ![turn[t]] = SET[turn[t]] + 1]
  /\ fired' = [fired EXCEPT ![turn[t]] = @ + 1]
  /\ pc' = [pc EXCEPT ![t] = "call"]
  /\ UNCHANGED <<ticks, pending, turn, handled>>

Due(t) ==                    \* reset first, then call the timer's handler
  /\ pc[t] = "test" /\ interval[turn[t]] = 0
  /\ interval' = [interval EXCEPT ![turn[t]] = SET[turn[t]]]
  /\ fired' = [fired EXCEPT ![turn[t]] = @ + 1]
  /\ pc' = [pc EXCEPT ![t] = "call"]
  /\ UNCHANGED <<ticks, pending, turn, handled>>

Return(t) ==                 \* print(), heart() or ctrldata() returned
  /\ pc[t] = "call"
  /\ Advance(t)
  /\ UNCHANGED <<interval, ticks, pending, handled, fired>>

timers_manager(t) == Decrement(t) \/ NotDue(t) \/ Due(t) \/ Return(t)

Next == Alarm \/ \E t \in Handlers : Deliver(t) \/ timers_manager(t)

Spec == Init /\ [][Next]_vars

-----------------------------------------------------------------------------
(***************************************************************************)
(* The counters keep their ranges: a timer never has more than its period  *)
(* ahead of it, and no more alarms are handled than were raised.           *)
(***************************************************************************)
TypeOK ==
  /\ interval \in [Timer -> Int] /\ \A k \in Timer : interval[k] <= SET[k]
  /\ ticks \in 0..MaxTicks /\ pending \in BOOLEAN
  /\ pc \in [Handlers -> {"idle", "count", "test", "call"}]
  /\ turn \in [Handlers -> Timer]
  /\ handled \in Nat /\ handled <= ticks - (IF pending THEN 1 ELSE 0)
  /\ fired \in [Timer -> Nat]

(***************************************************************************)
(* When one thread takes every alarm, a timer has fired once for every SET *)
(* alarms handled, and never without a period: counting down, testing and  *)
(* resetting never add up to a lost, a late or an extra expiry.  An alarm  *)
(* counts for a timer once the handler has tested it.                      *)
(***************************************************************************)
Behind(t, k) ==
  pc[t] # "idle" /\ (turn[t] < k \/ (turn[t] = k /\ pc[t] \in {"count", "test"}))

Counted(t, k) == handled - (IF Behind(t, k) THEN 1 ELSE 0)

FiresOncePerPeriod ==
  \A t \in Handlers : Handlers = {t} =>
    \A k \in Timer : fired[k] = IF SET[k] > 0 THEN Counted(t, k) \div SET[k] ELSE 0

(***************************************************************************)
(* A timer whose period is not configured, zero, never fires, however many *)
(* threads take the alarms.                                                *)
(***************************************************************************)
UnsetNeverFires == \A k \in Timer : SET[k] <= 0 => fired[k] = 0

(***************************************************************************)
(* README.md:33 calls the timer accurate: a configured timer always has a  *)
(* next expiry ahead of it.                                                *)
(***************************************************************************)
NeverPastZero == \A k \in Timer : SET[k] > 0 => interval[k] >= 0

=============================================================================
