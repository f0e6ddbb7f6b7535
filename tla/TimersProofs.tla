---------------------------- MODULE TimersProofs ----------------------------
(***************************************************************************)
(* Proofs about Timers, for every configuration of the three periods.      *)
(***************************************************************************)
EXTENDS Timers, TLAPS

(***************************************************************************)
(* While a disabled timer is decremented only, it is never at zero when it *)
(* is tested.                                                              *)
(***************************************************************************)
UnsetInv ==
  \A k \in Timer : SET[k] <= 0 =>
    /\ fired[k] = 0 /\ interval[k] <= 0
    /\ \A t \in Handlers : pc[t] = "test" /\ turn[t] = k => interval[k] < 0

(***************************************************************************)
(* With one thread: Left(t, k) alarms are still to be counted before timer *)
(* k fires, of the SET[k] that have to be since it last did.               *)
(***************************************************************************)
Left(t, k) == interval[k] + (IF pc[t] = "test" /\ turn[t] = k THEN 1 ELSE 0)

OnTime(t, k) ==
  /\ Left(t, k) \in 1..SET[k]
  /\ Counted(t, k) = SET[k] * fired[k] + (SET[k] - Left(t, k))

RateInv ==
  \A t \in Handlers : Handlers = {t} => \A k \in Timer : SET[k] > 0 => OnTime(t, k)

TimersInv == TypeOK /\ RateInv /\ UnsetInv

LEMMA InitTimers == Init => TimersInv
PROOF
  <1> SUFFICES ASSUME Init PROVE TimersInv
    OBVIOUS
  <1> USE TimersAssumption DEF Init
  <1>1. TypeOK
    <2>1. /\ interval \in [Timer -> Int] /\ \A k \in Timer : interval[k] <= SET[k]
          /\ fired \in [Timer -> Nat]
          /\ turn \in [Handlers -> Timer]
          /\ pc \in [Handlers -> {"idle", "count", "test", "call"}]
      BY DEF Timer
    <2>2. ticks = 0 /\ handled = 0
      OBVIOUS
    <2>3. pending = FALSE
      OBVIOUS
    <2>4. ticks \in 0..MaxTicks /\ handled \in Nat
      BY <2>2
    <2>5. handled <= ticks - (IF pending THEN 1 ELSE 0)
      <3>1. (IF pending THEN 1 ELSE 0) = 0
        BY <2>3
      <3> HIDE DEF Init
      <3> QED BY <2>2, <3>1
    <2> QED BY <2>1, <2>3, <2>4, <2>5 DEF TypeOK
  <1>2. RateInv
    BY DEF RateInv, OnTime, Left, Counted, Behind, Timer
  <1>3. UnsetInv
    BY DEF UnsetInv, Timer
  <1> QED BY <1>1, <1>2, <1>3 DEF TimersInv

LEMMA TypeStep == TypeOK /\ [Next]_vars => TypeOK'
PROOF
  <1> SUFFICES ASSUME TypeOK, [Next]_vars PROVE TypeOK'
    OBVIOUS
  <1> USE TimersAssumption DEF TypeOK
  <1>1. CASE UNCHANGED vars
    BY <1>1 DEF vars
  <1>2. CASE Alarm
    <2>1. ticks' = ticks + 1 /\ ticks' \in 0..MaxTicks
      BY <1>2 DEF Alarm
    <2>2. pending' = TRUE
      BY <1>2 DEF Alarm
    <2>3. (IF pending' THEN 1 ELSE 0) = 1
      BY <2>2
    <2>4. handled <= ticks /\ handled \in Nat
      OBVIOUS
    <2>5. handled' <= ticks' - (IF pending' THEN 1 ELSE 0)
      BY <1>2, <2>1, <2>3, <2>4 DEF Alarm
    <2> QED BY <1>2, <2>1, <2>2, <2>5 DEF Alarm
  <1>3. ASSUME NEW t \in Handlers, Deliver(t) PROVE TypeOK'
    <2>1. pending /\ pending' = FALSE
      BY <1>3 DEF Deliver
    <2>2. /\ (IF pending THEN 1 ELSE 0) = 1
          /\ (IF pending' THEN 1 ELSE 0) = 0
      BY <2>1
    <2>3. handled <= ticks - 1 /\ handled \in Nat /\ ticks \in 0..MaxTicks
      BY <2>2
    <2>4. /\ handled' = handled + 1 /\ ticks' = ticks
          /\ interval' = interval /\ fired' = fired
      BY <1>3 DEF Deliver
    <2>5. handled' \in Nat /\ handled' <= ticks' - (IF pending' THEN 1 ELSE 0)
      BY <2>2, <2>3, <2>4
    <2>6. /\ pc' \in [Handlers -> {"idle", "count", "test", "call"}]
          /\ turn' \in [Handlers -> Timer]
      BY <1>3 DEF Deliver, Timer
    <2> QED BY <2>1, <2>3, <2>4, <2>5, <2>6
  <1>4. ASSUME NEW t \in Handlers, Decrement(t) PROVE TypeOK'
    BY <1>4 DEF Decrement
  <1>5. ASSUME NEW t \in Handlers, NotDue(t) \/ Return(t) PROVE TypeOK'
    BY <1>5 DEF NotDue, Return, Advance, Timer
  <1>6. ASSUME NEW t \in Handlers, Due(t) PROVE TypeOK'
    BY <1>6 DEF Due
  <1> QED BY <1>1, <1>2, <1>3, <1>4, <1>5, <1>6 DEF Next, timers_manager

LEMMA RateStep == TypeOK /\ RateInv /\ [Next]_vars => RateInv'
PROOF
  <1> SUFFICES ASSUME TypeOK, RateInv, [Next]_vars,
                      NEW t \in Handlers, Handlers = {t}, NEW k \in Timer, SET[k] > 0
               PROVE  OnTime(t, k)'
    BY DEF RateInv
  <1>1. /\ SET[k] \in Int /\ fired[k] \in Nat /\ interval[k] \in Int /\ handled \in Nat
        /\ turn[t] \in Timer /\ pc[t] \in {"idle", "count", "test", "call"}
        /\ pc \in [Handlers -> {"idle", "count", "test", "call"}]
        /\ turn \in [Handlers -> Timer]
        /\ fired \in [Timer -> Nat] /\ interval \in [Timer -> Int]
    BY TimersAssumption DEF TypeOK
  <1>2. OnTime(t, k)
    BY DEF RateInv
  <1>3. CASE UNCHANGED vars \/ Alarm
    BY <1>2, <1>3 DEF vars, Alarm, OnTime, Left, Counted, Behind
  <1>4. CASE Deliver(t)
    <2>1. ~Behind(t, k) /\ Behind(t, k)' /\ handled' = handled + 1 /\ Left(t, k)' = Left(t, k)
      BY <1>1, <1>4 DEF Deliver, Behind, Left, Timer
    <2> QED BY <1>1, <1>2, <1>4, <2>1 DEF Deliver, OnTime, Counted
  <1>5. CASE Decrement(t)
    <2>1. Behind(t, k)' <=> Behind(t, k)
      BY <1>1, <1>5 DEF Decrement, Behind
    <2>2. Left(t, k)' = Left(t, k)
      BY <1>1, <1>5 DEF Decrement, Left
    <2> QED BY <1>1, <1>2, <1>5, <2>1, <2>2 DEF Decrement, OnTime, Counted
  <1>6. CASE NotDue(t)
    <2>1. interval' = interval /\ handled' = handled /\ fired' = fired
      BY <1>6 DEF NotDue
    <2>2. CASE turn[t] = k
      <3>1. Behind(t, k) /\ ~Behind(t, k)' /\ interval[k] # 0
        BY <1>1, <1>6, <2>2 DEF NotDue, Advance, Behind, Timer
      <3>2. Left(t, k) = interval[k] + 1 /\ Left(t, k)' = interval[k]
        BY <1>1, <1>6, <2>1, <2>2 DEF NotDue, Advance, Left
      <3>3. Counted(t, k) = handled - 1 /\ Counted(t, k)' = handled
        <4>1. /\ (IF Behind(t, k) THEN 1 ELSE 0) = 1
              /\ (IF Behind(t, k)' THEN 1 ELSE 0) = 0
          BY <3>1
        <4> QED BY <1>1, <2>1, <4>1 DEF Counted
      <3>4. PICK m \in Int : m = SET[k] * fired[k] /\ m = SET[k] * fired'[k]
        BY <1>1, <2>1
      <3>5. interval[k] + 1 \in 1..SET[k] /\ handled - 1 = m + (SET[k] - (interval[k] + 1))
        BY <1>2, <3>2, <3>3, <3>4 DEF OnTime
      <3>6. interval[k] \in 1..SET[k] /\ handled = m + (SET[k] - interval[k])
        BY <1>1, <3>1, <3>5
      <3> QED BY <3>2, <3>3, <3>4, <3>6 DEF OnTime
    <2>3. CASE turn[t] # k
      <3>1. Left(t, k)' = Left(t, k) /\ (Behind(t, k)' <=> Behind(t, k))
        BY <1>1, <1>6, <2>1, <2>3 DEF NotDue, Advance, Left, Behind, Timer
      <3> QED BY <1>2, <2>1, <3>1 DEF OnTime, Counted
    <2> QED BY <2>2, <2>3
  <1>7. CASE Return(t)
    <2>1. Left(t, k)' = Left(t, k) /\ (Behind(t, k)' <=> Behind(t, k))
      BY <1>1, <1>7 DEF Return, Advance, Left, Behind, Timer
    <2> QED BY <1>2, <1>7, <2>1 DEF Return, OnTime, Counted
  <1>8. CASE Due(t)
    <2>1. handled' = handled
      BY <1>8 DEF Due
    <2>2. CASE turn[t] = k
      <3>1. Behind(t, k) /\ ~Behind(t, k)' /\ fired'[k] = fired[k] + 1
        BY <1>1, <1>8, <2>2 DEF Due, Behind, Timer
      <3>2. Left(t, k) = 1 /\ Left(t, k)' = SET[k]
        BY <1>1, <1>8, <2>2 DEF Due, Left
      <3>3. Counted(t, k) = handled - 1 /\ Counted(t, k)' = handled
        <4>1. /\ (IF Behind(t, k) THEN 1 ELSE 0) = 1
              /\ (IF Behind(t, k)' THEN 1 ELSE 0) = 0
          BY <3>1
        <4> QED BY <1>1, <2>1, <4>1 DEF Counted
      <3>4. PICK m \in Int : m = SET[k] * fired[k] /\ m + SET[k] = SET[k] * fired'[k]
        <4>1. SET[k] * (fired[k] + 1) = SET[k] * fired[k] + SET[k]
          BY <1>1
        <4> QED BY <1>1, <3>1, <4>1
      <3>5. handled - 1 = m + (SET[k] - 1)
        BY <1>2, <3>2, <3>3, <3>4 DEF OnTime
      <3>6. handled = m + SET[k] + (SET[k] - SET[k]) /\ SET[k] \in 1..SET[k]
        BY <1>1, <3>5
      <3> QED BY <3>2, <3>3, <3>4, <3>6 DEF OnTime
    <2>3. CASE turn[t] # k
      <3>1. Left(t, k)' = Left(t, k) /\ (Behind(t, k)' <=> Behind(t, k)) /\ fired'[k] = fired[k]
        BY <1>1, <1>8, <2>3 DEF Due, Left, Behind
      <3> QED BY <1>2, <2>1, <3>1 DEF OnTime, Counted
    <2> QED BY <2>2, <2>3
  <1> QED BY <1>3, <1>4, <1>5, <1>6, <1>7, <1>8 DEF Next, timers_manager

LEMMA UnsetStep == TypeOK /\ UnsetInv /\ [Next]_vars => UnsetInv'
PROOF
  <1> SUFFICES ASSUME TypeOK, UnsetInv, [Next]_vars, NEW k \in Timer, SET[k] <= 0
               PROVE  /\ fired'[k] = 0 /\ interval'[k] <= 0
                      /\ \A t \in Handlers : pc'[t] = "test" /\ turn'[t] = k => interval'[k] < 0
    BY DEF UnsetInv
  <1>1. /\ fired[k] = 0 /\ interval[k] <= 0 /\ interval[k] \in Int /\ SET[k] \in Int
        /\ \A t \in Handlers : pc[t] = "test" /\ turn[t] = k => interval[k] < 0
        /\ pc \in [Handlers -> {"idle", "count", "test", "call"}]
        /\ turn \in [Handlers -> Timer]
        /\ fired \in [Timer -> Nat] /\ interval \in [Timer -> Int]
    BY TimersAssumption DEF UnsetInv, TypeOK
  <1>2. CASE UNCHANGED vars \/ Alarm
    BY <1>1, <1>2 DEF vars, Alarm
  <1>3. ASSUME NEW t \in Handlers, Deliver(t) \/ NotDue(t) \/ Return(t)
        PROVE  /\ fired'[k] = 0 /\ interval'[k] <= 0
               /\ \A u \in Handlers : pc'[u] = "test" /\ turn'[u] = k => interval'[k] < 0
    BY <1>1, <1>3 DEF Deliver, NotDue, Return, Advance
  <1>4. ASSUME NEW t \in Handlers, Decrement(t)
        PROVE  /\ fired'[k] = 0 /\ interval'[k] <= 0
               /\ \A u \in Handlers : pc'[u] = "test" /\ turn'[u] = k => interval'[k] < 0
    BY <1>1, <1>4 DEF Decrement
  <1>5. ASSUME NEW t \in Handlers, Due(t)
        PROVE  /\ fired'[k] = 0 /\ interval'[k] <= 0
               /\ \A u \in Handlers : pc'[u] = "test" /\ turn'[u] = k => interval'[k] < 0
    <2>1. turn[t] # k
      BY <1>1, <1>5 DEF Due
    <2> QED BY <1>1, <1>5, <2>1 DEF Due
  <1> QED BY <1>2, <1>3, <1>4, <1>5 DEF Next, timers_manager

(***************************************************************************)
(* The counters of the timers keep their ranges.                           *)
(***************************************************************************)
THEOREM TimersTyped == Spec => []TypeOK
PROOF
  <1>1. Init => TypeOK
    BY InitTimers DEF TimersInv
  <1> QED BY <1>1, TypeStep, PTL DEF Spec

LEMMA TimersInvariant == Spec => []TimersInv
BY InitTimers, TypeStep, RateStep, UnsetStep, PTL DEF Spec, TimersInv

LEMMA DivIs ==
  ASSUME NEW a \in Nat, NEW s \in Nat \ {0}, NEW f \in Nat, NEW r \in 0..s-1, a = s * f + r
  PROVE  a \div s = f
PROOF
  <1>1. PICK d \in Int : d = a \div s
    OBVIOUS
  <1>2. s * d <= a /\ a < s * d + s
    BY <1>1
  <1> QED BY <1>1, <1>2

(***************************************************************************)
(* With one thread taking the alarms, every timer has fired exactly once   *)
(* per configured period, whatever the periods are.                        *)
(***************************************************************************)
THEOREM TimersKeepRate == Spec => []FiresOncePerPeriod
PROOF
  <1>1. TimersInv => FiresOncePerPeriod
    <2> SUFFICES ASSUME TimersInv, NEW t \in Handlers, Handlers = {t}, NEW k \in Timer
                 PROVE  fired[k] = IF SET[k] > 0 THEN Counted(t, k) \div SET[k] ELSE 0
      BY DEF FiresOncePerPeriod
    <2>1. SET[k] \in Int /\ fired[k] \in Nat
      BY TimersAssumption DEF TimersInv, TypeOK
    <2>2. CASE SET[k] > 0
      <3>1. PICK a \in Int, r \in Int : a = Counted(t, k) /\ r = SET[k] - Left(t, k)
        BY <2>1 DEF TimersInv, TypeOK, Counted, Left
      <3>2. r \in 0..SET[k]-1 /\ a = SET[k] * fired[k] + r
        BY <2>1, <2>2, <3>1 DEF TimersInv, RateInv, OnTime
      <3>3. SET[k] * fired[k] \in Nat
        BY <2>1, <2>2
      <3> QED BY <2>1, <2>2, <3>1, <3>2, <3>3, DivIs
    <2>3. CASE ~(SET[k] > 0)
      BY <2>1, <2>3 DEF TimersInv, UnsetInv
    <2> QED BY <2>2, <2>3
  <1> QED BY <1>1, TimersInvariant, PTL

(***************************************************************************)
(* With one thread taking the alarms, a timer that has a period never      *)
(* steps over the zero at which it fires.                                  *)
(***************************************************************************)
THEOREM OneThreadIsAccurate ==
  ASSUME NEW t, Handlers = {t}
  PROVE  Spec => []NeverPastZero
PROOF
  <1>1. TimersInv => NeverPastZero
    <2> SUFFICES ASSUME TimersInv, NEW k \in Timer, SET[k] > 0 PROVE interval[k] >= 0
      BY DEF NeverPastZero
    <2>1. OnTime(t, k) /\ interval[k] \in Int
      BY DEF TimersInv, RateInv, TypeOK
    <2> QED BY <2>1 DEF OnTime, Left
  <1> QED BY <1>1, TimersInvariant, PTL

(***************************************************************************)
(* On any number of threads, a timer without a period never fires.         *)
(***************************************************************************)
THEOREM UnsetTimersSilent == Spec => []UnsetNeverFires
PROOF
  <1>1. TimersInv => UnsetNeverFires
    BY DEF TimersInv, UnsetInv, UnsetNeverFires
  <1> QED BY <1>1, TimersInvariant, PTL

=============================================================================
