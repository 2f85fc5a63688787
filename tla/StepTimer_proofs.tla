-------------------------- MODULE StepTimer_proofs --------------------------
(***************************************************************************)
(* Theorems about StepTimer for all times, periods and latencies.          *)
(***************************************************************************)
EXTENDS StepTimer, TLAPS

USE TimesAssumption, LatencyAssumption
    DEF TimesAssumption, LatencyAssumption, Flags, IdleWindow, TOnOffMin, TDlyOffMin

-----------------------------------------------------------------------------
(* The inductive invariant, in parts.                                       *)

\* Within stepperGoIdle the copy of DIER is what the register holds, and within
\* stepperWakeUp nothing is enabled: the handler is not called for in either.
CallerOK ==
    /\ pc \in IdleWindow => reg = dier /\ ~pend /\ isr = "none"
    /\ pc \in {"wake_clear", "wake_enable"} => dier = {} /\ ~pend /\ isr = "none"
    /\ pc = "idle_clear" => "U" \notin dier

\* The end of a pulse is enabled.  It is still to come, before the next update
\* and so many ticks away as the pulse is short of t_off, or it is flagged.
PulseOK ==
    step =>
        /\ "CC1" \in dier
        /\ \/ ccr1 < cnt /\ "U" \notin sr /\ "CC1" \notin sr /\ high + cnt = ccr1 + TOff
           \/ "CC1" \in sr /\ high = TOff

\* A delayed pulse is the one step owed.  Its start is still to come, before the
\* next update, or is flagged; it finds the pin off.
DelayOK ==
    /\ owed = IF "CC2" \in dier THEN 1 ELSE 0
    /\ "CC2" \in dier =>
        /\ ~step /\ TOnOffMin <= ccr2
        /\ (ccr2 < cnt /\ "U" \notin sr) \/ "CC2" \in sr
    /\ isr = "output" => ~step /\ "CC2" \notin dier

UpdateOK == due => "U" \in sr /\ "U" \in dier

StepInv == TypeOK /\ CallerOK /\ PulseOK /\ DelayOK /\ UpdateOK

\* While a pause is shorter than t_off_min, no step is due before it is over, or
\* no step is enabled and the handler has only a pulse to end.
PauseAhead == "U" \notin sr /\ TOffMin <= low + cnt

PauseOK ==
    ~step /\ low < TOffMin =>
        /\ isr = "none" /\ "CC2" \notin dier
        /\ PauseAhead \/ ("U" \notin dier /\ (pend => "CC1" \in sr /\ "CC1" \in dier))
        /\ pc = "wake_clear" => TOffMin <= low + cnt
        /\ pc = "wake_enable" => PauseAhead

\* The interrupt is pending for an event that is still flagged and enabled, and
\* steps are enabled as long as a callback runs.
PendOK ==
    /\ pend => sr \intersect dier # {}
    /\ isr # "none" => "U" \in dier
    /\ "CC1" \in dier /\ "U" \in dier => step

-----------------------------------------------------------------------------
(* Every step keeps the types and the parts about pulse, delay and update.  *)

\* The sizes of the tuples of variables, for the steps that leave them alone.
USE DEF timer, compare, nvic, pins, ages, caller

\* The three invariants hold at reset.
LEMMA StepInit == Init => StepInv /\ PauseOK /\ PendOK
<1> SUFFICES ASSUME Init PROVE StepInv /\ PauseOK /\ PendOK
  OBVIOUS
<1>1. TypeOK
  <2>1. pend \in BOOLEAN /\ step \in BOOLEAN /\ dir \in BOOLEAN /\ due \in BOOLEAN
    BY Zenon DEF Init
  <2> QED BY <2>1 DEF Init, TypeOK
<1> QED BY <1>1 DEF Init, StepInv, CallerOK, PulseOK, DelayOK, UpdateOK, PauseOK, PendOK

\* The variables that are true or false stay so.
LEMMA BooleanStep ==
    ASSUME TypeOK, Next
    PROVE  pend' \in BOOLEAN /\ step' \in BOOLEAN /\ dir' \in BOOLEAN /\ due' \in BOOLEAN
<1>0. pend \in BOOLEAN /\ step \in BOOLEAN /\ dir \in BOOLEAN /\ due \in BOOLEAN
  BY DEF TypeOK
<1>1. CASE Tick
  BY <1>0, <1>1, Zenon DEF Tick
<1>2. CASE Handler
  <2>1. pend' = FALSE /\ dir' = dir
    BY <1>2, Zenon DEF Handler, DelayDone, PulseDone, StepDue, NothingDue, Enter, pins
  <2>2. step' \in BOOLEAN
    BY <1>0, <1>2, Zenon DEF Handler, DelayDone, PulseDone, StepDue, NothingDue, StepOut, pins
  <2>3. due' \in BOOLEAN
    BY <1>0, <1>2, Zenon DEF Handler, DelayDone, PulseDone, StepDue, NothingDue, StepOut
  <2> QED BY <1>0, <2>1, <2>2, <2>3, Zenon
<1>3. CASE Callback
  <2>1. ASSUME NEW turn, NoPulse(turn) \/ PulseStart(turn)
        PROVE  pend' \in BOOLEAN /\ step' \in BOOLEAN /\ dir' \in BOOLEAN /\ due' \in BOOLEAN
    <3>1. dir' = ~dir \/ dir' = dir
      BY <2>1, Zenon DEF NoPulse, PulseStart, DirOut
    <3>2. (pend' = pend \/ pend' = (pend /\ ~TooLate)) /\ (step' = step \/ step' = TRUE)
      BY <2>1, Zenon DEF NoPulse, PulseStart, StepOut
    <3>3. due' = due \/ due' = (due /\ ~TooLate)
      BY <2>1, Zenon DEF NoPulse, PulseStart, StepOut
    <3> QED BY <1>0, <3>1, <3>2, <3>3, Zenon
  <2>2. ASSUME NEW turn, PulseStartDelayed(turn)
        PROVE  pend' \in BOOLEAN /\ step' \in BOOLEAN /\ dir' \in BOOLEAN /\ due' \in BOOLEAN
    <3>1. (dir' = ~dir \/ dir' = dir) /\ step' = step
      BY <2>2, Zenon DEF PulseStartDelayed, DirOut
    <3>2. pend' = (pend /\ ~(cnt < TDlyOffMin)) /\ due' = (due /\ ~(cnt < TDlyOffMin) /\ "U" \notin sr)
      BY <2>2, Zenon DEF PulseStartDelayed
    <3> QED BY <1>0, <3>1, <3>2, Zenon
  <2>3. CASE (\E period \in Periods : SetPeriod(period)) \/ GoIdleInCallback
    BY <1>0, <2>3, Zenon DEF SetPeriod, GoIdleInCallback, Return, pins
  <2> QED BY <1>3, <2>1, <2>2, <2>3, Zenon DEF Callback
<1>4. CASE Call \/ Finish
  BY <1>0, <1>4, Zenon DEF Call, Finish, GoIdleInSameLevel, GoIdle_Load, WakeUp_Restart, GoIdle_Store,
     GoIdle_Clear, WakeUp_Clear, WakeUp_Enable, nvic, pins
<1> QED BY <1>1, <1>2, <1>3, <1>4 DEF Next

\* The types, for the steps that write the counters.
LEMMA NewTypes ==
    ASSUME pend' \in BOOLEAN /\ step' \in BOOLEAN /\ dir' \in BOOLEAN /\ due' \in BOOLEAN,
           cnt' \in Nat /\ arr' \in Nat /\ preload' \in Nat /\ ccr1' \in Nat /\ ccr2' \in Nat,
           sr' \subseteq Flags /\ dier' \subseteq Flags /\ reg' \subseteq Flags,
           isr' \in {"none", "output", "rest"},
           pc' \in IdleWindow \union {"idle", "idle_clear", "wake_clear", "wake_enable"},
           age' \in Nat /\ high' \in 0..TOff /\ low' \in 0..TOffMin /\ dirAge' \in 0..TOn,
           owed' \in Nat
    PROVE  TypeOK'
BY Zenon DEF TypeOK

\* A tick.
LEMMA TickStep ==
    ASSUME StepInv, Tick, "idle_preempted" \notin Races
    PROVE  StepInv'
<1> USE DEF StepInv
<1>1. /\ UNCHANGED <<preload, dier, isr, step, dir, pc, reg, owed, ccr1, ccr2>>
      /\ cnt' = IF cnt = 0 THEN arr ELSE cnt - 1
      /\ arr' = IF cnt = 0 THEN preload ELSE arr
      /\ sr \subseteq sr' /\ sr' \subseteq Flags
      /\ "U" \in sr' <=> ("U" \in sr \/ cnt = 0)
      /\ "CC1" \in sr' <=> ("CC1" \in sr \/ cnt' = ccr1)
      /\ "CC2" \in sr' <=> ("CC2" \in sr \/ cnt' = ccr2)
      /\ age' \in Nat
      /\ high' = Smaller(high + 1, TOff) /\ low' = Smaller(low + 1, TOffMin)
      /\ dirAge' = Smaller(dirAge + 1, TOn)
  <2>1. sr' = sr \union {f \in Flags : \/ f = "U" /\ cnt = 0
                                       \/ f = "CC1" /\ cnt' = ccr1
                                       \/ f = "CC2" /\ cnt' = ccr2}
    BY DEF Tick
  <2>2. /\ "U" \in sr' <=> ("U" \in sr \/ cnt = 0)
        /\ "CC1" \in sr' <=> ("CC1" \in sr \/ cnt' = ccr1)
        /\ "CC2" \in sr' <=> ("CC2" \in sr \/ cnt' = ccr2)
        /\ sr \subseteq sr' /\ sr' \subseteq Flags
    BY <2>1 DEF TypeOK
  <2>3. age' \in Nat
    <3>1. age' = age + 1 \/ age' = 0
      BY Zenon DEF Tick
    <3> QED BY <3>1 DEF TypeOK
  <2> QED BY <2>2, <2>3 DEF Tick
<1>2. pend' = (pend \/ (sr' \ sr) \intersect dier # {})
  BY DEF Tick
<1>3. due' = (due \/ (cnt = 0 /\ "U" \in dier))
  BY DEF Tick
<1>4. TypeOK'
  BY <1>1, BooleanStep DEF Next, TypeOK, Smaller
<1>5. CallerOK'
  <2>1. pc \in IdleWindow => ~pend'
    BY DEF Tick
  <2>2. dier = {} /\ ~pend => ~pend'
    BY <1>2
  <2> QED BY <1>1, <2>1, <2>2 DEF CallerOK
<1>6. PulseOK'
  BY <1>1 DEF PulseOK, TypeOK, Smaller
<1>7. DelayOK'
  BY <1>1 DEF DelayOK, TypeOK, Smaller
<1>8. UpdateOK'
  BY <1>1, <1>3 DEF UpdateOK
<1> QED BY <1>4, <1>5, <1>6, <1>7, <1>8

\* What _stepper_step_out does.
LEMMA StepOutFacts ==
    ASSUME TypeOK, NEW enables \in SUBSET Flags, NEW asked \in Nat \ {0}, ~step, due => "U" \in sr,
           StepOut(enables, asked)
    PROVE  /\ step' /\ high' = 0 /\ owed' = asked - 1 /\ ~due'
           /\ cnt' \in Nat /\ ccr1' \in Nat /\ ccr1' < cnt' /\ high' + cnt' = ccr1' + TOff
           /\ sr' = {} /\ dier' = enables \union {"CC1"}
BY DEF StepOut, TooLate, TypeOK

\* The handler.
LEMMA HandlerStep ==
    ASSUME StepInv, Handler
    PROVE  StepInv'
<1> USE DEF StepInv
<1>b. pend' \in BOOLEAN /\ step' \in BOOLEAN /\ dir' \in BOOLEAN /\ due' \in BOOLEAN
  BY BooleanStep DEF Next
<1>0. pend /\ isr = "none" /\ pend' = FALSE /\ age' = 0
  BY DEF Handler, DelayDone, PulseDone, StepDue, NothingDue, Enter
<1>1. CASE DelayDone
  <2>1. /\ "CC2" \in dier /\ StepOut(dier \ {"CC2"}, owed)
        /\ UNCHANGED <<arr, preload, ccr2, isr, dir, pc, reg, low, dirAge>>
    BY <1>1 DEF DelayDone, Fires
  <2>2. owed = 1 /\ ~step
    BY <2>1 DEF DelayOK
  <2>3. /\ step' /\ high' = 0 /\ owed' = 0 /\ ~due'
        /\ cnt' \in Nat /\ ccr1' \in Nat /\ ccr1' < cnt' /\ high' + cnt' = ccr1' + TOff
        /\ sr' = {} /\ dier' = (dier \ {"CC2"}) \union {"CC1"}
    <3>1. dier \ {"CC2"} \in SUBSET Flags /\ owed \in Nat \ {0} /\ (due => "U" \in sr)
      BY <2>2 DEF UpdateOK, TypeOK
    <3>2. owed - 1 = 0
      BY <2>2
    <3> QED BY <2>1, <2>2, <3>1, <3>2, StepOutFacts, Zenon
  <2>4. TypeOK'
    <3>1. /\ cnt' \in Nat /\ arr' \in Nat /\ preload' \in Nat /\ ccr1' \in Nat /\ ccr2' \in Nat
          /\ age' \in Nat /\ high' \in 0..TOff /\ low' \in 0..TOffMin /\ dirAge' \in 0..TOn
          /\ owed' \in Nat
      BY <1>0, <2>1, <2>3 DEF TypeOK
    <3>2. /\ sr' \subseteq Flags /\ dier' \subseteq Flags /\ reg' \subseteq Flags
          /\ isr' \in {"none", "output", "rest"}
          /\ pc' \in IdleWindow \union {"idle", "idle_clear", "wake_clear", "wake_enable"}
      BY <1>0, <2>1, <2>3 DEF TypeOK
    <3> QED BY <1>b, <3>1, <3>2, NewTypes
  <2>5. CallerOK' /\ UpdateOK'
    BY <1>0, <2>1, <2>3 DEF CallerOK, UpdateOK
  <2>6. PulseOK'
    BY <2>3 DEF PulseOK
  <2>7. DelayOK'
    BY <1>0, <2>1, <2>3 DEF DelayOK
  <2> QED BY <2>4, <2>5, <2>6, <2>7
<1>2. CASE PulseDone
  <2>1. /\ "CC1" \in sr /\ "CC1" \in dier /\ ~Fires("CC2")
        /\ dier' = dier \ {"CC1"} /\ step' = FALSE /\ sr' = {}
        /\ low' = IF step THEN 0 ELSE low
        /\ cnt' = IF "U" \in sr \/ cnt < TOffMin THEN TOffMin ELSE cnt
        /\ due' = (due /\ ~("U" \in sr \/ cnt < TOffMin))
        /\ UNCHANGED <<arr, preload, ccr1, ccr2, isr, dir, pc, reg, high, dirAge, owed>>
    BY <1>2 DEF PulseDone, Fires
  <2>2. due' = FALSE
    BY <2>1 DEF UpdateOK, TypeOK
  <2>3. TypeOK'
    BY <1>0, <2>1, <2>2, <1>b DEF TypeOK
  <2> QED BY <1>0, <2>1, <2>2, <2>3 DEF TypeOK, CallerOK, PulseOK, DelayOK, UpdateOK, Fires
<1>3. CASE StepDue
  <2>1. /\ ~Fires("CC1") /\ ~Fires("CC2") /\ "U" \in sr
        /\ sr' = {} /\ isr' = "output" /\ due' = FALSE
        /\ UNCHANGED <<timer, compare, dier, pins, caller, ages, owed>>
    BY <1>3 DEF StepDue
  <2>2. ~step /\ "CC2" \notin dier
    BY <2>1 DEF PulseOK, DelayOK, Fires
  <2>3. TypeOK'
    BY <1>0, <2>1, <1>b DEF TypeOK
  <2> QED BY <1>0, <2>1, <2>2, <2>3 DEF CallerOK, PulseOK, DelayOK, UpdateOK
<1>4. CASE NothingDue
  <2>1. UNCHANGED <<timer, compare, sr, dier, isr, pins, caller, ages, owed, due>>
    BY <1>4 DEF NothingDue
  <2>2. TypeOK'
    BY <1>0, <2>1, <1>b DEF TypeOK
  <2> QED BY <1>0, <2>1, <2>2 DEF CallerOK, PulseOK, DelayOK, UpdateOK
<1> QED BY <1>1, <1>2, <1>3, <1>4 DEF Handler

\* The callback.
LEMMA CallbackStep ==
    ASSUME StepInv, Callback
    PROVE  StepInv'
<1> USE DEF StepInv
<1>b. pend' \in BOOLEAN /\ step' \in BOOLEAN /\ dir' \in BOOLEAN /\ due' \in BOOLEAN
  BY BooleanStep DEF Next
<1>0. /\ age' = 0 /\ pc' = pc /\ reg' = reg
      /\ (isr = "output" /\ isr' = "rest") \/ (isr = "rest" /\ isr' = "none")
  BY DEF Callback, NoPulse, PulseStart, PulseStartDelayed, SetPeriod, GoIdleInCallback, Goto
<1>1. pc \notin IdleWindow \union {"wake_clear", "wake_enable"}
  BY <1>0 DEF CallerOK
<1>2. ASSUME NEW turn \in Turns, NoPulse(turn)
      PROVE  StepInv'
  <2>1. /\ UNCHANGED <<timer, compare, sr, dier, pend, step, high, low, owed, due>>
        /\ isr' = "rest"
        /\ dir' = IF turn = "axis" THEN ~dir ELSE dir
        /\ dirAge' = IF turn = "axis" THEN 0 ELSE dirAge
    BY <1>2 DEF NoPulse, DirOut, Goto
  <2>2. TypeOK'
    BY <1>0, <2>1, <1>b DEF TypeOK
  <2> QED BY <1>0, <1>1, <2>1, <2>2 DEF CallerOK, PulseOK, DelayOK, UpdateOK
<1>3. ASSUME NEW turn \in Turns, PulseStart(turn)
      PROVE  StepInv'
  <2>1. /\ StepOut(dier, owed + 1) /\ isr = "output" /\ isr' = "rest"
        /\ UNCHANGED <<arr, preload, ccr2, low>>
        /\ dir' = IF turn = "axis" THEN ~dir ELSE dir
        /\ dirAge' = IF turn = "axis" THEN 0 ELSE dirAge
    BY <1>3 DEF PulseStart, DirOut, Goto
  <2>2. ~step /\ "CC2" \notin dier /\ owed = 0
    BY <2>1 DEF DelayOK
  <2>3. /\ step' /\ high' = 0 /\ owed' = 0 /\ ~due'
        /\ cnt' \in Nat /\ ccr1' \in Nat /\ ccr1' < cnt' /\ high' + cnt' = ccr1' + TOff
        /\ sr' = {} /\ dier' = dier \union {"CC1"}
    <3>1. dier \in SUBSET Flags /\ owed + 1 \in Nat \ {0} /\ (due => "U" \in sr)
      BY <2>2 DEF UpdateOK, TypeOK
    <3>2. (owed + 1) - 1 = 0
      BY <2>2
    <3> QED BY <2>1, <2>2, <3>1, <3>2, StepOutFacts, Zenon
  <2>4. TypeOK'
    <3>1. /\ cnt' \in Nat /\ arr' \in Nat /\ preload' \in Nat /\ ccr1' \in Nat /\ ccr2' \in Nat
          /\ age' \in Nat /\ high' \in 0..TOff /\ low' \in 0..TOffMin /\ dirAge' \in 0..TOn
          /\ owed' \in Nat
      BY <1>0, <2>1, <2>3 DEF TypeOK
    <3>2. /\ sr' \subseteq Flags /\ dier' \subseteq Flags /\ reg' \subseteq Flags
          /\ isr' \in {"none", "output", "rest"}
          /\ pc' \in IdleWindow \union {"idle", "idle_clear", "wake_clear", "wake_enable"}
      BY <1>0, <2>1, <2>3 DEF TypeOK
    <3> QED BY <1>b, <3>1, <3>2, NewTypes
  <2>5. CallerOK' /\ UpdateOK'
    BY <1>0, <1>1, <2>1, <2>3 DEF CallerOK, UpdateOK
  <2>6. PulseOK'
    BY <2>3 DEF PulseOK
  <2>7. DelayOK'
    BY <1>0, <2>1, <2>2, <2>3 DEF DelayOK
  <2> QED BY <2>4, <2>5, <2>6, <2>7
<1>4. ASSUME NEW turn \in Turns, PulseStartDelayed(turn)
      PROVE  StepInv'
  <2>1. /\ TOn > 0 /\ owed' = owed + 1 /\ isr = "output" /\ isr' = "rest"
        /\ cnt' = IF cnt < TDlyOffMin THEN TDlyOffMin ELSE cnt
        /\ ccr2' = cnt' - TOn
        /\ sr' = {} /\ dier' = dier \union {"CC2"}
        /\ UNCHANGED <<arr, preload, ccr1, step, high, low>>
        /\ dir' = IF turn = "axis" THEN ~dir ELSE dir
        /\ dirAge' = IF turn = "axis" THEN 0 ELSE dirAge
    BY <1>4 DEF PulseStartDelayed, DirOut, Goto
  <2>2. due' = (due /\ ~(cnt < TDlyOffMin) /\ "U" \notin sr) /\ pend' = (pend /\ ~(cnt < TDlyOffMin))
    BY <1>4 DEF PulseStartDelayed
  <2>3. ~step /\ "CC2" \notin dier /\ owed = 0
    BY <2>1 DEF DelayOK
  <2>4. due' = FALSE
    BY <2>2 DEF UpdateOK
  <2>6. TypeOK'
    <3>1. /\ cnt' \in Nat /\ arr' \in Nat /\ preload' \in Nat /\ ccr1' \in Nat /\ ccr2' \in Nat
          /\ age' \in Nat /\ high' \in 0..TOff /\ low' \in 0..TOffMin /\ dirAge' \in 0..TOn
          /\ owed' \in Nat
      BY <1>0, <2>1, <2>3, <2>4 DEF TypeOK
    <3>2. /\ sr' \subseteq Flags /\ dier' \subseteq Flags /\ reg' \subseteq Flags
          /\ isr' \in {"none", "output", "rest"}
          /\ pc' \in IdleWindow \union {"idle", "idle_clear", "wake_clear", "wake_enable"}
      BY <1>0, <2>1, <2>3, <2>4 DEF TypeOK
    <3> QED BY <1>b, <3>1, <3>2, NewTypes
  <2>7. CallerOK' /\ UpdateOK' /\ PulseOK'
    BY <1>0, <1>1, <2>1, <2>3, <2>4 DEF CallerOK, UpdateOK, PulseOK
  <2>8. DelayOK'
    BY <1>0, <2>1, <2>3 DEF DelayOK, TypeOK
  <2> QED BY <2>6, <2>7, <2>8
<1>5. ASSUME NEW period \in Periods, SetPeriod(period)
      PROVE  StepInv'
  <2>1. /\ preload' = CyclesPerTick(period) /\ isr' = "none"
        /\ UNCHANGED <<cnt, arr, compare, sr, dier, pins, caller, ages, owed, due>>
    BY <1>5 DEF SetPeriod, Goto
  <2>2. preload' \in Nat
    BY <2>1 DEF CyclesPerTick, Larger
  <2>3. TypeOK'
    BY <1>0, <2>1, <2>2, <1>b DEF TypeOK
  <2> QED BY <1>0, <1>1, <2>1, <2>3 DEF CallerOK, PulseOK, DelayOK, UpdateOK
<1>6. CASE GoIdleInCallback
  <2>1. /\ dier' = dier \ {"U"} /\ ~due' /\ isr' = "none"
        /\ UNCHANGED <<timer, compare, sr, pins, caller, ages, owed>>
    BY <1>6 DEF GoIdleInCallback, Goto
  <2>2. TypeOK'
    BY <1>0, <2>1, <1>b DEF TypeOK
  <2> QED BY <1>0, <1>1, <2>1, <2>2 DEF CallerOK, PulseOK, DelayOK, UpdateOK
<1> QED BY <1>2, <1>3, <1>4, <1>5, <1>6 DEF Callback

\* Calls from elsewhere.  A wake-up finds nothing enabled: a pulse that is on, or
\* still to come, has an interrupt enabled, which is the race excluded.
LEMMA CallStep ==
    ASSUME StepInv, Call \/ Finish, "wake_in_pulse" \notin Races
    PROVE  StepInv'
<1> USE DEF StepInv
<1>b. pend' \in BOOLEAN /\ step' \in BOOLEAN /\ dir' \in BOOLEAN /\ due' \in BOOLEAN
  BY BooleanStep DEF Next
<1>1. CASE GoIdleInSameLevel
  <2>1. /\ dier' = dier \ {"U"} /\ ~due' /\ pc = "idle"
        /\ UNCHANGED <<timer, compare, sr, nvic, pins, caller, ages, owed>>
    BY <1>1 DEF GoIdleInSameLevel
  <2>2. TypeOK'
    BY <2>1, <1>b DEF TypeOK
  <2> QED BY <2>1, <2>2 DEF CallerOK, PulseOK, DelayOK, UpdateOK
<1>2. CASE GoIdle_Load
  <2>1. /\ isr = "none" /\ ~pend /\ pc' \in IdleWindow /\ reg' = dier
        /\ UNCHANGED <<timer, compare, sr, dier, nvic, pins, ages, owed, due>>
    BY <1>2 DEF GoIdle_Load, Below
  <2>2. TypeOK'
    BY <2>1, <1>b DEF TypeOK
  <2> QED BY <2>1, <2>2 DEF CallerOK, PulseOK, DelayOK, UpdateOK
<1>3. CASE GoIdle_Store
  <2>1. /\ isr = "none" /\ ~pend /\ pc \in IdleWindow /\ pc' \in {"idle", "idle_clear"}
        /\ dier' = reg \ {"U"} /\ reg' = {} /\ ~due'
        /\ UNCHANGED <<timer, compare, sr, nvic, pins, ages, owed>>
    BY <1>3 DEF GoIdle_Store, Below
  <2>2. dier' = dier \ {"U"}
    BY <2>1 DEF CallerOK
  <2>3. TypeOK'
    BY <2>1, <2>2, <1>b DEF TypeOK
  <2> QED BY <2>1, <2>2, <2>3 DEF CallerOK, PulseOK, DelayOK, UpdateOK
<1>4. CASE GoIdle_Clear
  <2>1. /\ isr = "none" /\ pc' = "idle" /\ ~step'
        /\ low' = IF step THEN 0 ELSE low
        /\ dirAge' = IF dir THEN 0 ELSE dirAge
        /\ UNCHANGED <<timer, compare, sr, dier, nvic, reg, high, owed, due>>
    BY <1>4 DEF GoIdle_Clear, Below
  <2>2. TypeOK'
    BY <2>1, <1>b DEF TypeOK
  <2> QED BY <2>1, <2>2 DEF CallerOK, PulseOK, DelayOK, UpdateOK
<1>5. CASE WakeUp_Restart
  <2>1. /\ isr = "none" /\ ~pend /\ pc' = "wake_clear" /\ dier = {}
        /\ cnt' = WakeUp /\ arr' = WakeUp /\ preload' = WakeUp
        /\ sr' = sr \union {"U"}
        /\ UNCHANGED <<compare, dier, nvic, pins, reg, ages, owed, due>>
    BY <1>5 DEF WakeUp_Restart, Below
  <2>2. TypeOK'
    BY <2>1, <1>b DEF TypeOK
  <2> QED BY <2>1, <2>2 DEF CallerOK, PulseOK, DelayOK, UpdateOK
<1>6. CASE WakeUp_Clear
  <2>1. /\ isr = "none" /\ ~pend /\ pc = "wake_clear" /\ pc' = "wake_enable" /\ sr' = {}
        /\ UNCHANGED <<timer, compare, dier, nvic, pins, reg, ages, owed, due>>
    BY <1>6 DEF WakeUp_Clear, Below
  <2>2. TypeOK'
    BY <2>1, <1>b DEF TypeOK
  <2> QED BY <2>1, <2>2 DEF CallerOK, PulseOK, DelayOK, UpdateOK
<1>7. CASE WakeUp_Enable
  <2>1. /\ isr = "none" /\ ~pend /\ pc = "wake_enable" /\ pc' = "idle" /\ dier' = {"U"}
        /\ UNCHANGED <<timer, compare, sr, isr, age, pins, reg, ages, owed, due>>
    BY <1>7 DEF WakeUp_Enable, Below
  <2>2. TypeOK'
    BY <2>1, <1>b DEF TypeOK
  <2> QED BY <2>1, <2>2 DEF CallerOK, PulseOK, DelayOK, UpdateOK
<1> QED BY <1>1, <1>2, <1>3, <1>4, <1>5, <1>6, <1>7 DEF Call, Finish

\* A step that changes nothing keeps the invariant.
LEMMA StutterStep == ASSUME StepInv, UNCHANGED vars PROVE StepInv'
<1>1. pend' \in BOOLEAN /\ step' \in BOOLEAN /\ dir' \in BOOLEAN /\ due' \in BOOLEAN
  BY Zenon DEF vars, StepInv, TypeOK
<1>2. TypeOK'
  BY <1>1 DEF StepInv, TypeOK, vars
<1> QED BY <1>2 DEF StepInv, CallerOK, PulseOK, DelayOK, UpdateOK, vars

\* What the properties below assume: nothing that the code leaves to its callers
\* calls for the handler within stepperGoIdle or restarts the timer in a pulse.
NoRace == "idle_preempted" \notin Races /\ "wake_in_pulse" \notin Races

\* The invariant the theorems below rest on: pulse, delay and update are where the
\* registers, the pending interrupt and the handler say, whatever the latency.
THEOREM InvHolds == ASSUME NoRace PROVE Spec => []StepInv
<1>1. Init => StepInv
  BY StepInit
<1>2. StepInv /\ [Next]_vars => StepInv'
  BY TickStep, HandlerStep, CallbackStep, CallStep, StutterStep DEF NoRace, Next
<1> QED BY <1>1, <1>2, PTL DEF Spec

\* Every variable keeps its type.
THEOREM TypesHold == ASSUME NoRace PROVE Spec => []TypeOK
BY InvHolds, PTL DEF StepInv

\* Every step the core asks for becomes an edge of its own, whatever the latency
\* of the handler and the periods the core asks for.
THEOREM StepsAreEdges == ASSUME NoRace PROVE Spec => []EveryStepIsAnEdge
<1>1. StepInv => EveryStepIsAnEdge
  BY DEF StepInv, DelayOK, EveryStepIsAnEdge
<1> QED BY <1>1, InvHolds, PTL

\* A pulse that is on has its end scheduled.
THEOREM PulsesEnd == ASSUME NoRace PROVE Spec => []PulseWillEnd
<1>1. StepInv => PulseWillEnd
  BY DEF StepInv, PulseOK, PulseWillEnd
<1> QED BY <1>1, InvHolds, PTL

\* An update that no callback has served is still flagged.
THEOREM UpdatesStay == ASSUME NoRace PROVE Spec => []NoUpdateDropped
<1>1. StepInv => NoUpdateDropped
  BY DEF StepInv, UpdateOK, NoUpdateDropped
<1> QED BY <1>1, InvHolds, PTL

-----------------------------------------------------------------------------
(* Pulses and pauses.                                                       *)

\* The first period is long enough for a pause.
LEMMA PauseTick ==
    ASSUME StepInv, PauseOK, Tick
    PROVE  PauseOK'
<1> SUFFICES ASSUME ~step', low' < TOffMin
             PROVE  PauseOK'
  BY DEF PauseOK
<1>1. /\ UNCHANGED <<step, isr, dier, pc>> /\ isr = "none" /\ "CC2" \notin dier
      /\ low \in Nat /\ cnt \in Nat /\ low < TOffMin /\ low' = low + 1
  BY DEF Tick, PauseOK, StepInv, TypeOK, Smaller
<1>2. cnt' = IF cnt = 0 THEN arr ELSE cnt - 1
  BY DEF Tick
<1>3. /\ sr \subseteq sr' /\ sr' \subseteq Flags
      /\ "U" \in sr' <=> ("U" \in sr \/ cnt = 0)
  <2>1. sr' = sr \union {f \in Flags : (f = "U" /\ cnt = 0) \/ (f = "CC1" /\ cnt' = ccr1)
                                       \/ (f = "CC2" /\ cnt' = ccr2)}
    BY DEF Tick
  <2> QED BY <2>1 DEF StepInv, TypeOK
<1>4. ~step /\ (TOffMin <= low + cnt => TOffMin <= low' + cnt')
  BY <1>1, <1>2
<1>5. PauseAhead => PauseAhead'
  BY <1>1, <1>2, <1>3 DEF PauseAhead
<1>6. ASSUME "U" \notin dier, pend => "CC1" \in sr /\ "CC1" \in dier
      PROVE  "U" \notin dier' /\ (pend' => "CC1" \in sr' /\ "CC1" \in dier')
  <2>1. pend' = (pend \/ (sr' \ sr) \intersect dier # {})
    BY DEF Tick
  <2>2. (sr' \ sr) \intersect dier # {} => "CC1" \in sr' /\ "CC1" \in dier
    BY <1>1, <1>3, <1>6
  <2> QED BY <1>1, <1>3, <1>6, <2>1, <2>2
<1> QED BY <1>1, <1>4, <1>5, <1>6 DEF PauseOK

\* Every step keeps the part about pauses.
LEMMA PauseStep ==
    ASSUME StepInv, PauseOK, Next, TOffMin <= WakeUp
    PROVE  PauseOK'
<1> USE DEF StepInv
<1>1. CASE Tick
  BY <1>1, PauseTick
<1>2. CASE DelayDone
  BY <1>2 DEF DelayDone, StepOut, PauseOK
<1>3. CASE PulseDone
  <2>1. /\ "CC1" \in dier /\ "U" \notin sr' /\ cnt' \in Nat /\ TOffMin <= cnt'
        /\ low' = (IF step THEN 0 ELSE low) /\ isr' = "none" /\ pc' = pc
        /\ dier' = dier \ {"CC1"}
    BY <1>3 DEF PulseDone, Fires, Enter, TypeOK
  <2>2. TOffMin <= low' + cnt'
    <3>1. low' \in Nat
      BY <2>1 DEF TypeOK
    <3>2. \A m, n \in Nat : TOffMin <= n => TOffMin <= m + n
      OBVIOUS
    <3> QED BY <2>1, <3>1, <3>2, Zenon
  <2>3. pc \notin {"wake_clear", "wake_enable"}
    BY <2>1 DEF CallerOK
  <2>4. ~step' /\ low' < TOffMin => "CC2" \notin dier
    BY <2>1 DEF PauseOK, DelayOK
  <2> QED BY <2>1, <2>2, <2>3, <2>4 DEF PauseOK, PauseAhead
<1>4. CASE StepDue
  <2>1. pend /\ "U" \in sr /\ ~Fires("CC1") /\ UNCHANGED <<step, low>>
    BY <1>4 DEF StepDue, Enter
  <2>2. ~(~step /\ low < TOffMin)
    BY <2>1 DEF PauseOK, PauseAhead, Fires
  <2> QED BY <2>1, <2>2 DEF PauseOK
<1>5. CASE NothingDue
  <2>1. ~pend' /\ UNCHANGED <<timer, sr, dier, isr, pins, caller, ages>>
    BY <1>5 DEF NothingDue, Enter
  <2> QED BY <2>1 DEF PauseOK, PauseAhead
<1>6. CASE Callback
  <2>1. isr # "none" /\ low' = low /\ (step' \/ step' = step)
    BY <1>6 DEF Callback, NoPulse, PulseStart, PulseStartDelayed, SetPeriod, GoIdleInCallback, Goto,
       StepOut, ages, pins
  <2> QED BY <2>1 DEF PauseOK
<1>7. CASE GoIdleInSameLevel
  <2>1. dier' = dier \ {"U"} /\ UNCHANGED <<timer, sr, nvic, pins, caller, ages>>
    BY <1>7 DEF GoIdleInSameLevel
  <2> QED BY <2>1 DEF PauseOK, PauseAhead
<1>8. CASE GoIdle_Load
  <2>1. pc' \in IdleWindow /\ UNCHANGED <<timer, sr, dier, nvic, pins, ages>>
    BY <1>8 DEF GoIdle_Load, Below
  <2> QED BY <2>1 DEF PauseOK, PauseAhead
<1>9. CASE GoIdle_Store
  <2>1. /\ pc' \in {"idle", "idle_clear"} /\ dier' = dier \ {"U"}
        /\ UNCHANGED <<timer, sr, nvic, pins, ages>>
    BY <1>9 DEF GoIdle_Store, Below, CallerOK
  <2> QED BY <2>1 DEF PauseOK, PauseAhead
<1>10. CASE GoIdle_Clear
  <2>1. /\ isr = "none" /\ ~pend /\ pc = "idle_clear" /\ pc' = "idle"
        /\ low' = (IF step THEN 0 ELSE low)
        /\ UNCHANGED <<timer, sr, dier, nvic>>
    BY <1>10 DEF GoIdle_Clear, Below
  <2>2. "U" \notin dier' /\ ~pend' /\ isr' = "none" /\ pc' = "idle"
    BY <2>1 DEF CallerOK
  <2>3. ~step' /\ low' < TOffMin => "CC2" \notin dier'
    BY <2>1 DEF PauseOK, DelayOK
  <2> QED BY <2>2, <2>3 DEF PauseOK
<1>11. CASE WakeUp_Restart
  <2>1. /\ isr = "none" /\ ~pend /\ pc' = "wake_clear" /\ cnt' = WakeUp
        /\ UNCHANGED <<dier, nvic, pins, ages>> /\ "U" \notin dier
    BY <1>11 DEF WakeUp_Restart, Below
  <2>2. low' \in Nat /\ cnt' = WakeUp
    BY <2>1 DEF TypeOK
  <2>3. TOffMin <= low' + cnt'
    <3>1. \A m \in Nat : TOffMin <= m + WakeUp
      OBVIOUS
    <3> QED BY <2>2, <3>1, Zenon
  <2> QED BY <2>1, <2>3 DEF PauseOK
<1>12. CASE WakeUp_Clear
  <2>1. /\ pc = "wake_clear" /\ sr' = {} /\ pc' = "wake_enable"
        /\ UNCHANGED <<timer, dier, nvic, pins, ages>>
    BY <1>12 DEF WakeUp_Clear, Below
  <2> QED BY <2>1 DEF PauseOK, PauseAhead
<1>13. CASE WakeUp_Enable
  <2>1. /\ isr = "none" /\ pc = "wake_enable" /\ pc' = "idle" /\ dier' = {"U"}
        /\ UNCHANGED <<timer, sr, isr, pins, ages>>
    BY <1>13 DEF WakeUp_Enable, Below
  <2> QED BY <2>1 DEF PauseOK, PauseAhead
<1> QED BY <1>1, <1>2, <1>3, <1>4, <1>5, <1>6, <1>7, <1>8, <1>9, <1>10, <1>11, <1>12, <1>13
       DEF Next, Handler, Call, Finish

\* A pulse is ended when it has lasted, and begun when the pause has.
LEMMA EdgesInTime ==
    ASSUME StepInv, PauseOK, [Next]_vars
    PROVE  /\ PulseDone /\ step => high = TOff
           /\ ~step /\ step' => low = TOffMin
<1> USE DEF StepInv
<1>1. PulseDone /\ step => high = TOff
  BY DEF PulseDone, Fires, PulseOK
<1>2. ASSUME ~step, step'
      PROVE  isr # "none" \/ "CC2" \in dier
  <2>1. CASE Tick \/ Call \/ Finish \/ UNCHANGED vars
    BY <1>2, <2>1 DEF Tick, Call, Finish, GoIdleInSameLevel, GoIdle_Load, WakeUp_Restart, GoIdle_Store,
       GoIdle_Clear, WakeUp_Clear, WakeUp_Enable, vars
  <2>2. CASE Handler
    BY <1>2, <2>2 DEF Handler, DelayDone, PulseDone, StepDue, NothingDue, Fires
  <2>3. CASE Callback
    BY <2>3 DEF Callback, NoPulse, PulseStart, PulseStartDelayed, SetPeriod, GoIdleInCallback, Goto
  <2> QED BY <2>1, <2>2, <2>3 DEF Next
<1>3. ~step /\ step' => low = TOffMin
  BY <1>2 DEF PauseOK, TypeOK
<1> QED BY <1>1, <1>3

\* The handler ends no pulse before its time and starts none before the pin has
\* been off for t_off_min, whatever its latency and the periods asked for.
THEOREM PulsesAndPausesLast ==
    ASSUME NoRace, TOffMin <= WakeUp
    PROVE  Spec => PulseAndPauseLast
<1>1. Init => PauseOK
  BY StepInit
<1>2. StepInv /\ PauseOK /\ [Next]_vars => PauseOK'
  <2>1. ASSUME PauseOK, UNCHANGED vars PROVE PauseOK'
    BY <2>1 DEF PauseOK, PauseAhead, vars
  <2> QED BY <2>1, PauseStep
<1>3. StepInv /\ PauseOK /\ [Next]_vars => [/\ PulseDone /\ step => high = TOff
                                            /\ ~step /\ step' => low = TOffMin]_vars
  BY EdgesInTime
<1> QED BY <1>1, <1>2, <1>3, InvHolds, PTL DEF Spec, PulseAndPauseLast

-----------------------------------------------------------------------------
(* Callbacks.                                                               *)

\* The two overdue calls are what leaves the interrupt pending without a cause.
NothingOverdue == "idle_overdue" \notin Races /\ "delay_overdue" \notin Races

\* Every step keeps the part about the pending interrupt.
LEMMA PendStep ==
    ASSUME StepInv, PendOK, Next, NothingOverdue
    PROVE  PendOK'
<1> USE DEF StepInv
<1>1. CASE Tick
  <2>1. pend' => pend \/ (sr' \ sr) \intersect dier # {}
    BY <1>1 DEF Tick
  <2>2. sr \subseteq sr' /\ UNCHANGED <<dier, isr, step>>
    BY <1>1 DEF Tick
  <2> QED BY <2>1, <2>2 DEF PendOK
<1>2. CASE DelayDone
  <2>1. ~pend' /\ isr' = "none" /\ step'
    BY <1>2 DEF DelayDone, Enter, StepOut
  <2> QED BY <2>1 DEF PendOK
<1>3. CASE PulseDone
  <2>1. ~pend' /\ isr' = "none" /\ "CC1" \notin dier'
    BY <1>3 DEF PulseDone, Enter
  <2> QED BY <2>1 DEF PendOK
<1>4. CASE StepDue
  <2>1. pend /\ ~pend' /\ ~Fires("CC1") /\ ~Fires("CC2") /\ UNCHANGED <<dier, step>>
    BY <1>4 DEF StepDue, Enter
  <2>2. "U" \in dier
    BY <2>1 DEF PendOK, Fires, TypeOK
  <2> QED BY <2>1, <2>2 DEF PendOK
<1>5. CASE NothingDue
  <2>1. ~pend' /\ UNCHANGED <<isr, dier, step>>
    BY <1>5 DEF NothingDue, Enter
  <2> QED BY <2>1 DEF PendOK
<1>6. ASSUME isr = "output"
      PROVE  pend => "U" \in sr
  BY <1>6 DEF PendOK, DelayOK, TypeOK
<1>7. ASSUME NEW turn \in Turns, NoPulse(turn)
      PROVE  PendOK'
  <2>1. UNCHANGED <<sr, dier, pend, step>> /\ isr # "none"
    BY <1>7 DEF NoPulse, Goto
  <2> QED BY <2>1 DEF PendOK
<1>8. ASSUME NEW turn \in Turns, PulseStart(turn)
      PROVE  PendOK'
  <2>1. isr = "output" /\ step' /\ dier' = dier \union {"CC1"} /\ (pend' => pend /\ ~TooLate)
    BY <1>8 DEF PulseStart, StepOut, Goto
  <2> QED BY <1>6, <2>1 DEF PendOK, TooLate
<1>9. ASSUME NEW turn \in Turns, PulseStartDelayed(turn)
      PROVE  PendOK'
  <2>1. isr = "output" /\ step' = step /\ dier' = dier \union {"CC2"} /\ ~pend'
    BY <1>6, <1>9 DEF PulseStartDelayed, Goto, NothingOverdue
  <2> QED BY <2>1 DEF PendOK
<1>10. ASSUME NEW period \in Periods, SetPeriod(period)
       PROVE  PendOK'
  <2>1. isr' = "none" /\ UNCHANGED <<sr, dier, step>> /\ (pend' => pend \/ sr \intersect dier # {})
    BY <1>10 DEF SetPeriod, Goto, Return
  <2> QED BY <2>1 DEF PendOK
<1>11. CASE GoIdleInCallback
  <2>1. /\ isr' = "none" /\ dier' = dier \ {"U"} /\ ~Fires("U") /\ sr' = sr
        /\ pend' => pend \/ sr \intersect dier' # {}
    BY <1>11 DEF GoIdleInCallback, Goto, Return, MayIdle, NothingOverdue
  <2> QED BY <2>1 DEF PendOK, Fires
<1>12. CASE GoIdleInSameLevel
  <2>1. isr = "none" /\ dier' = dier \ {"U"} /\ ~Fires("U") /\ UNCHANGED <<sr, pend, isr>>
    BY <1>12 DEF GoIdleInSameLevel, MayIdle, NothingOverdue
  <2> QED BY <2>1 DEF PendOK, Fires
<1>13. CASE GoIdle_Load
  <2>1. UNCHANGED <<sr, dier, pend, isr, step>>
    BY <1>13 DEF GoIdle_Load
  <2> QED BY <2>1 DEF PendOK
<1>14. CASE GoIdle_Store
  <2>1. isr' = "none" /\ ~pend' /\ "U" \notin dier'
    BY <1>14 DEF GoIdle_Store, Below
  <2> QED BY <2>1 DEF PendOK
<1>15. CASE GoIdle_Clear
  <2>1. isr' = "none" /\ ~pend' /\ "U" \notin dier'
    BY <1>15 DEF GoIdle_Clear, Below, CallerOK
  <2> QED BY <2>1 DEF PendOK
<1>16. CASE WakeUp_Restart \/ WakeUp_Clear
  <2>1. isr' = "none" /\ ~pend' /\ UNCHANGED <<dier, step>>
    BY <1>16 DEF WakeUp_Restart, WakeUp_Clear, Below
  <2> QED BY <2>1 DEF PendOK
<1>17. CASE WakeUp_Enable
  <2>1. isr' = "none" /\ dier' = {"U"} /\ sr' = sr /\ (pend' => sr \intersect {"U"} # {})
    BY <1>17 DEF WakeUp_Enable, Below
  <2> QED BY <2>1 DEF PendOK
<1> QED BY <1>1, <1>2, <1>3, <1>4, <1>5, <1>7, <1>8, <1>9, <1>10, <1>11, <1>12, <1>13, <1>14, <1>15,
          <1>16, <1>17 DEF Next, Handler, Callback, Call, Finish

\* The callback runs only while stepper interrupts are enabled.
THEOREM NoIdleCallback ==
    ASSUME NoRace, NothingOverdue
    PROVE  Spec => NoCallbackWhenIdle
<1>1. Init => PendOK
  BY StepInit
<1>2. StepInv /\ PendOK /\ [Next]_vars => PendOK'
  <2>1. ASSUME PendOK, UNCHANGED vars PROVE PendOK'
    BY <2>1 DEF PendOK, vars
  <2> QED BY <2>1, PendStep
<1>3. StepInv /\ PendOK /\ [Next]_vars => [(isr = "none" /\ isr' = "output") => "U" \in dier]_vars
  <2> SUFFICES ASSUME StepInv, PendOK, Next, isr = "none", isr' = "output"
               PROVE  "U" \in dier
    BY DEF vars
  <2>1. PendOK' /\ isr' # "none"
    BY PendStep
  <2>2. CASE Handler
    <3>1. dier' = dier
      BY <2>2 DEF Handler, DelayDone, PulseDone, StepDue, NothingDue, Enter
    <3> QED BY <2>1, <3>1 DEF PendOK
  <2>3. ~(Tick \/ Callback \/ Call \/ Finish)
    BY DEF Tick, Callback, NoPulse, PulseStart, PulseStartDelayed, SetPeriod, GoIdleInCallback, Goto,
       Call, Finish, GoIdleInSameLevel, GoIdle_Load, WakeUp_Restart, GoIdle_Store, GoIdle_Clear,
       WakeUp_Clear, WakeUp_Enable
  <2> QED BY <2>2, <2>3 DEF Next
<1> QED BY <1>1, <1>2, <1>3, InvHolds, PTL DEF Spec, NoCallbackWhenIdle

-----------------------------------------------------------------------------
(* The direction.                                                           *)

\* A direction that has changed and a step that is enabled: the update that
\* brings it is at least t_on away, and so is the end of the delay in use.
DirOK ==
    /\ MinPeriod <= arr /\ MinPeriod <= preload
    /\ "U" \in sr /\ "U" \in dier => pend /\ dirAge = TOn
    /\ "U" \notin sr /\ "U" \in dier => TOn <= dirAge + cnt + 1
    /\ "CC2" \in dier => IF "CC2" \in sr THEN dirAge = TOn ELSE ccr2 + TOn <= dirAge + cnt
    /\ pc \in {"wake_clear", "wake_enable"} => TOn <= dirAge + cnt + 1
    /\ pc = "wake_enable" => "U" \notin sr

\* How much of a period is left where the callback is: it outputs a step so early
\* that a direction changed without one settles before the next update.
LateOK ==
    /\ isr = "output" => /\ "U" \notin sr /\ dirAge = TOn
                         /\ age <= Output /\ TOn + Output <= cnt + age + 1
    /\ isr = "rest" /\ "U" \notin sr => TOn <= cnt + age + 1
    /\ isr = "rest" /\ "U" \in sr => age <= Rest /\ TOn + Entry + Output + Rest <= cnt + age + 1
    /\ isr = "none" /\ "U" \in sr /\ "U" \in dier =>
           age <= Entry /\ TOn + Entry + Output <= cnt + age + 1

\* The callback keeps up: it outputs a step when t_on is left of the shortest
\* period, and it has returned and is entered again within one.
KeepsUp ==
    /\ TOn + Entry + Output <= MinPeriod + 1
    /\ Entry + Output + Rest <= MinPeriod + 1
    /\ MinPeriod < Limit /\ MinPeriod <= WakeUp

\* A tick.
LEMMA DirTick ==
    ASSUME StepInv, PendOK, DirOK, LateOK, Tick, KeepsUp, TOn > 0
    PROVE  DirOK' /\ LateOK'
<1>1. /\ UNCHANGED <<preload, dier, isr, pc, ccr2>>
      /\ cnt' = IF cnt = 0 THEN arr ELSE cnt - 1
      /\ arr' = IF cnt = 0 THEN preload ELSE arr
      /\ "U" \in sr' <=> ("U" \in sr \/ cnt = 0)
      /\ "CC2" \in sr' <=> ("CC2" \in sr \/ cnt' = ccr2)
      /\ dirAge' = Smaller(dirAge + 1, TOn)
      /\ pc \in {"wake_clear", "wake_enable"} => cnt > 0
  <2>1. sr' = sr \union {f \in Flags : \/ f = "U" /\ cnt = 0
                                       \/ f = "CC1" /\ cnt' = ccr1
                                       \/ f = "CC2" /\ cnt' = ccr2}
    BY DEF Tick
  <2>2. /\ "U" \in sr' <=> ("U" \in sr \/ cnt = 0)
        /\ "CC2" \in sr' <=> ("CC2" \in sr \/ cnt' = ccr2)
    BY <2>1
  <2> QED BY <2>2 DEF Tick
<1>2. /\ isr = "none" /\ pend => age < Entry
      /\ isr = "output" => age < Output
      /\ isr = "rest" => age < Rest
      /\ age' = (IF isr # "none" \/ pend THEN age + 1 ELSE 0)
  BY DEF Tick
<1>3. "U" \in sr' /\ "U" \in dier => pend'
  <2>1. pend' = (pend \/ (sr' \ sr) \intersect dier # {})
    BY DEF Tick
  <2> QED BY <2>1 DEF DirOK
<1>4. /\ cnt \in Nat /\ arr \in Nat /\ preload \in Nat /\ ccr2 \in Nat /\ age \in Nat
      /\ dirAge \in 0..TOn /\ isr \in {"none", "output", "rest"}
  BY DEF StepInv, TypeOK
<1>5. "CC2" \in dier /\ "CC2" \notin sr => ccr2 < cnt
  BY DEF StepInv, DelayOK
<1>6. isr # "none" => "U" \in dier
  BY DEF PendOK
<1>7. DirOK'
  <2>1. dirAge' = (IF dirAge + 1 <= TOn THEN dirAge + 1 ELSE TOn)
    BY <1>1 DEF Smaller
  <2> QED BY <1>1, <1>3, <1>4, <1>5, <2>1 DEF DirOK
<1>8. LateOK'
  <2>1. CASE isr = "output"
    <3>1. cnt > 0 /\ "U" \notin sr /\ dirAge = TOn /\ age < Output /\ TOn + Output <= cnt + age + 1
      BY <1>2, <1>4, <2>1 DEF LateOK
    <3>2. /\ cnt' = cnt - 1 /\ "U" \notin sr' /\ age' = age + 1 /\ dirAge' = TOn /\ isr' = "output"
      BY <1>1, <1>2, <1>4, <2>1, <3>1 DEF Smaller
    <3> QED BY <1>4, <3>1, <3>2 DEF LateOK
  <2>2. CASE isr = "rest"
    <3>1. age < Rest /\ age' = age + 1 /\ isr' = "rest"
      BY <1>1, <1>2, <2>2
    <3>2. CASE "U" \in sr
      BY <1>1, <1>4, <2>2, <3>1, <3>2 DEF LateOK, KeepsUp, DirOK
    <3>3. CASE "U" \notin sr
      BY <1>1, <1>4, <2>2, <3>1, <3>3 DEF LateOK, KeepsUp, DirOK
    <3> QED BY <3>2, <3>3
  <2>3. CASE isr = "none"
    <3>1. CASE "U" \in sr /\ "U" \in dier
      <4>1. pend
        BY <3>1 DEF DirOK
      <4>2. age < Entry /\ age' = age + 1 /\ TOn + Entry + Output <= cnt + age + 1
        BY <1>2, <2>3, <3>1, <4>1 DEF LateOK
      <4> QED BY <1>1, <1>4, <2>3, <4>2 DEF LateOK, KeepsUp, DirOK
    <3>2. CASE ~("U" \in sr /\ "U" \in dier) /\ "U" \in dier /\ cnt = 0
      <4>1. cnt' = arr /\ MinPeriod <= arr
        BY <1>1, <3>2 DEF DirOK
      <4>2. age' \in Nat /\ age' <= Entry
        BY <1>2, <1>4, <2>3
      <4>3. TOn + Entry + Output <= cnt' + age' + 1
        <5>1. TOn + Entry + Output <= MinPeriod + 1
          BY DEF KeepsUp
        <5>2. MinPeriod <= cnt' /\ cnt' \in Nat
          BY <1>4, <4>1
        <5>3. TOn + Entry + Output \in Int /\ MinPeriod \in Int
          OBVIOUS
        <5>4. \A s, p, c, a \in Int : s <= p + 1 /\ p <= c /\ 0 <= a => s <= c + a + 1
          OBVIOUS
        <5>5. cnt' \in Int /\ age' \in Int /\ 0 <= age'
          BY <4>2, <5>2
        <5> QED BY <5>1, <5>2, <5>3, <5>4, <5>5
      <4>4. isr' = "none"
        BY <1>1, <2>3
      <4> QED BY <4>2, <4>3, <4>4 DEF LateOK
    <3>3. CASE ~("U" \in sr /\ "U" \in dier) /\ ~("U" \in dier /\ cnt = 0)
      BY <1>1, <2>3, <3>3 DEF LateOK
    <3> QED BY <3>1, <3>2, <3>3
  <2> QED BY <1>4, <2>1, <2>2, <2>3
<1> QED BY <1>7, <1>8

\* The pulse is put off when an update has come, or would come too early.
LEMMA StepOutLater ==
    ASSUME TypeOK, NEW enables, NEW asked, StepOut(enables, asked)
    PROVE  /\ sr' = {} /\ dier' = enables \union {"CC1"}
           /\ cnt' \in Nat /\ TOnOffMin <= cnt' /\ (cnt' = cnt \/ cnt' = TOnOffMin)
           /\ "U" \notin sr => cnt <= cnt'
           /\ step'
BY DEF StepOut, TooLate, TypeOK

\* The handler.
LEMMA DirHandler ==
    ASSUME StepInv, PendOK, DirOK, LateOK, Handler, KeepsUp
    PROVE  DirOK' /\ LateOK'
<1>t. /\ cnt \in Nat /\ arr \in Nat /\ preload \in Nat /\ ccr2 \in Nat /\ age \in Nat
      /\ dirAge \in 0..TOn /\ TypeOK /\ sr \subseteq Flags /\ dier \subseteq Flags
  BY DEF StepInv, TypeOK
<1>0. pend /\ isr = "none" /\ pend' = FALSE /\ age' = 0
  BY DEF Handler, DelayDone, PulseDone, StepDue, NothingDue, Enter
<1>1. CASE DelayDone
  <2>1. /\ "CC2" \in dier /\ "CC2" \in sr /\ StepOut(dier \ {"CC2"}, owed)
        /\ UNCHANGED <<arr, preload, isr, pc, dirAge>>
    BY <1>1 DEF DelayDone, Fires
  <2>2. dirAge = TOn
    BY <2>1 DEF DirOK
  <2>3. sr' = {} /\ dier' = (dier \ {"CC2"}) \union {"CC1"} /\ cnt' \in Nat
    BY <1>t, <2>1, StepOutLater
  <2>4. pc \notin {"wake_clear", "wake_enable"}
    BY <1>0 DEF StepInv, CallerOK
  <2>5. isr' = "none" /\ "U" \notin sr' /\ "CC2" \notin dier' /\ dirAge' = TOn
        /\ pc' \notin {"wake_clear", "wake_enable"}
    BY <1>0, <2>1, <2>2, <2>3, <2>4
  <2>6. MinPeriod <= arr' /\ MinPeriod <= preload' /\ TOn <= dirAge' + cnt' + 1
    <3>1. MinPeriod <= arr' /\ MinPeriod <= preload'
      BY <2>1 DEF DirOK
    <3>2. dirAge' = TOn /\ cnt' \in Nat /\ TOn \in Nat
      BY <2>3, <2>5
    <3>3. \A d, c \in Nat : d <= d + c + 1
      OBVIOUS
    <3>4. TOn <= dirAge' + cnt' + 1
      BY <3>2, <3>3
    <3> QED BY <3>1, <3>4
  <2>7. DirOK'
    BY <2>5, <2>6 DEF DirOK
  <2> QED BY <2>5, <2>7 DEF LateOK
<1>2. CASE PulseDone
  <2>1. /\ ~Fires("CC2") /\ sr' = {} /\ dier' = dier \ {"CC1"}
        /\ cnt' = (IF "U" \in sr \/ cnt < TOffMin THEN TOffMin ELSE cnt)
        /\ UNCHANGED <<arr, preload, ccr2, isr, pc, dirAge>>
    BY <1>2 DEF PulseDone
  <2>2. cnt' \in Nat /\ ("U" \notin sr => cnt <= cnt')
    BY <1>t, <2>1
  <2>3. pc \notin {"wake_clear", "wake_enable"}
    BY <1>0 DEF StepInv, CallerOK
  <2>4. CASE "CC2" \in dier
    <3>1. "CC2" \notin sr /\ "U" \notin sr /\ ccr2 + TOn <= dirAge + cnt
      BY <2>1, <2>4 DEF Fires, StepInv, DelayOK, DirOK
    <3> QED BY <1>0, <1>t, <2>1, <2>2, <2>3, <3>1 DEF DirOK, LateOK
  <2>5. CASE "CC2" \notin dier
    BY <1>0, <1>t, <2>1, <2>2, <2>3, <2>5 DEF DirOK, LateOK
  <2> QED BY <2>4, <2>5
<1>3. CASE StepDue
  <2>1. /\ ~Fires("CC2") /\ ~Fires("CC1") /\ "U" \in sr /\ sr' = {} /\ isr' = "output"
        /\ UNCHANGED <<cnt, arr, preload, ccr2, dier, pc, dirAge>>
    BY <1>3 DEF StepDue
  <2>2. "U" \in dier /\ "CC2" \notin dier
    <3>1. "U" \in dier
      BY <1>0, <1>t, <2>1 DEF PendOK, Fires
    <3> QED BY <2>1, <3>1 DEF Fires, StepInv, DelayOK
  <2>3. dirAge = TOn /\ age <= Entry /\ TOn + Entry + Output <= cnt + age + 1
    BY <1>0, <2>1, <2>2 DEF DirOK, LateOK
  <2>4. pc \notin {"wake_clear", "wake_enable"}
    BY <1>0 DEF StepInv, CallerOK
  <2>5. DirOK'
    BY <1>t, <2>1, <2>2, <2>3, <2>4 DEF DirOK
  <2>6. LateOK'
    BY <1>0, <1>t, <2>1, <2>3 DEF LateOK
  <2> QED BY <2>5, <2>6
<1>4. CASE NothingDue
  <2>1. ~Fires("CC2") /\ "U" \notin sr /\ UNCHANGED <<cnt, arr, preload, ccr2, sr, dier, isr, pc, dirAge>>
    BY <1>4 DEF NothingDue
  <2> QED BY <1>0, <2>1 DEF DirOK, LateOK
<1> QED BY <1>1, <1>2, <1>3, <1>4 DEF Handler

\* The callback.
LEMMA DirCallback ==
    ASSUME StepInv, PendOK, DirOK, LateOK, Callback, KeepsUp, TOn > 0, NothingOverdue
    PROVE  DirOK' /\ LateOK'
<1>t. /\ cnt \in Nat /\ arr \in Nat /\ preload \in Nat /\ ccr2 \in Nat /\ age \in Nat
      /\ dirAge \in 0..TOn /\ TypeOK /\ sr \subseteq Flags /\ dier \subseteq Flags
  BY DEF StepInv, TypeOK
<1>0. isr # "none" => "U" \in dier /\ pc \notin {"wake_clear", "wake_enable"}
  BY DEF PendOK, StepInv, CallerOK
<1>o. isr = "output" => /\ "U" \notin sr /\ dirAge = TOn /\ "CC2" \notin dier
                        /\ TOn <= cnt + 1
  BY <1>t DEF LateOK, StepInv, DelayOK
<1>1. ASSUME NEW turn \in Turns, NoPulse(turn)
      PROVE  DirOK' /\ LateOK'
  <2>1. /\ isr = "output" /\ isr' = "rest" /\ age' = 0 /\ (dirAge' = dirAge \/ dirAge' = 0)
        /\ UNCHANGED <<cnt, arr, preload, ccr2, sr, dier, pend, pc>>
    BY <1>1 DEF NoPulse, Goto, DirOut
  <2> QED BY <1>t, <1>0, <1>o, <2>1 DEF DirOK, LateOK
<1>2. ASSUME NEW turn \in Turns, PulseStart(turn)
      PROVE  DirOK' /\ LateOK'
  <2>1. /\ isr = "output" /\ isr' = "rest" /\ age' = 0 /\ dirAge' = dirAge
        /\ StepOut(dier, owed + 1) /\ UNCHANGED <<arr, preload, ccr2, pc>>
    BY <1>2 DEF PulseStart, Goto, DirOut
  <2>2. sr' = {} /\ dier' = dier \union {"CC1"} /\ cnt' \in Nat /\ cnt <= cnt'
    BY <1>t, <1>o, <2>1, StepOutLater
  <2>3. /\ "U" \in dier' /\ "U" \notin sr' /\ "CC2" \notin dier' /\ TOn <= cnt' + 1
        /\ pc' \notin {"wake_clear", "wake_enable"} /\ dirAge' \in Nat
    <3>1. TOn <= cnt + 1 /\ cnt <= cnt' /\ cnt \in Nat /\ cnt' \in Nat /\ TOn \in Nat
      BY <1>t, <1>o, <2>1, <2>2
    <3>2. \A t, c, d \in Nat : t <= c + 1 /\ c <= d => t <= d + 1
      OBVIOUS
    <3>3. TOn <= cnt' + 1
      BY <3>1, <3>2
    <3> QED BY <1>t, <1>0, <1>o, <2>1, <2>2, <3>3
  <2>4. TOn <= dirAge' + cnt' + 1 /\ TOn <= cnt' + age' + 1
    <3>1. dirAge' \in Nat /\ age' = 0 /\ cnt' \in Nat /\ TOn <= cnt' + 1 /\ TOn \in Nat
      BY <2>1, <2>2, <2>3
    <3>2. \A t, c, d \in Nat : t <= c + 1 => t <= d + c + 1 /\ t <= c + d + 1
      OBVIOUS
    <3>3. age' \in Nat
      BY <3>1
    <3> QED BY <3>1, <3>2, <3>3
  <2>5. DirOK'
    BY <2>1, <2>3, <2>4 DEF DirOK
  <2> QED BY <2>1, <2>3, <2>4, <2>5 DEF LateOK
<1>3. ASSUME NEW turn \in Turns, PulseStartDelayed(turn)
      PROVE  DirOK' /\ LateOK'
  <2>1. /\ isr = "output" /\ isr' = "rest" /\ age' = 0 /\ dirAge' \in {0, dirAge}
        /\ cnt' = (IF cnt < TDlyOffMin THEN TDlyOffMin ELSE cnt) /\ ccr2' = cnt' - TOn
        /\ sr' = {} /\ dier' = dier \union {"CC2"} /\ UNCHANGED <<arr, preload, pc>>
    BY <1>3 DEF PulseStartDelayed, Goto, DirOut
  <2>2. cnt' \in Nat /\ ccr2' \in Nat /\ TOn <= cnt' /\ ccr2' + TOn <= cnt' /\ dirAge' \in Nat
    BY <1>t, <2>1 DEF TDlyOffMin, TOnOffMin
  <2>3. /\ "U" \notin sr' /\ "CC2" \notin sr' /\ pc' \notin {"wake_clear", "wake_enable"}
        /\ MinPeriod <= arr' /\ MinPeriod <= preload'
    BY <1>0, <2>1 DEF DirOK
  <2>4. TOn <= dirAge' + cnt' + 1 /\ ccr2' + TOn <= dirAge' + cnt' /\ TOn <= cnt' + age' + 1
    <3>1. \A t, c, d, e \in Nat : /\ t <= c => t <= d + c + 1 /\ t <= c + 0 + 1
                                  /\ e + t <= c => e + t <= d + c
      OBVIOUS
    <3> QED BY <2>1, <2>2, <3>1
  <2>5. DirOK'
    BY <2>3, <2>4 DEF DirOK
  <2> QED BY <2>1, <2>3, <2>4, <2>5 DEF LateOK
<1>4. ASSUME isr = "rest", "U" \in sr
      PROVE  TOn + Entry + Output <= cnt + 1
  BY <1>t, <1>4 DEF LateOK
<1>5. ASSUME NEW period \in Periods, SetPeriod(period)
      PROVE  DirOK' /\ LateOK'
  <2>1. /\ isr = "rest" /\ isr' = "none" /\ age' = 0 /\ preload' = CyclesPerTick(period)
        /\ (pend => pend') /\ UNCHANGED <<cnt, arr, ccr2, sr, dier, pc, dirAge>>
    BY <1>5 DEF SetPeriod, Goto, Return
  <2>2. MinPeriod <= preload'
    <3>1. period \in Nat
      OBVIOUS
    <3> QED BY <2>1, <3>1 DEF CyclesPerTick, Larger, KeepsUp
  <2> QED BY <1>t, <1>4, <2>1, <2>2 DEF DirOK, LateOK
<1>6. CASE GoIdleInCallback
  <2>1. /\ isr = "rest" /\ isr' = "none" /\ age' = 0 /\ dier' = dier \ {"U"}
        /\ UNCHANGED <<cnt, arr, preload, ccr2, sr, pc, dirAge>>
    BY <1>6 DEF GoIdleInCallback, Goto
  <2> QED BY <1>t, <2>1 DEF DirOK, LateOK
<1> QED BY <1>1, <1>2, <1>3, <1>5, <1>6 DEF Callback

\* The calls of the core.
LEMMA DirCall ==
    ASSUME StepInv, PendOK, DirOK, LateOK, Call \/ Finish, KeepsUp,
           NoRace, "clear_in_delay" \notin Races
    PROVE  DirOK' /\ LateOK'
<1>t. /\ cnt \in Nat /\ arr \in Nat /\ preload \in Nat /\ ccr2 \in Nat /\ age \in Nat
      /\ dirAge \in 0..TOn /\ sr \subseteq Flags /\ dier \subseteq Flags
  BY DEF StepInv, TypeOK
<1>1. CASE GoIdleInSameLevel
  <2>1. isr = "none" /\ dier' = dier \ {"U"}
        /\ UNCHANGED <<cnt, arr, preload, ccr2, sr, isr, age, pc, dirAge>>
    BY <1>1 DEF GoIdleInSameLevel
  <2> QED BY <2>1 DEF DirOK, LateOK
<1>2. CASE GoIdle_Load
  <2>1. pc' \in IdleWindow /\ UNCHANGED <<cnt, arr, preload, ccr2, sr, dier, pend, isr, age, dirAge>>
    BY <1>2 DEF GoIdle_Load, Below
  <2> QED BY <2>1 DEF DirOK, LateOK
<1>3. CASE GoIdle_Store
  <2>1. /\ isr = "none" /\ dier' = dier \ {"U"} /\ pc' \in {"idle", "idle_clear"}
        /\ UNCHANGED <<cnt, arr, preload, ccr2, sr, isr, age, dirAge>>
    BY <1>3 DEF GoIdle_Store, Below, StepInv, CallerOK
  <2> QED BY <2>1 DEF DirOK, LateOK
<1>4. CASE GoIdle_Clear
  <2>1. /\ isr = "none" /\ pc' = "idle" /\ "U" \notin dier /\ "CC2" \notin dier
        /\ UNCHANGED <<cnt, arr, preload, ccr2, sr, dier, isr, age>>
    BY <1>4 DEF GoIdle_Clear, Below, StepInv, CallerOK
  <2> QED BY <2>1 DEF DirOK, LateOK
<1>5. CASE WakeUp_Restart
  <2>1. /\ isr = "none" /\ dier = {} /\ pc' = "wake_clear"
        /\ cnt' = WakeUp /\ arr' = WakeUp /\ preload' = WakeUp /\ sr' = sr \union {"U"}
        /\ UNCHANGED <<ccr2, dier, isr, age, dirAge>>
    BY <1>5 DEF WakeUp_Restart, Below, NoRace
  <2>2. TOn <= WakeUp + 1 /\ MinPeriod <= WakeUp
    BY DEF KeepsUp
  <2> QED BY <1>t, <2>1, <2>2 DEF DirOK, LateOK
<1>6. CASE WakeUp_Clear
  <2>1. /\ pc = "wake_clear" /\ isr = "none" /\ dier = {} /\ pc' = "wake_enable" /\ sr' = {}
        /\ UNCHANGED <<cnt, arr, preload, ccr2, dier, isr, age, dirAge>>
    BY <1>6 DEF WakeUp_Clear, Below, StepInv, CallerOK
  <2> QED BY <2>1 DEF DirOK, LateOK
<1>7. CASE WakeUp_Enable
  <2>1. /\ pc = "wake_enable" /\ isr = "none" /\ dier' = {"U"} /\ pc' = "idle"
        /\ UNCHANGED <<cnt, arr, preload, ccr2, sr, isr, age, dirAge>>
    BY <1>7 DEF WakeUp_Enable, Below
  <2> QED BY <1>t, <2>1 DEF DirOK, LateOK
<1> QED BY <1>1, <1>2, <1>3, <1>4, <1>5, <1>6, <1>7 DEF Call, Finish

\* With the delay in use, and a callback that keeps up with the shortest period,
\* the direction is stable for t_on before an edge.
THEOREM DirectionHasSettled ==
    ASSUME NoRace, NothingOverdue, "clear_in_delay" \notin Races, KeepsUp
    PROVE  Spec => DirectionSettles
<1> DEFINE Good == StepInv /\ PendOK /\ (TOn > 0 => DirOK /\ LateOK)
<1>1. Init => Good
  BY StepInit DEF Init, DirOK, LateOK, KeepsUp
<1>2. StepInv /\ [Next]_vars => StepInv'
  BY TickStep, HandlerStep, CallbackStep, CallStep, StutterStep DEF NoRace, Next
<1>3. Good /\ [Next]_vars => Good'
  <2>1. ASSUME StepInv, PendOK, [Next]_vars PROVE PendOK'
    <3>1. CASE UNCHANGED vars
      BY <2>1, <3>1 DEF PendOK, vars
    <3> QED BY <2>1, <3>1, PendStep
  <2>2. ASSUME StepInv, PendOK, DirOK, LateOK, TOn > 0, [Next]_vars PROVE DirOK' /\ LateOK'
    <3>1. CASE UNCHANGED vars
      BY <2>2, <3>1 DEF DirOK, LateOK, vars
    <3> QED BY <2>2, <3>1, DirTick, DirHandler, DirCallback, DirCall DEF Next
  <2> QED BY <1>2, <2>1, <2>2
<1>4. Good /\ [Next]_vars => [(~step /\ step') => dirAge' = TOn]_vars
  <2> SUFFICES ASSUME Good, Next, ~step, step' PROVE dirAge' = TOn
    BY DEF vars
  <2>1. dirAge \in 0..TOn
    BY DEF StepInv, TypeOK
  <2>2. CASE TOn = 0
    <3>1. StepInv'
      BY <1>2
    <3> QED BY <2>2, <3>1 DEF StepInv, TypeOK
  <2>3. CASE TOn > 0 /\ Handler
    <3>1. DelayDone
      BY <2>3 DEF Handler, PulseDone, StepDue, NothingDue
    <3> QED BY <2>3, <3>1 DEF DelayDone, Fires, DirOK
  <2>4. CASE TOn > 0 /\ Callback
    <3>1. PICK turn \in Turns : PulseStart(turn)
      BY <2>4 DEF Callback, NoPulse, PulseStartDelayed, SetPeriod, GoIdleInCallback
    <3>2. isr = "output" /\ dirAge' = dirAge
      BY <2>4, <3>1 DEF PulseStart, Goto, DirOut
    <3> QED BY <2>4, <3>2 DEF LateOK
  <2>5. ~(Tick \/ Call \/ Finish)
    BY DEF Tick, Call, Finish, GoIdleInSameLevel, GoIdle_Load, WakeUp_Restart, GoIdle_Store,
       GoIdle_Clear, WakeUp_Clear, WakeUp_Enable
  <2> QED BY <2>1, <2>2, <2>3, <2>4, <2>5 DEF Next
<1> QED BY <1>1, <1>3, <1>4, PTL DEF Spec, DirectionSettles
=============================================================================
