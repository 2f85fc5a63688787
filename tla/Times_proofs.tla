---------------------------- MODULE Times_proofs ----------------------------
(***************************************************************************)
(* Theorems about the services that keep time by an interrupt and the      *)
(* foreground, each about the specification of its service.                *)
(***************************************************************************)
EXTENDS SpindleEncoder_proofs, SequenceTheorems

-----------------------------------------------------------------------------
(* What getElapsedMicros returns is sound for every length of the          *)
(* millisecond, every lateness of the tick handler and any length of run,  *)
(* as long as the two races are excluded.                                  *)

\* The handler runs when the tick is due and not too late, and what is kept of
\* the cycle counter is of that moment.
ClockInv ==
    /\ now \in Nat /\ uwTick \in Nat /\ cycles \in Nat /\ inTick \in BOOLEAN
    /\ cycles <= now /\ now <= uwTick * Unit + Unit + Lateness
    /\ inTick => uwTick * Unit + Unit <= cycles
    /\ ~inTick => uwTick * Unit <= cycles /\ cycles <= uwTick * Unit + Lateness

\* A reader has the pair of the present tick or of one before.
ReaderInv ==
    /\ copyMs \in Nat /\ copyCycles \in Nat /\ reading \in BOOLEAN /\ readAt \in Nat
    /\ reading =>
         /\ copyMs <= uwTick
         /\ copyMs = uwTick => inTick \/ copyCycles = cycles
         /\ copyMs * Unit <= copyCycles /\ copyCycles <= copyMs * Unit + Lateness
         /\ copyCycles <= readAt /\ readAt <= now
         /\ readAt <= copyMs * Unit + Unit + Lateness

\* What was returned last is behind what a reader would compute, from the pair
\* as it is and from the copy it has.
MicrosInv ==
    /\ micros \in Nat
    /\ ~inTick => micros <= uwTick * Unit + Fraction(now - cycles)
    /\ inTick => micros <= uwTick * Unit + Unit
    /\ reading => micros <= copyMs * Unit + Fraction(now - copyCycles)

TimeInv == ClockInv /\ ReaderInv /\ MicrosInv

-----------------------------------------------------------------------------
\* A millisecond more.
LEMMA OneMore ==
    ASSUME Unit \in Nat, NEW k \in Nat
    PROVE  k * Unit \in Nat /\ (k + 1) * Unit = k * Unit + Unit
  OBVIOUS

\* An earlier tick is over when a later one begins.
LEMMA Earlier ==
    ASSUME Unit \in Nat, NEW j \in Nat, NEW k \in Nat, j < k
    PROVE  j * Unit + Unit <= k * Unit
<1> DEFINE d == k - (j + 1)
<1>1. d \in Nat /\ k = (j + 1) + d
  OBVIOUS
<1>2. k * Unit = (j + 1) * Unit + d * Unit
  BY <1>1
<1>3. d * Unit >= 0
  BY <1>1
<1>4. (j + 1) * Unit = j * Unit + Unit
  BY OneMore
<1>5. j * Unit \in Nat /\ d * Unit \in Nat
  BY <1>1, OneMore
<1> HIDE DEF d
<1> QED BY <1>2, <1>3, <1>4, <1>5

\* The fraction is at most a millisecond, and grows with the time since.
LEMMA FractionBounds ==
    ASSUME Unit \in Nat, NEW s \in Nat, NEW t \in Nat, s <= t
    PROVE  /\ Fraction(s) \in Nat /\ Fraction(s) <= Unit /\ Fraction(s) <= s
           /\ Fraction(s) <= Fraction(t)
           /\ Fraction(s) = Unit \/ Fraction(s) = s
  BY DEF Fraction

\* The invariant of the clock holds at reset.
LEMMA TimeInit == ASSUME Unit \in Nat, Lateness \in Nat PROVE ClockInit => TimeInv
<1> SUFFICES ASSUME ClockInit PROVE TimeInv
  OBVIOUS
<1>1. uwTick * Unit = 0
  BY DEF ClockInit
<1>2. now = 0 /\ uwTick = 0 /\ cycles = 0 /\ inTick = FALSE /\ reading = FALSE /\ micros = 0
  BY DEF ClockInit
<1>3. Fraction(now - cycles) \in Nat
  BY <1>2 DEF Fraction
<1>4. ClockInv
  <2> DEFINE due == uwTick * Unit
  <2>1. due = 0
    BY <1>1
  <2>2. uwTick \in Nat /\ cycles = 0 /\ now = 0 /\ inTick = FALSE
    BY <1>2
  <2> HIDE DEF due
  <2>3. 0 <= due + Unit + Lateness /\ 0 <= due + Lateness /\ due <= 0
    BY <2>1
  <2>4. uwTick * Unit <= cycles /\ cycles <= uwTick * Unit + Lateness
    BY <2>2, <2>3 DEF due
  <2>5. cycles <= now /\ now <= uwTick * Unit + Unit + Lateness
    BY <2>2, <2>3 DEF due
  <2>6. now \in Nat /\ cycles \in Nat /\ inTick \in BOOLEAN /\ ~inTick
    BY <2>2
  <2> QED BY <2>2, <2>4, <2>5, <2>6 DEF ClockInv
<1>5. ReaderInv
  BY DEF ClockInit, ReaderInv
<1>6. MicrosInv
  BY <1>1, <1>2, <1>3 DEF MicrosInv
<1> QED BY <1>4, <1>5, <1>6 DEF TimeInv

-----------------------------------------------------------------------------
\* The invariant is inductive, and a step that returns the microseconds returns
\* sound ones.
LEMMA TimeStep ==
    ASSUME Unit \in Nat, Lateness \in Nat, Microseconds \in Nat \ {0}, TimeRaces = {},
           TimeInv, [ClockNext]_clockVars
    PROVE  /\ TimeInv'
           /\ micros' >= micros
           /\ micros' # micros => micros' <= now
           /\ reading /\ ~reading' => micros' + Lateness >= readAt
<1> USE DEF TimeInv, ClockInv, ReaderInv, MicrosInv
<1>u. /\ uwTick * Unit \in Nat /\ (uwTick + 1) * Unit = uwTick * Unit + Unit
      /\ copyMs * Unit \in Nat /\ (copyMs + 1) * Unit = copyMs * Unit + Unit
  BY OneMore
<1>f. now - cycles \in Nat /\ (reading => now - copyCycles \in Nat)
  OBVIOUS
<1>1. CASE Pass
  <2>1. now' = now + 1 /\ UNCHANGED <<uwTick, cycles, inTick, copyMs, copyCycles, reading, readAt, micros>>
    BY <1>1 DEF Pass, reader
  <2>2. ClockInv'
    BY <1>1, <1>u, <2>1 DEF Pass
  <2>3. ReaderInv'
    BY <1>u, <2>1
  <2>4. Fraction(now - cycles) <= Fraction(now + 1 - cycles) /\ Fraction(now + 1 - cycles) \in Nat
    BY <1>f, FractionBounds DEF Fraction
  <2>5. reading => Fraction(now - copyCycles) <= Fraction(now + 1 - copyCycles)
                   /\ Fraction(now + 1 - copyCycles) \in Nat
    BY <1>f, FractionBounds DEF Fraction
  <2>6. MicrosInv'
    BY <1>u, <1>f, <2>1, <2>4, <2>5, FractionBounds DEF Fraction
  <2> QED BY <2>1, <2>2, <2>3, <2>6
<1>2. CASE Tick_Cycles
  <2>1. /\ ~inTick /\ now >= uwTick * Unit + Unit /\ cycles' = now /\ inTick' = TRUE
        /\ UNCHANGED <<now, uwTick, copyMs, copyCycles, reading, readAt, micros>>
    BY <1>2, <1>u DEF Tick_Cycles, reader
  <2>2. Fraction(now - cycles) <= Unit /\ Fraction(now - cycles) \in Nat
    BY <1>f, FractionBounds
  <2>3. (reading => micros <= copyMs * Unit + Fraction(now - copyCycles))'
    BY <2>1 DEF Fraction
  <2> QED BY <1>u, <2>1, <2>2, <2>3
<1>3. CASE Tick_Count
  <2>1. /\ inTick /\ uwTick' = uwTick + 1 /\ inTick' = FALSE
        /\ UNCHANGED <<now, cycles, copyMs, copyCycles, reading, readAt, micros>>
    BY <1>3 DEF Tick_Count, reader
  <2>2. uwTick' * Unit = uwTick * Unit + Unit
    BY <1>u, <2>1
  <2>3. Fraction(now - cycles) \in Nat
    BY <1>f, FractionBounds
  <2>4. ClockInv'
    <3> DEFINE due == uwTick' * Unit
    <3>1. due \in Nat /\ due <= cycles /\ cycles <= now /\ now <= due + Lateness
      BY <1>u, <2>1, <2>2
    <3> HIDE DEF due
    <3>2. cycles <= due + Lateness /\ now <= due + Unit + Lateness
      BY <3>1
    <3>3. now' = now /\ cycles' = cycles /\ uwTick' \in Nat /\ inTick' = FALSE
      BY <2>1
    <3> QED BY <3>1, <3>2, <3>3 DEF due
  <2>5. ReaderInv'
    BY <1>u, <2>1, <2>2
  <2>6. MicrosInv'
    BY <1>u, <2>1, <2>2, <2>3 DEF Fraction
  <2> QED BY <2>1, <2>4, <2>5, <2>6
<1>4. CASE Read_Pair
  <2>1. /\ ~reading /\ ~inTick
        /\ copyMs' = uwTick /\ copyCycles' = cycles /\ reading' = TRUE /\ readAt' = now
        /\ UNCHANGED <<now, uwTick, cycles, inTick, micros>>
    BY <1>4 DEF Read_Pair, clock
  <2>2. ClockInv' /\ ReaderInv'
    BY <1>u, <2>1
  <2>3. MicrosInv'
    BY <2>1 DEF Fraction
  <2> QED BY <2>1, <2>2, <2>3
<1>5. CASE Read_Fraction
  <2> DEFINE f == Fraction(now - copyCycles)
  <2>1. /\ reading /\ reading' = FALSE /\ (copyMs + 1) * Unit < Microseconds
        /\ micros' = (copyMs * Unit + f) % Microseconds
        /\ UNCHANGED <<now, uwTick, cycles, inTick, copyMs, copyCycles, readAt>>
    <3>1. (copyMs + 1) * Unit \in Nat
      BY <1>u
    <3> QED BY <1>5, <3>1 DEF Read_Fraction, clock
  <2>2. f \in Nat /\ f <= Unit /\ f <= now - copyCycles /\ (f = Unit \/ f = now - copyCycles)
    BY <1>f, <2>1, FractionBounds
  <2> HIDE DEF f
  <2>3. micros' = copyMs * Unit + f
    <3> DEFINE m == copyMs * Unit + f
    <3>1. m \in Nat /\ m < Microseconds
      BY <1>u, <2>1, <2>2
    <3> HIDE DEF m
    <3>2. m % Microseconds = m
      BY <3>1
    <3> QED BY <2>1, <3>2 DEF m
  <2>4. micros <= copyMs * Unit + f
    BY <2>1 DEF f
  <2>5. ClockInv' /\ ReaderInv'
    BY <2>1
  <2>6. ~inTick => copyMs * Unit + f <= uwTick * Unit + Fraction(now - cycles)
    <3>1. CASE copyMs = uwTick
      <4>1. ~inTick => f = Fraction(now - cycles)
        BY <2>1, <3>1 DEF f
      <4> QED BY <1>u, <2>2, <3>1, <4>1
    <3>2. CASE copyMs # uwTick
      <4>1. copyMs * Unit + Unit <= uwTick * Unit
        BY <2>1, <3>2, Earlier
      <4>2. Fraction(now - cycles) \in Nat
        BY <1>f, FractionBounds
      <4> QED BY <1>u, <2>2, <4>1, <4>2
    <3> QED BY <3>1, <3>2
  <2>7. copyMs * Unit + f <= uwTick * Unit + Unit
    <3>1. CASE copyMs = uwTick
      BY <1>u, <2>2, <3>1
    <3>2. CASE copyMs # uwTick
      <4>1. copyMs * Unit + Unit <= uwTick * Unit
        BY <2>1, <3>2, Earlier
      <4> QED BY <1>u, <2>2, <4>1
    <3> QED BY <3>1, <3>2
  <2>8. MicrosInv'
    <3>1. micros' \in Nat
      BY <1>u, <2>2, <2>3
    <3>2. (~inTick => micros <= uwTick * Unit + Fraction(now - cycles))'
      BY <2>1, <2>3, <2>6 DEF Fraction
    <3> QED BY <2>1, <2>3, <2>7, <3>1, <3>2
  <2>9. micros' <= now /\ micros' + Lateness >= readAt
    BY <1>u, <2>1, <2>2, <2>3
  <2> QED BY <2>1, <2>3, <2>4, <2>5, <2>8, <2>9
<1>6. CASE UNCHANGED clockVars
  BY <1>6 DEF clockVars, clock, reader, Fraction
<1> QED BY <1>1, <1>2, <1>3, <1>4, <1>5, <1>6 DEF ClockNext

\* The microseconds of getElapsedMicros never go back, are never ahead of the
\* time and lag it by no more than the tick handler is late, whatever a
\* millisecond is counted in and for as long as they fit the register.
THEOREM MicrosAreSound ==
    ASSUME Unit \in Nat, Lateness \in Nat, Microseconds \in Nat \ {0}, TimeRaces = {}
    PROVE  ClockSpec => TimeIsSound
<1>1. ClockInit => TimeInv
  BY TimeInit
<1>2. TimeInv /\ [ClockNext]_clockVars => TimeInv'
  BY TimeStep
<1>3. TimeInv /\ [ClockNext]_clockVars =>
        [/\ micros' >= micros
         /\ micros' # micros => micros' <= now
         /\ reading /\ ~reading' => micros' + Lateness >= readAt]_clockVars
  BY TimeStep
<1> QED BY <1>1, <1>2, <1>3, PTL DEF ClockSpec, TimeIsSound

-----------------------------------------------------------------------------
(* A delay is on time, whatever nested delays, rearming callbacks and      *)
(* ticks between the two stores do, as long as none is asked for while the *)
(* callback of another is still to come.                                   *)

\* OnTime is about a step: that the callback in place is the one to come and
\* that counter and ticks gone by add up has to be known before it.
Types ==
    /\ {ms, asked, passed} \subseteq Nat /\ alone \in BOOLEAN
    /\ pc \in {"idle", "store", "wait", "nested"}

\* The callback to come is stored, about to be stored, run or lost.
ToCome ==
    /\ isr = 0 => callback \in {0, waiting}
    /\ isr # 0 => isr = waiting
    /\ pc \in {"store", "nested"} => arg = waiting /\ callback = 0 /\ isr = 0

\* What the counter holds is what is left of the delay asked for last.
Left ==
    alone =>
      /\ pc # "nested"
      /\ waiting # 0 \/ pc \in {"store", "wait"} =>
           /\ ms > 0 => passed + ms = asked
           /\ ms = 0 => passed >= asked

DelayInv == Types /\ ToCome /\ Left

\* Every action keeps what the callbacks need.
LEMMA ToComeStep ==
    ASSUME "supersede" \notin DelayRaces, 0 \notin Callbacks, DelayInv, [DelayNext]_delayVars
    PROVE  ToCome'
<1> USE DEF DelayInv, ToCome, Types
<1>1. ASSUME NEW n \in 1..MaxDelay, NEW cb \in Callbacks \union {0}, Start(n, cb) PROVE ToCome'
  BY <1>1 DEF Start, Asked, Foreground, Supersedes
<1>2. CASE StartZero
  BY <1>2 DEF StartZero, Foreground, Supersedes
<1>3. ASSUME NEW n \in 1..MaxDelay, NEW cb \in Callbacks, Nested(n, cb) PROVE ToCome'
  BY <1>3 DEF Nested, Asked, Foreground, Supersedes
<1>4. CASE StoreCallback
  BY <1>4 DEF StoreCallback, Foreground, delayHistory
<1>5. CASE Return
  BY <1>5 DEF Return, Foreground, delay, delayHistory
<1>6. CASE Tick
  BY <1>6 DEF Tick, Count
<1>7. CASE Called
  BY <1>7 DEF Called
<1>8. ASSUME NEW n \in 1..MaxDelay, NEW cb \in Callbacks, CalledRearms(n, cb) PROVE ToCome'
  BY <1>8 DEF CalledRearms, Asked
<1>9. CASE UNCHANGED delayVars
  BY <1>9 DEF delayVars, delay, delayHistory
<1> QED BY <1>1, <1>2, <1>3, <1>4, <1>5, <1>6, <1>7, <1>8, <1>9 DEF DelayNext, Ask

\* Every action keeps the counter in step with the ticks.
LEMMA LeftStep ==
    ASSUME "supersede" \notin DelayRaces, 0 \notin Callbacks, DelayInv, [DelayNext]_delayVars
    PROVE  Types' /\ Left'
<1> USE DEF DelayInv, ToCome, Types, Left
<1>1. ASSUME NEW n \in 1..MaxDelay, NEW cb \in Callbacks \union {0}, Start(n, cb)
      PROVE  Types' /\ Left'
  BY <1>1 DEF Start, Asked, Foreground, Supersedes
<1>2. CASE StartZero
  BY <1>2 DEF StartZero, Foreground, Supersedes
<1>3. ASSUME NEW n \in 1..MaxDelay, NEW cb \in Callbacks, Nested(n, cb) PROVE Types' /\ Left'
  <2>1. ~alone' /\ alone' \in BOOLEAN
    BY <1>3, Zenon DEF Nested, Asked
  <2>2. {ms', asked', passed'} \subseteq Nat /\ pc' = "nested"
    BY <1>3 DEF Nested, Asked
  <2> QED BY <2>1, <2>2
<1>4. CASE StoreCallback
  BY <1>4 DEF StoreCallback, Foreground, delayHistory
<1>5. CASE Return
  BY <1>5 DEF Return, Foreground, delay, delayHistory
<1>6. CASE Tick
  BY <1>6 DEF Tick, Count, RunsOutInArm
<1>7. CASE Called
  BY <1>7 DEF Called
<1>8. ASSUME NEW n \in 1..MaxDelay, NEW cb \in Callbacks, CalledRearms(n, cb)
      PROVE  Types' /\ Left'
  <2>1. ~alone' /\ alone' \in BOOLEAN
    BY <1>8, Zenon DEF CalledRearms, Asked
  <2>2. {ms', asked', passed'} \subseteq Nat /\ pc' = pc
    BY <1>8 DEF CalledRearms, Asked
  <2> QED BY <2>1, <2>2
<1>9. CASE UNCHANGED delayVars
  BY <1>9 DEF delayVars, delay, delayHistory
<1> QED BY <1>1, <1>2, <1>3, <1>4, <1>5, <1>6, <1>7, <1>8, <1>9 DEF DelayNext, Ask

\* What a step does to isr and pc under the invariant.
LEMMA OnTimeStep ==
    ASSUME 0 \notin Callbacks, DelayInv, [DelayNext]_delayVars
    PROVE  /\ isr = 0 /\ isr' # 0 => isr' = waiting /\ (alone => passed' = asked)
           /\ alone /\ pc = "wait" /\ pc' = "idle" => passed >= asked
<1> USE DEF DelayInv, ToCome, Types, Left
<1> DEFINE Goal == /\ isr = 0 /\ isr' # 0 => isr' = waiting /\ (alone => passed' = asked)
                   /\ alone /\ pc = "wait" /\ pc' = "idle" => passed >= asked
<1>1. CASE Tick
  BY <1>1 DEF Tick, Count
<1>2. CASE Return
  BY <1>2 DEF Return, delay
<1>3. CASE Ask
  BY <1>3 DEF Ask, Start, StartZero, Nested, Foreground
<1>4. CASE StoreCallback
  BY <1>4 DEF StoreCallback
<1>5. CASE Called \/ \E n \in 1..MaxDelay, cb \in Callbacks : CalledRearms(n, cb)
  BY <1>5 DEF Called, CalledRearms
<1>6. CASE UNCHANGED delayVars
  BY <1>6 DEF delayVars, delay
<1> QED BY <1>1, <1>2, <1>3, <1>4, <1>5, <1>6 DEF DelayNext

\* What the tick calls is the callback asked for and not called yet, at the tick
\* that completes the delay, and a blocking delay is not left too early: OnTime,
\* for delays of any length, with every race admitted but that of asking for a
\* delay while the callback of another is to come.
THEOREM DelaysAreOnTime ==
    ASSUME "supersede" \notin DelayRaces, MaxDelay \in Nat, 0 \notin Callbacks
    PROVE  DelaySpec => OnTime
<1>1. DelayInit => DelayInv
  BY DEF DelayInit, DelayInv, Types, ToCome, Left
<1>2. DelayInv /\ [DelayNext]_delayVars => DelayInv'
  BY ToComeStep, LeftStep DEF DelayInv
<1>3. DelayInv /\ [DelayNext]_delayVars =>
        [/\ isr = 0 /\ isr' # 0 => isr' = waiting /\ (alone => passed' = asked)
         /\ alone /\ pc = "wait" /\ pc' = "idle" => passed >= asked]_delayVars
  BY OnTimeStep
<1> QED BY <1>1, <1>2, <1>3, PTL DEF DelaySpec, OnTime

-----------------------------------------------------------------------------
(* Injected steps come out for every set of axes and any number of steps,  *)
(* as long as none of the races happens.                                   *)

\* The pulse is to come, is on, or there is none; the handler has found what
\* the flags say.
Pending == running = "delay" \/ "compare" \in sr
On      == (running = "pulse" /\ sr = {}) \/ "timeout" \in sr

Owed(S) == \A a \in Axes : steps[a] = IF a \in S THEN edges[a] + 1 ELSE edges[a]

InjectInv ==
    /\ high \subseteq Axes /\ injOut \subseteq Axes /\ own \subseteq Axes
    /\ steps \in [Axes -> Nat] /\ edges \in [Axes -> Nat]
    /\ \/ running = "no" /\ (sr = {} \/ sr = {"timeout"})
       \/ running = "delay" /\ sr = {}
       \/ running = "pulse" /\ (sr = {} \/ sr = {"compare"})
    /\ \/ handler = "idle" /\ irq = {}
       \/ handler = "read" /\ irq = sr /\ sr # {}
    /\ delayed = configured
    /\ injOut \subseteq injAxes /\ own \cap injOut = {}
    /\ Pending => high = own /\ Owed(injOut)
    /\ On => high = own \union injOut /\ Owed({})
    /\ ~Pending /\ ~On => injOut = {} /\ high = own /\ Owed({})

\* Every step of motion, injector and timer keeps the invariant.
LEMMA InjectStep ==
    ASSUME InjectRaces = {}, InjectInv, [StepsNext]_stepsVars
    PROVE  InjectInv'
<1> USE DEF InjectInv, Pending, On, Owed, Quiet, Rise
<1>1. ASSUME NEW S \in (SUBSET Axes) \ {{}}, OutputStep(S) PROVE InjectInv'
  <2>1. /\ running = "no" /\ sr = {} /\ handler = "idle" /\ own \cap S = {} /\ high = own
        /\ steps' = [a \in Axes |-> IF a \in S THEN steps[a] + 1 ELSE steps[a]]
        /\ injOut' = S /\ injAxes' = claimed \union S /\ sr' = {}
        /\ running' = (IF delayed THEN "delay" ELSE "pulse")
        /\ UNCHANGED <<claimed, delayed, configured, irq, handler, own>>
    BY <1>1 DEF OutputStep, interrupt
  <2>2. CASE delayed
    <3>1. UNCHANGED <<high, edges>>
      BY <1>1, <2>2 DEF OutputStep
    <3> QED BY <2>1, <2>2, <3>1
  <2>3. CASE ~delayed
    <3>1. /\ high' = high \union S
          /\ edges' = [a \in Axes |-> IF a \in S \ high THEN edges[a] + 1 ELSE edges[a]]
      BY <1>1, <2>3 DEF OutputStep
    <3> QED BY <2>1, <2>3, <3>1
  <2> QED BY <2>2, <2>3
<1>2. ASSUME NEW a \in Axes, Claim(a) PROVE InjectInv'
  BY <1>2 DEF Claim, timer, interrupt, stepsHistory
<1>3. ASSUME NEW a \in Axes, Release(a) PROVE InjectInv'
  BY <1>3 DEF Release, timer, interrupt, stepsHistory
<1>4. ASSUME NEW S \in SUBSET Axes, StepOut(S) PROVE InjectInv'
  <2>1. /\ high' = (high \cap injAxes) \union (S \ injAxes)
        /\ own' = (own \cap injAxes) \union (S \ injAxes)
        /\ UNCHANGED <<injOut, injAxes, delayed, configured, running, sr, irq, handler, steps, edges>>
    BY <1>4 DEF StepOut, timer, interrupt
  <2>2. own' \cap injOut = {} /\ high' \subseteq Axes /\ own' \subseteq Axes
    BY <2>1
  <2>3. high = own => high' = own'
    BY <2>1
  <2>4. high = own \union injOut => high' = own' \union injOut
    BY <2>1
  <2> QED BY <2>1, <2>2, <2>3, <2>4
<1>5. CASE Compare
  BY <1>5 DEF Compare, Flag, pulse, interrupt, stepsHistory
<1>6. CASE Timeout
  BY <1>6 DEF Timeout, Flag, pulse, interrupt, stepsHistory
<1>7. CASE Handler_Read
  BY <1>7 DEF Handler_Read, pulse, timer, stepsHistory
<1>8. CASE Handler_Call
  <2>1. /\ handler = "read" /\ handler' = "idle" /\ sr' = {} /\ irq' = {} /\ irq = sr
        /\ UNCHANGED <<claimed, delayed, configured, running, steps, own>>
    BY <1>8 DEF Handler_Call
  <2>2. CASE sr = {"compare"}
    <3>1. /\ running = "pulse" /\ injOut' = injOut /\ injAxes' = injAxes
          /\ high' = high \union injOut
          /\ edges' = [a \in Axes |-> IF a \in injOut \ high THEN edges[a] + 1 ELSE edges[a]]
      BY <1>8, <2>1, <2>2 DEF Handler_Call, AfterTimeout
    <3> QED BY <2>1, <2>2, <3>1
  <2>3. CASE sr = {"timeout"}
    <3>1. running = "no" /\ injOut' = {} /\ high' = high \ injOut /\ edges' = edges
      BY <1>8, <2>1, <2>3 DEF Handler_Call, AfterTimeout
    <3> QED BY <2>1, <2>3, <3>1
  <2> QED BY <2>1, <2>2, <2>3
<1>9. CASE UNCHANGED stepsVars
  BY <1>9 DEF stepsVars, pulse, timer, interrupt, stepsHistory
<1> QED BY <1>1, <1>2, <1>3, <1>4, <1>5, <1>6, <1>7, <1>8, <1>9 DEF StepsNext

\* The invariant of the injector holds at reset.
LEMMA InjectInit == ASSUME InjectRaces = {} PROVE StepsInit => InjectInv
  BY DEF StepsInit, InjectInv, Pending, On, Owed

\* Every injected step has come out as an edge of its own once the timer is
\* quiet, whatever is claimed and whatever the motion steps meanwhile.
THEOREM InjectionsComeOut ==
    ASSUME InjectRaces = {}
    PROVE  StepsSpec => []EveryInjectionIsAnEdge
<1>1. StepsInit => InjectInv
  BY InjectInit
<1>2. InjectInv /\ [StepsNext]_stepsVars => InjectInv'
  BY InjectStep
<1>3. InjectInv => EveryInjectionIsAnEdge
  <2> SUFFICES ASSUME InjectInv, Quiet PROVE edges = steps
    BY DEF EveryInjectionIsAnEdge
  <2>1. \A a \in Axes : steps[a] = edges[a]
    BY DEF InjectInv, Quiet, Pending, On, Owed
  <2> QED BY <2>1 DEF InjectInv
<1> QED BY <1>1, <1>2, <1>3, PTL DEF StepsSpec

\* The pins are active for a pulse of the motion or an injected one and for
\* nothing else, and an injected pulse lasts until the timer has run out.
THEOREM PinsAreOwned ==
    ASSUME InjectRaces = {}
    PROVE  StepsSpec => []PinsFollowTheirOwner
<1>1. StepsInit => InjectInv
  BY InjectInit
<1>2. InjectInv /\ [StepsNext]_stepsVars => InjectInv'
  BY InjectStep
<1>3. InjectInv => PinsFollowTheirOwner
  BY DEF InjectInv, PinsFollowTheirOwner, Quiet, Pending, On
<1> QED BY <1>1, <1>2, <1>3, PTL DEF StepsSpec

-----------------------------------------------------------------------------
(* The line of the Trinamic drivers carries what was meant, as long as the *)
(* line is turned round before the driver replies and the driver does not  *)
(* reply to a read that was given up.                                      *)

\* The middle of a bit.
Half == Period \div 2
Bit  == {0, 1}

\* What the assumption on the constants says of the UART: handler and poll
\* together are late by less than half a bit.
LEMMA UartTimes ==
    /\ Bits \in Nat \ {0} /\ RequestLength \in Nat \ {0} /\ ReplyLength \in Nat \ {0}
    /\ Period \in Nat \ {0} /\ SwitchDelay \in Nat \ {0}
    /\ IrqLate \in Nat /\ PollLate \in Nat /\ AbortTimeout \in Nat /\ Pause \in Nat
    /\ Half \in Nat /\ 2 * Half <= Period /\ IrqLate + PollLate < Half
    /\ AbortTimeout >= Pause
<1>1. Period \in Nat /\ Period > 0
  BY TimesAssumption DEF TimesAssumption
<1>2. Half \in Nat /\ 2 * Half <= Period
  BY <1>1 DEF Half
<1> QED BY <1>2, TimesAssumption DEF TimesAssumption, Half

\* The count of a bit goes round.
LEMMA NextPhase ==
    ASSUME NEW n \in 0..Period - 1
    PROVE  /\ (n + 1) % Period = IF n + 1 = Period THEN 0 ELSE n + 1
           /\ (n + 1) % Period \in 0..Period - 1
<1>1. Period \in Nat /\ Period > 0
  BY UartTimes
<1>2. \A d \in Nat : d <= Period => d % Period = IF d < Period THEN d ELSE 0
  BY <1>1
<1> QED BY <1>1, <1>2

\* A byte is the sequence of its bits.
LEMMA ByteIs ==
    ASSUME NEW b \in Uart!Bytes
    PROVE  b \in Seq(Bit) /\ Len(b) = Bits /\ \A i \in 1..Bits : b[i] \in Bit
<1>1. b \in [1..Bits -> {0, 1}]
  BY DEF Uart!Bytes
<1> QED BY <1>1, UartTimes DEF Bit

\* As many bits as a byte has are a byte.
LEMMA ByteIsSeq ==
    ASSUME NEW s \in Seq(Bit), Len(s) = Bits
    PROVE  s \in Uart!Bytes
<1>1. s \in [1..Bits -> Bit]
  BY LenProperties
<1> QED BY <1>1 DEF Uart!Bytes, Bit

\* A frame is the START bit, the bits of the byte and the STOP bit.
LEMMA FrameIs ==
    ASSUME NEW b \in Uart!Bytes
    PROVE  /\ Uart!Frame(b) \in Seq(Bit) /\ Len(Uart!Frame(b)) = Bits + 2
           /\ Uart!Frame(b)[1] = 0 /\ Uart!Frame(b)[Bits + 2] = 1
           /\ \A i \in 1..Bits : Uart!Frame(b)[i + 1] = b[i]
           /\ \A i \in 1..Bits + 2 : Uart!Frame(b)[i] \in Bit
<1>0. Bits \in Nat
  BY UartTimes
<1>1. b \in Seq(Bit) /\ Len(b) = Bits
  BY ByteIs
<1> DEFINE s == <<0>> \o b
<1>2. <<0>> \in Seq(Bit) /\ <<1>> \in Seq(Bit) /\ Len(<<0>>) = 1 /\ Len(<<1>>) = 1
  BY DEF Bit
<1>3. /\ s \in Seq(Bit) /\ Len(s) = 1 + Bits
      /\ \A i \in 1..1 + Bits : s[i] = IF i <= 1 THEN <<0>>[i] ELSE b[i - 1]
  <2>1. /\ s \in Seq(Bit) /\ Len(s) = Len(<<0>>) + Len(b)
        /\ \A i \in 1..Len(<<0>>) + Len(b) : s[i] = IF i <= Len(<<0>>) THEN <<0>>[i] ELSE b[i - Len(<<0>>)]
    BY <1>1, <1>2, ConcatProperties
  <2> QED BY <1>1, <1>2, <2>1
<1> HIDE DEF s
<1> DEFINE f == s \o <<1>>
<1>4. /\ f \in Seq(Bit) /\ Len(f) = 1 + Bits + 1
      /\ \A i \in 1..1 + Bits + 1 : f[i] = IF i <= 1 + Bits THEN s[i] ELSE <<1>>[i - (1 + Bits)]
  <2>1. /\ f \in Seq(Bit) /\ Len(f) = Len(s) + Len(<<1>>)
        /\ \A i \in 1..Len(s) + Len(<<1>>) : f[i] = IF i <= Len(s) THEN s[i] ELSE <<1>>[i - Len(s)]
    BY <1>2, <1>3, ConcatProperties
  <2> QED BY <1>2, <1>3, <2>1
<1>5. Uart!Frame(b) = f
  BY DEF Uart!Frame, f, s
<1> HIDE DEF f
<1>6. f[1] = 0
  BY <1>0, <1>3, <1>4
<1>7. f[Bits + 2] = 1
  BY <1>0, <1>4
<1>8. \A i \in 1..Bits : f[i + 1] = b[i]
  <2> SUFFICES ASSUME NEW i \in 1..Bits PROVE f[i + 1] = b[i]
    OBVIOUS
  <2>1. i + 1 \in 1..1 + Bits /\ i + 1 \in 1..1 + Bits + 1 /\ i + 1 > 1 /\ (i + 1) - 1 = i
    BY <1>0
  <2> QED BY <1>3, <1>4, <2>1
<1>9. \A i \in 1..Bits + 2 : f[i] \in Bit
  BY <1>0, <1>4, ElementOfSeq
<1>10. Len(f) = Bits + 2
  BY <1>0, <1>4
<1> QED BY <1>4, <1>5, <1>6, <1>7, <1>8, <1>9, <1>10

\* A datagram is a sequence of bytes, with a first one and the others.
LEMMA DatagramIs ==
    ASSUME NEW n \in Nat \ {0}, NEW d \in Uart!Datagrams(n)
    PROVE  /\ d \in Seq(Uart!Bytes) /\ Len(d) = n /\ d # <<>>
           /\ Head(d) = d[1] /\ d[1] \in Uart!Bytes
           /\ Tail(d) \in Seq(Uart!Bytes) /\ Len(Tail(d)) = n - 1
           /\ \A i \in 1..n - 1 : Tail(d)[i] = d[i + 1]
<1>1. d \in [1..n -> Uart!Bytes]
  BY DEF Uart!Datagrams
<1>2. d \in Seq(Uart!Bytes) /\ Len(d) = n /\ d # <<>>
  BY <1>1
<1> QED BY <1>2, HeadTailProperties

\* Where a call can be, and the types of what timer, buffers and driver keep.
Places == {"idle", "send", "listen", "read", "abort", "stop", "driven"}

UartBooleans ==
    /\ udis \in BOOLEAN /\ uif \in BOOLEAN /\ txBusy \in BOOLEAN
    /\ rxBusy \in BOOLEAN /\ reads \in BOOLEAN

TimerTypes ==
    /\ cnt \in 0..Period - 1 /\ lag \in 0..IrqLate
    /\ uif => cnt = lag /\ ~udis
    /\ waited \in 0..AbortTimeout
    /\ mode \in {"tx", "rx"} /\ out \in Bit
    /\ uartAt \in Places /\ answer \in {"none", "bad", "ok"}

BufferTypes ==
    /\ txData \in Seq(Bit) /\ todo \in Seq(Uart!Bytes)
    /\ bitCount \in -1..Bits /\ rxByte \in Seq(Bit)
    /\ bitCount >= 0 => Len(rxByte) = bitCount
    /\ rxData \in Seq(Uart!Bytes) /\ got \in Seq(Uart!Bytes) /\ irqCount \in Nat

DriverTypes ==
    /\ reply \in Seq(Uart!Bytes) /\ Len(reply) <= ReplyLength
    /\ tmcByte \in 0..Len(reply) /\ tmcBit \in 0..Bits + 1
    /\ tmcPhase \in 0..Period - 1 /\ tmcIn \in 0..Period - 1
    /\ tmcBits \in Seq(Bit) /\ Len(tmcBits) <= Bits + 1
    /\ tmcGot \in Seq(Uart!Bytes) /\ request \in Seq(Uart!Bytes)

UartTypes == UartBooleans /\ TimerTypes /\ BufferTypes /\ DriverTypes

\* The line is low or high.
LEMMA LineIsBit == ASSUME UartTypes PROVE Uart!Line \in Bit
<1>1. ASSUME Uart!Drives PROVE Uart!TmcOut \in Bit
  <2>1. tmcByte \in 1..Len(reply) /\ tmcBit + 1 \in 1..Bits + 2
    BY <1>1, UartTimes DEF Uart!Drives, UartTypes, DriverTypes
  <2>2. reply[tmcByte] \in Uart!Bytes
    BY <2>1, ElementOfSeq DEF UartTypes, DriverTypes
  <2> QED BY <2>1, <2>2, FrameIs DEF Uart!TmcOut
<1> QED BY <1>1 DEF Uart!Line, UartTypes, TimerTypes, Bit

\* The types hold at reset.
LEMMA UartTypesInit == Uart!Init => UartTypes
<1> SUFFICES ASSUME Uart!Init PROVE UartTypes
  OBVIOUS
<1>0. <<>> \in Seq(Bit) /\ <<>> \in Seq(Uart!Bytes) /\ Len(<<>>) = 0
  OBVIOUS
<1>1. UartBooleans
  BY Zenon DEF Uart!Init, UartBooleans
<1>2. TimerTypes
  BY UartTimes DEF Uart!Init, TimerTypes, Places, Bit
<1>3. BufferTypes
  BY UartTimes, <1>0 DEF Uart!Init, BufferTypes
<1>4. DriverTypes
  BY UartTimes, <1>0 DEF Uart!Init, DriverTypes
<1> QED BY <1>1, <1>2, <1>3, <1>4 DEF UartTypes

\* Every action keeps the types of the flags.
LEMMA BooleanSteps ==
    ASSUME UartBooleans, Uart!Next
    PROVE  UartBooleans'
<1> USE DEF UartBooleans
<1>1. ASSUME NEW read \in BOOLEAN, NEW d, Uart!Call(read, d) PROVE UartBooleans'
  BY <1>1, Zenon DEF Uart!Call
<1>2. ASSUME Uart!NextByte \/ Uart!Sent \/ Uart!Start \/ Uart!Abort PROVE UartBooleans'
  BY <1>2, Zenon DEF Uart!NextByte, Uart!Sent, Uart!Start, Uart!Abort, Uart!timer, Uart!pin, Uart!tx, Uart!rx
<1>3. ASSUME Uart!Aborted \/ Uart!ReadByte \/ Uart!DriveAgain \/ Uart!Finish PROVE UartBooleans'
  BY <1>3, Zenon DEF Uart!Aborted, Uart!ReadByte, Uart!DriveAgain, Uart!Finish, Uart!timer, Uart!pin, Uart!tx, Uart!rx
<1>4. ASSUME Uart!Irq PROVE UartBooleans'
  BY <1>4, Zenon DEF Uart!Irq, Uart!Send, Uart!Rcv, Uart!tx, Uart!rx, Uart!call
<1>5. ASSUME Uart!Pass PROVE UartBooleans'
  <2>1. udis' = udis /\ txBusy' = txBusy /\ rxBusy' = rxBusy /\ reads' = reads
    BY <1>5 DEF Uart!Pass, Uart!tx, Uart!rx
  <2>2. uif' \in BOOLEAN
    BY <1>5 DEF Uart!Pass
  <2> QED BY <2>1, <2>2, Zenon
<1>6. ASSUME NEW d, Uart!Replies(d) PROVE UartBooleans'
  BY <1>6, Zenon DEF Uart!Replies, Uart!timer, Uart!pin, Uart!tx, Uart!rx
<1> QED BY <1>1, <1>2, <1>3, <1>4, <1>5, <1>6 DEF Uart!Next

\* Every action keeps the types of timer, pin and call; the interrupt is pending
\* as long as it says, since the timer went round.
LEMMA TimerSteps ==
    ASSUME UartTypes, Uart!Next
    PROVE  TimerTypes'
<1> USE UartTimes DEF UartTypes, TimerTypes, Places, Bit
<1>1. ASSUME NEW read \in BOOLEAN, NEW d \in Uart!Datagrams(RequestLength), Uart!Call(read, d) PROVE TimerTypes'
  BY <1>1 DEF Uart!Call, Uart!Foreground
<1>2. ASSUME Uart!NextByte \/ Uart!Sent PROVE TimerTypes'
  BY <1>2 DEF Uart!NextByte, Uart!Sent, Uart!Foreground, Uart!timer, Uart!pin
<1>3. ASSUME Uart!Start PROVE TimerTypes'
  BY <1>3 DEF Uart!Start, Uart!Foreground, Uart!pin, Uart!HalfBit, Half
<1>4. ASSUME Uart!Abort \/ Uart!Aborted PROVE TimerTypes'
  BY <1>4 DEF Uart!Abort, Uart!Aborted, Uart!Foreground, Uart!timer, Uart!pin
<1>5. ASSUME Uart!ReadByte \/ Uart!DriveAgain \/ Uart!Finish PROVE TimerTypes'
  BY <1>5 DEF Uart!ReadByte, Uart!DriveAgain, Uart!Finish, Uart!Foreground, Uart!timer, Uart!pin
<1>6. ASSUME Uart!Irq PROVE TimerTypes'
  <2>1. out' \in Bit
    <3>1. txData # <<>> => Head(txData) \in Bit
      BY HeadTailProperties DEF BufferTypes
    <3> QED BY <1>6, <3>1 DEF Uart!Irq, Uart!Send, Uart!Rcv
  <2> QED BY <1>6, <2>1 DEF Uart!Irq, Uart!call
<1>7. ASSUME Uart!Pass PROVE TimerTypes'
  <2>1. cnt' = (IF cnt + 1 = Period THEN 0 ELSE cnt + 1) /\ cnt' \in 0..Period - 1
    BY <1>7, NextPhase DEF Uart!Pass
  <2>2. waited' \in 0..AbortTimeout
    BY <1>7 DEF Uart!Pass
  <2>3. lag' \in 0..IrqLate /\ (uif' => cnt' = lag' /\ ~udis')
    <3>1. udis' = udis /\ (uif' <=> uif \/ (cnt' = 0 /\ ~udis)) /\ lag' = IF uif THEN lag + 1 ELSE 0
      BY <1>7, Zenon DEF Uart!Pass
    <3>2. CASE uif
      <4>1. lag < IrqLate /\ cnt = lag /\ ~udis /\ lag' = lag + 1 /\ udis' = udis
        BY <1>7, <3>1, <3>2 DEF Uart!Pass
      <4> QED BY <2>1, <4>1
    <3>3. CASE ~uif
      BY <3>1, <3>3
    <3> QED BY <3>2, <3>3
  <2>4. mode' = mode /\ out' = out /\ uartAt' = uartAt /\ answer' = answer
    BY <1>7 DEF Uart!Pass, Uart!pin
  <2> QED BY <2>1, <2>2, <2>3, <2>4
<1>8. ASSUME NEW d, Uart!Replies(d) PROVE TimerTypes'
  BY <1>8 DEF Uart!Replies, Uart!timer, Uart!pin
<1> QED BY <1>1, <1>2, <1>3, <1>4, <1>5, <1>6, <1>7, <1>8 DEF Uart!Next

\* What the handler does with the line, for each bit it is at.
LEMMA RcvIs ==
    ASSUME UartTypes, Uart!Rcv
    PROVE  /\ bitCount = -1 =>
                /\ bitCount' = IF Uart!Line = 0 THEN 0 ELSE -1
                /\ rxByte' = IF Uart!Line = 0 THEN <<>> ELSE rxByte
                /\ rxData' = rxData
           /\ bitCount \in 0..Bits - 1 =>
                /\ bitCount' = bitCount + 1 /\ rxData' = rxData
                /\ rxByte' \in Seq(Bit) /\ Len(rxByte') = bitCount + 1
                /\ \A i \in 1..bitCount : rxByte'[i] = rxByte[i]
                /\ rxByte'[bitCount + 1] = Uart!Line
           /\ bitCount = Bits =>
                /\ bitCount' = -1 /\ rxByte' = <<>>
                /\ rxByte \in Uart!Bytes
                /\ rxData' = IF Uart!Line = 1 THEN Append(rxData, rxByte) ELSE rxData
           /\ irqCount' \in Nat /\ irqCount' > 0
           /\ rxBusy' = rxBusy /\ out' = out /\ txBusy' = txBusy /\ txData' = txData
<1>1. /\ Bits \in Nat /\ Bits > 0 /\ bitCount \in -1..Bits /\ rxByte \in Seq(Bit) /\ irqCount \in Nat
      /\ bitCount >= 0 => Len(rxByte) = bitCount
      /\ SwitchDelay \in Nat /\ SwitchDelay > 0
  BY UartTimes DEF UartTypes, BufferTypes
<1>2. irqCount' \in Nat /\ irqCount' > 0
  BY <1>1 DEF Uart!Rcv
<1>3. ASSUME bitCount \in 0..Bits - 1
      PROVE  /\ bitCount' = bitCount + 1 /\ rxData' = rxData
             /\ rxByte' \in Seq(Bit) /\ Len(rxByte') = bitCount + 1
             /\ \A i \in 1..bitCount : rxByte'[i] = rxByte[i]
             /\ rxByte'[bitCount + 1] = Uart!Line
  <2>1. bitCount' = bitCount + 1 /\ rxData' = rxData /\ rxByte' = Append(rxByte, Uart!Line)
    BY <1>1, <1>3 DEF Uart!Rcv
  <2>2. Uart!Line \in Bit
    BY LineIsBit
  <2>3. Len(rxByte) = bitCount
    BY <1>1, <1>3
  <2> QED BY <1>1, <2>1, <2>2, <2>3, AppendProperties
<1>4. ASSUME bitCount = Bits
      PROVE  /\ bitCount' = -1 /\ rxByte' = <<>>
             /\ rxByte \in Uart!Bytes
             /\ rxData' = IF Uart!Line = 1 THEN Append(rxData, rxByte) ELSE rxData
  <2>1. rxByte \in Uart!Bytes
    BY <1>1, <1>4, ByteIsSeq
  <2> QED BY <1>1, <1>4, <2>1 DEF Uart!Rcv
<1>5. bitCount = -1 =>
                /\ bitCount' = IF Uart!Line = 0 THEN 0 ELSE -1
                /\ rxByte' = IF Uart!Line = 0 THEN <<>> ELSE rxByte
                /\ rxData' = rxData
  BY <1>1 DEF Uart!Rcv
<1>6. rxBusy' = rxBusy /\ out' = out /\ txBusy' = txBusy /\ txData' = txData
  BY DEF Uart!Rcv, Uart!tx
<1> QED BY <1>2, <1>3, <1>4, <1>5, <1>6

\* What the driver does with the line between samples, at one, and at the last.
LEMMA ReceiveIs ==
    ASSUME UartTypes, Uart!Receive
    PROVE  /\ Uart!Drives \/ ~Uart!Listens => tmcIn' = tmcIn /\ tmcBits' = tmcBits /\ tmcGot' = tmcGot
           /\ ~Uart!Drives /\ Uart!Listens /\ tmcIn # Half =>
                /\ tmcIn' = IF tmcIn + 1 = Period THEN 0 ELSE tmcIn + 1
                /\ tmcBits' = tmcBits /\ tmcGot' = tmcGot
           /\ ~Uart!Drives /\ Uart!Listens /\ tmcIn = Half /\ Len(tmcBits) < Bits + 1 =>
                /\ tmcIn' = IF Half + 1 = Period THEN 0 ELSE Half + 1
                /\ tmcGot' = tmcGot
                /\ tmcBits' \in Seq(Bit) /\ Len(tmcBits') = Len(tmcBits) + 1
                /\ \A i \in 1..Len(tmcBits) : tmcBits'[i] = tmcBits[i]
                /\ tmcBits'[Len(tmcBits) + 1] = Uart!Line
           /\ ~Uart!Drives /\ Uart!Listens /\ tmcIn = Half /\ Len(tmcBits) = Bits + 1 =>
                /\ tmcIn' = 0 /\ tmcBits' = <<>>
                /\ \E b \in Uart!Bytes :
                     /\ \A i \in 1..Bits : b[i] = tmcBits[i + 1]
                     /\ tmcGot' = IF Uart!Line = 1 THEN Append(tmcGot, b) ELSE tmcGot
<1> USE UartTimes
<1>1. tmcBits \in Seq(Bit) /\ Len(tmcBits) <= Bits + 1 /\ Len(tmcBits) \in Nat /\ tmcIn \in 0..Period - 1
  BY DEF UartTypes, DriverTypes
<1>2. Uart!Line \in Bit
  BY LineIsBit
<1> DEFINE all == Append(tmcBits, Uart!Line)
<1>3. /\ all \in Seq(Bit) /\ Len(all) = Len(tmcBits) + 1
      /\ \A i \in 1..Len(tmcBits) : all[i] = tmcBits[i]
      /\ all[Len(tmcBits) + 1] = Uart!Line
  BY <1>1, <1>2, AppendProperties
<1>4. (tmcIn + 1) % Period = IF tmcIn + 1 = Period THEN 0 ELSE tmcIn + 1
  BY <1>1, NextPhase
<1>5. Uart!Samples <=> tmcIn = Half
  BY DEF Uart!Samples, Half
<1>6. CASE Uart!Drives \/ ~Uart!Listens
  BY <1>6 DEF Uart!Receive
<1>7. CASE ~Uart!Drives /\ Uart!Listens /\ tmcIn # Half
  <2>1. tmcIn' = (tmcIn + 1) % Period /\ tmcBits' = tmcBits /\ tmcGot' = tmcGot
    BY <1>1, <1>5, <1>7 DEF Uart!Receive
  <2> QED BY <1>4, <1>7, <2>1
<1>8. CASE ~Uart!Drives /\ Uart!Listens /\ tmcIn = Half /\ Len(tmcBits) < Bits + 1
  <2>1. Len(all) < Bits + 2
    BY <1>1, <1>3, <1>8
  <2>2. tmcIn' = (tmcIn + 1) % Period /\ tmcBits' = all /\ tmcGot' = tmcGot
    BY <1>5, <1>8, <2>1 DEF Uart!Receive
  <2> HIDE DEF all
  <2> QED BY <1>3, <1>4, <1>8, <2>2
<1>9. CASE ~Uart!Drives /\ Uart!Listens /\ tmcIn = Half /\ Len(tmcBits) = Bits + 1
  <2> DEFINE b == SubSeq(all, 2, Bits + 1)
  <2>1. ~(Len(all) < Bits + 2) /\ Len(all) = Bits + 2
    BY <1>1, <1>3, <1>9
  <2>2. /\ tmcIn' = 0 /\ tmcBits' = <<>>
        /\ tmcGot' = IF Uart!Last(all) = 1 THEN Append(tmcGot, b) ELSE tmcGot
    BY <1>5, <1>9, <2>1 DEF Uart!Receive
  <2>3. Uart!Last(all) = Uart!Line
    BY <1>3, <1>9, <2>1 DEF Uart!Last
  <2> HIDE DEF all
  <2>4. \A i \in 2..Bits + 1 : all[i] \in Bit
    BY <1>3, <2>1, ElementOfSeq
  <2>5. /\ b \in Seq(Bit)
        /\ Len(b) = (IF 2 <= Bits + 1 THEN (Bits + 1) - 2 + 1 ELSE 0)
        /\ \A i \in 1..(Bits + 1) - 2 + 1 : b[i] = all[2 + i - 1]
    BY <2>4, SubSeqProperties
  <2>6. Len(b) = Bits /\ \A i \in 1..Bits : b[i] = all[i + 1]
    <3>1. (Bits + 1) - 2 + 1 = Bits /\ \A i \in 1..Bits : 2 + i - 1 = i + 1
      OBVIOUS
    <3> QED BY <2>5, <3>1
  <2>7. \A i \in 1..Bits : b[i] = tmcBits[i + 1]
    <3>1. \A i \in 1..Bits : i + 1 \in 1..Len(tmcBits)
      BY <1>9
    <3> QED BY <1>3, <2>6, <3>1
  <2>8. b \in Uart!Bytes
    BY <2>5, <2>6, ByteIsSeq
  <2> HIDE DEF b
  <2>9. \E c \in Uart!Bytes :
          /\ \A i \in 1..Bits : c[i] = tmcBits[i + 1]
          /\ tmcGot' = IF Uart!Line = 1 THEN Append(tmcGot, c) ELSE tmcGot
    BY <2>2, <2>3, <2>7, <2>8
  <2> QED BY <1>9, <2>2, <2>9
<1> QED BY <1>1, <1>6, <1>7, <1>8, <1>9

\* What the driver does with its reply in a unit of time.
LEMMA DriveIs ==
    ASSUME UartTypes, Uart!Drive
    PROVE  /\ ~Uart!Drives => tmcByte' = tmcByte /\ tmcBit' = tmcBit /\ tmcPhase' = tmcPhase
           /\ Uart!Drives /\ tmcPhase + 1 < Period =>
                tmcByte' = tmcByte /\ tmcBit' = tmcBit /\ tmcPhase' = tmcPhase + 1
           /\ Uart!Drives /\ tmcPhase + 1 = Period =>
                /\ tmcPhase' = 0
                /\ tmcBit' = IF tmcBit = Bits + 1 THEN 0 ELSE tmcBit + 1
                /\ tmcByte' = IF tmcBit < Bits + 1 THEN tmcByte
                              ELSE IF tmcByte = Len(reply) THEN 0 ELSE tmcByte + 1
<1>1. tmcPhase \in 0..Period - 1 /\ tmcBit \in 0..Bits + 1 /\ Period \in Nat /\ Period > 0 /\ Bits \in Nat
  BY UartTimes DEF UartTypes, DriverTypes
<1>2. (tmcPhase + 1) % Period = IF tmcPhase + 1 = Period THEN 0 ELSE tmcPhase + 1
  BY <1>1, NextPhase
<1>3. CASE ~Uart!Drives
  BY <1>3 DEF Uart!Drive
<1>4. CASE Uart!Drives
  <2>1. /\ tmcPhase' = IF tmcPhase + 1 = Period THEN 0 ELSE tmcPhase + 1
        /\ tmcBit' = IF tmcPhase' > 0 THEN tmcBit ELSE IF tmcBit = Bits + 1 THEN 0 ELSE tmcBit + 1
        /\ tmcByte' = IF tmcPhase' > 0 \/ tmcBit' > 0 THEN tmcByte
                      ELSE IF tmcByte = Len(reply) THEN 0 ELSE tmcByte + 1
    BY <1>2, <1>4 DEF Uart!Drive
  <2> QED BY <1>1, <1>4, <2>1
<1> QED BY <1>3, <1>4

\* The driver's place in its answer stays in range.
LEMMA DriveTypes ==
    ASSUME UartTypes, Uart!Drive
    PROVE  tmcByte' \in 0..Len(reply) /\ tmcBit' \in 0..Bits + 1 /\ tmcPhase' \in 0..Period - 1
<1>1. tmcByte \in 0..Len(reply) /\ tmcBit \in 0..Bits + 1 /\ tmcPhase \in 0..Period - 1
  BY DEF UartTypes, DriverTypes
<1>2. Len(reply) \in Nat /\ Bits \in Nat /\ Period \in Nat /\ Period > 0
  BY UartTimes DEF UartTypes, DriverTypes
<1>3. CASE ~Uart!Drives
  BY <1>1, <1>3, DriveIs
<1>4. CASE Uart!Drives /\ tmcPhase + 1 < Period
  <2>1. tmcByte' = tmcByte /\ tmcBit' = tmcBit /\ tmcPhase' = tmcPhase + 1
    BY <1>4, DriveIs
  <2> QED BY <1>1, <1>2, <1>4, <2>1
<1>5. CASE Uart!Drives /\ tmcPhase + 1 = Period
  <2>1. /\ tmcPhase' = 0
        /\ tmcBit' = IF tmcBit = Bits + 1 THEN 0 ELSE tmcBit + 1
        /\ tmcByte' = IF tmcBit < Bits + 1 THEN tmcByte
                      ELSE IF tmcByte = Len(reply) THEN 0 ELSE tmcByte + 1
    BY <1>5, DriveIs
  <2> QED BY <1>1, <1>2, <2>1
<1>6. tmcPhase + 1 < Period \/ tmcPhase + 1 = Period
  BY <1>1, <1>2
<1> QED BY <1>3, <1>4, <1>5, <1>6

\* Every action keeps the types of the buffers.
LEMMA BufferSteps ==
    ASSUME UartTypes, Uart!Next
    PROVE  BufferTypes'
<1> USE UartTimes DEF UartTypes, BufferTypes
<1>1. ASSUME NEW read \in BOOLEAN, NEW d \in Uart!Datagrams(RequestLength), Uart!Call(read, d) PROVE BufferTypes'
  <2>1. txData' \in Seq(Bit) /\ todo' \in Seq(Uart!Bytes)
    BY <1>1, DatagramIs, FrameIs DEF Uart!Call
  <2>2. rxData' \in Seq(Uart!Bytes) /\ got' \in Seq(Uart!Bytes)
    BY <1>1 DEF Uart!Call
  <2> QED BY <1>1, <2>1, <2>2 DEF Uart!Call
<1>2. ASSUME Uart!NextByte PROVE BufferTypes'
  <2>1. txData' \in Seq(Bit) /\ todo' \in Seq(Uart!Bytes)
    BY <1>2, HeadTailProperties, FrameIs DEF Uart!NextByte
  <2> QED BY <1>2, <2>1 DEF Uart!NextByte, Uart!rx
<1>3. ASSUME Uart!Sent \/ Uart!Start \/ Uart!Abort \/ Uart!Aborted PROVE BufferTypes'
  BY <1>3 DEF Uart!Sent, Uart!Start, Uart!Abort, Uart!Aborted, Uart!tx, Uart!rx
<1>4. ASSUME Uart!DriveAgain \/ Uart!Finish PROVE BufferTypes'
  BY <1>4 DEF Uart!DriveAgain, Uart!Finish, Uart!tx, Uart!rx
<1>5. ASSUME Uart!ReadByte PROVE BufferTypes'
  <2>1. Head(rxData) \in Uart!Bytes /\ Tail(rxData) \in Seq(Uart!Bytes)
    BY <1>5, HeadTailProperties DEF Uart!ReadByte
  <2>2. got' \in Seq(Uart!Bytes) /\ rxData' \in Seq(Uart!Bytes)
    BY <1>5, <2>1, AppendProperties DEF Uart!ReadByte
  <2> QED BY <1>5, <2>2 DEF Uart!ReadByte, Uart!tx
<1>6. ASSUME Uart!Irq PROVE BufferTypes'
  <2>1. todo' = todo /\ got' = got
    BY <1>6 DEF Uart!Irq, Uart!call
  <2>2. CASE Uart!Send
    <3>1. txData' \in Seq(Bit)
      BY <2>2, HeadTailProperties DEF Uart!Send
    <3> QED BY <2>1, <2>2, <3>1 DEF Uart!Send, Uart!rx
  <2>3. CASE Uart!Rcv
    <3>0. bitCount = -1 \/ bitCount \in 0..Bits - 1 \/ bitCount = Bits
      OBVIOUS
    <3>1. rxData' \in Seq(Uart!Bytes)
      <4>1. rxData' = rxData \/ (rxByte \in Uart!Bytes /\ rxData' = Append(rxData, rxByte))
        BY <2>3, <3>0, RcvIs
      <4>2. rxData \in Seq(Uart!Bytes)
        OBVIOUS
      <4>3. CASE rxData' = rxData
        BY <4>2, <4>3
      <4>4. CASE rxByte \in Uart!Bytes /\ rxData' = Append(rxData, rxByte)
        BY <4>2, <4>4, AppendProperties
      <4> QED BY <4>1, <4>3, <4>4
    <3>2. rxByte' \in Seq(Bit) /\ bitCount' \in -1..Bits /\ (bitCount' >= 0 => Len(rxByte') = bitCount')
      <4>1. CASE bitCount = -1
        <5>1. (bitCount' = 0 /\ rxByte' = <<>>) \/ (bitCount' = -1 /\ rxByte' = rxByte)
          BY <2>3, <4>1, RcvIs
        <5>2. <<>> \in Seq(Bit) /\ Len(<<>>) = 0 /\ rxByte \in Seq(Bit)
          OBVIOUS
        <5>3. CASE bitCount' = 0 /\ rxByte' = <<>>
          BY <5>2, <5>3
        <5>4. CASE bitCount' = -1 /\ rxByte' = rxByte
          BY <5>2, <5>4
        <5> QED BY <5>1, <5>3, <5>4
      <4>2. CASE bitCount \in 0..Bits - 1
        <5>1. bitCount' = bitCount + 1 /\ rxByte' \in Seq(Bit) /\ Len(rxByte') = bitCount + 1
          BY <2>3, <4>2, RcvIs
        <5> QED BY <4>2, <5>1
      <4>3. CASE bitCount = Bits
        <5>1. bitCount' = -1 /\ rxByte' = <<>>
          BY <2>3, <4>3, RcvIs
        <5> QED BY <5>1
      <4> QED BY <3>0, <4>1, <4>2, <4>3
    <3>3. irqCount' \in Nat /\ txData' = txData
      BY <2>3, RcvIs
    <3> QED BY <2>1, <3>1, <3>2, <3>3
  <2>4. CASE UNCHANGED <<out, Uart!tx, Uart!rx>>
    BY <2>1, <2>4 DEF Uart!tx, Uart!rx
  <2> QED BY <1>6, <2>2, <2>3, <2>4 DEF Uart!Irq
<1>7. ASSUME Uart!Pass PROVE BufferTypes'
  BY <1>7 DEF Uart!Pass, Uart!tx, Uart!rx
<1>8. ASSUME NEW d, Uart!Replies(d) PROVE BufferTypes'
  BY <1>8 DEF Uart!Replies, Uart!tx, Uart!rx
<1> QED BY <1>1, <1>2, <1>3, <1>4, <1>5, <1>6, <1>7, <1>8 DEF Uart!Next

\* Every action keeps the types of the driver.
LEMMA DriverSteps ==
    ASSUME UartTypes, Uart!Next
    PROVE  DriverTypes'
<1> USE UartTimes DEF UartTypes, DriverTypes
<1>1. ASSUME NEW read \in BOOLEAN, NEW d \in Uart!Datagrams(RequestLength), Uart!Call(read, d) PROVE DriverTypes'
  <2>1. request' \in Seq(Uart!Bytes)
    BY <1>1, DatagramIs DEF Uart!Call
  <2>2. reply' \in Seq(Uart!Bytes) /\ Len(reply') <= ReplyLength /\ tmcByte' \in 0..Len(reply')
    BY <1>1 DEF Uart!Call, Uart!Drives
  <2> QED BY <1>1, <2>1, <2>2 DEF Uart!Call
<1>2. ASSUME Uart!NextByte \/ Uart!Sent \/ Uart!Start \/ Uart!Abort PROVE DriverTypes'
  BY <1>2 DEF Uart!NextByte, Uart!Sent, Uart!Start, Uart!Abort, Uart!driver
<1>3. ASSUME Uart!Aborted \/ Uart!ReadByte \/ Uart!DriveAgain \/ Uart!Finish \/ Uart!Irq PROVE DriverTypes'
  BY <1>3 DEF Uart!Aborted, Uart!ReadByte, Uart!DriveAgain, Uart!Finish, Uart!Irq, Uart!driver, Uart!call
<1>4. ASSUME Uart!Pass PROVE DriverTypes'
  <2>1. Uart!Receive /\ Uart!Drive /\ reply' = reply /\ request' = request
    BY <1>4 DEF Uart!Pass
  <2>2. tmcGot' \in Seq(Uart!Bytes) /\ tmcBits' \in Seq(Bit) /\ Len(tmcBits') <= Bits + 1 /\ tmcIn' \in 0..Period - 1
    <3>1. CASE ~Uart!Drives /\ Uart!Listens /\ tmcIn = Half
      <4>1. CASE Len(tmcBits) = Bits + 1
        <5>1. tmcIn' = 0 /\ tmcBits' = <<>>
          BY <2>1, <3>1, <4>1, ReceiveIs
        <5>2. PICK b \in Uart!Bytes : tmcGot' = IF Uart!Line = 1 THEN Append(tmcGot, b) ELSE tmcGot
          BY <2>1, <3>1, <4>1, ReceiveIs
        <5>3. tmcGot' \in Seq(Uart!Bytes)
          BY <5>2, AppendProperties
        <5>4. <<>> \in Seq(Bit) /\ Len(<<>>) = 0
          OBVIOUS
        <5> QED BY <5>1, <5>3, <5>4
      <4>2. CASE Len(tmcBits) < Bits + 1
        <5>1. /\ tmcIn' = IF Half + 1 = Period THEN 0 ELSE Half + 1
              /\ tmcGot' = tmcGot
              /\ tmcBits' \in Seq(Bit) /\ Len(tmcBits') = Len(tmcBits) + 1
          BY <2>1, <3>1, <4>2, ReceiveIs
        <5>2. Len(tmcBits) \in Nat
          OBVIOUS
        <5> QED BY <4>2, <5>1, <5>2
      <4> QED BY <4>1, <4>2
    <3>2. CASE ~(~Uart!Drives /\ Uart!Listens /\ tmcIn = Half)
      BY <2>1, <3>2, ReceiveIs
    <3> QED BY <3>1, <3>2
  <2>3. tmcByte' \in 0..Len(reply) /\ tmcBit' \in 0..Bits + 1 /\ tmcPhase' \in 0..Period - 1
    BY <2>1, DriveTypes
  <2> QED BY <2>1, <2>2, <2>3
<1>5. ASSUME NEW n \in 1..ReplyLength, NEW d \in Uart!Datagrams(n), Uart!Replies(d) PROVE DriverTypes'
  <2>1. d \in Seq(Uart!Bytes) /\ Len(d) = n
    BY DatagramIs
  <2>2. reply' = d /\ tmcByte' = 1 /\ tmcBit' = 0 /\ tmcPhase' = 0 /\ tmcGot' = <<>> /\ request' = <<>>
        /\ tmcIn' = tmcIn /\ tmcBits' = tmcBits
    BY <1>5 DEF Uart!Replies
  <2>3. 0 \in 0..Period - 1 /\ 0 \in 0..Bits + 1 /\ 1 \in 0..n /\ n <= ReplyLength
    OBVIOUS
  <2> QED BY <2>1, <2>2, <2>3
<1> QED BY <1>1, <1>2, <1>3, <1>4, <1>5 DEF Uart!Next

\* The types are kept, whatever races happen.
LEMMA UartTypesStep ==
    ASSUME UartTypes, [Uart!Next]_Uart!vars
    PROVE  UartTypes'
<1>1. CASE Uart!Next
  BY <1>1, BooleanSteps, TimerSteps, BufferSteps, DriverSteps DEF UartTypes
<1>2. CASE UNCHANGED Uart!vars
  BY <1>2 DEF Uart!vars, Uart!timer, Uart!pin, Uart!tx, Uart!rx, Uart!call, Uart!driver,
              UartTypes, UartBooleans, TimerTypes, BufferTypes, DriverTypes
<1> QED BY <1>1, <1>2

\* The driver has no START bit.
Silent == tmcIn = 0 /\ tmcBits = <<>>

\* What each place of the call says of pin, timer, buffers and driver: the driver
\* drives only after the line was turned round and before it is turned back.
PlaceOK ==
    /\ mode = IF uartAt \in {"idle", "send", "driven"} THEN "tx" ELSE "rx"
    /\ uartAt # "send" => out = 1 /\ ~txBusy /\ txData = <<>> /\ Silent
    /\ rxBusy <=> uartAt \in {"read", "stop", "driven"}
    /\ udis <=> uartAt \in {"idle", "listen", "abort"}
    /\ Uart!Drives => uartAt \in {"listen", "read", "abort", "stop"} /\ request = <<>>
    /\ uartAt \in {"listen", "read", "stop", "driven"} => reads
    /\ uartAt \in {"read", "stop", "driven"} => request = <<>>
    /\ answer = "ok" => uartAt = "idle" /\ got = reply
    /\ uartAt \in {"send", "listen"} /\ reads => got = <<>> /\ rxData = <<>>
    /\ uartAt = "listen" => tmcGot = request
    /\ Len(tmcGot) <= Len(request)
    /\ \A i \in 1..Len(tmcGot) : tmcGot[i] = request[i]

\* The byte being sent, the bits of it on the line or gone by, and whether the
\* driver has sampled the last of these when it is j behind the handler.
Nth        == Len(request) - Len(todo)
Shifted    == Bits + 2 - Len(txData)
Sampled(j) == uif \/ cnt > Half + j

\* The driver has what has gone by of the frame, and is as far behind the handler
\* in every bit as it was at START.
SendOK ==
    uartAt = "send" =>
        /\ Nth \in 1..Len(request) /\ Shifted >= 0
        /\ \A i \in 1..Len(todo) : todo[i] = request[Nth + i]
        /\ \A i \in 1..Len(txData) : txData[i] = Uart!Frame(request[Nth])[Shifted + i]
        /\ out = IF Shifted = 0 THEN 1 ELSE Uart!Frame(request[Nth])[Shifted]
        /\ ~txBusy => txData = <<>>
        /\ \/ Silent /\ Shifted = 0 /\ Len(tmcGot) = Nth - 1
           \/ Silent /\ Shifted = Bits + 2 /\ Len(tmcGot) = Nth
           \/ /\ Shifted >= 1 /\ txBusy /\ Len(tmcGot) = Nth - 1
              /\ \A i \in 1..Len(tmcBits) : tmcBits[i] = Uart!Frame(request[Nth])[i]
              /\ \E j \in 0..IrqLate :
                   /\ cnt = tmcIn + j \/ cnt = tmcIn + j - Period
                   /\ Len(tmcBits) = IF Sampled(j) THEN Shifted ELSE Shifted - 1

\* A reply is noticed in its START bit.
ListenOK == uartAt = "listen" /\ Uart!Drives => tmcByte = 1 /\ tmcBit = 0 /\ tmcPhase <= PollLate

\* The driver is h before the timer, and has had so many bits sampled.
Aligned(h) == tmcPhase = cnt - h \/ tmcPhase = cnt - h + Period
Taken(h)   == IF ~uif /\ cnt < h THEN tmcBit + 1 ELSE tmcBit

\* The bytes taken and those to be taken are the first of the reply, up to the one
\* that comes; the bits of that one are those sampled.
ReadOK ==
    uartAt = "read" =>
        /\ Len(reply) > 0 /\ Len(got) < ReplyLength
        /\ \A i \in 1..Len(got) : got[i] = reply[i]
        /\ \A i \in 1..Len(rxData) : rxData[i] = reply[Len(got) + i]
        /\ IF Uart!Drives
           THEN \E h \in Half - PollLate..Half :
                  /\ Aligned(h)
                  /\ bitCount = IF Taken(h) = Bits + 2 THEN -1 ELSE Taken(h) - 1
                  /\ Len(got) + Len(rxData) = IF Taken(h) = Bits + 2 THEN tmcByte ELSE tmcByte - 1
                  /\ \A i \in 1..bitCount : rxByte[i] = reply[tmcByte][i]
           ELSE bitCount = -1 /\ Len(got) + Len(rxData) = Len(reply)

\* After the last byte the driver has less than a bit to go, and lets the line go
\* before the interrupt that is waited for.
StopOK ==
    /\ uartAt \in {"stop", "driven"} =>
        /\ got = reply /\ rxData = <<>> /\ bitCount = -1
        /\ Uart!Drives =>
             /\ tmcByte = Len(reply) /\ tmcBit = Bits + 1 /\ ~uif /\ irqCount = 0
             /\ \E h \in Half - PollLate..Half : Aligned(h) /\ cnt < h
    /\ uartAt = "driven" => irqCount > 0

\* When the read was given up the pause outlasts the reply.
TimeLeft == ((Len(reply) - tmcByte + 1) * (Bits + 2) - tmcBit) * Period - tmcPhase
AbortOK == uartAt = "abort" /\ Uart!Drives => waited + TimeLeft <= Pause

\* The inductive invariant: LineIsTrue alone does not say how the two clocks run.
UartInv == UartTypes /\ PlaceOK /\ SendOK /\ ListenOK /\ ReadOK /\ StopOK /\ AbortOK

\* The line is high when neither side sends.
LEMMA LineIsHigh ==
    ASSUME UartTypes, PlaceOK, uartAt # "send", ~Uart!Drives
    PROVE  Uart!Line = 1 /\ ~Uart!Listens
<1>1. Uart!Line = 1
  BY DEF PlaceOK, Uart!Line
<1>2. tmcIn = 0 /\ tmcBits = <<>>
  BY DEF PlaceOK, Silent
<1> QED BY <1>1, <1>2 DEF Uart!Listens

\* When the buffer is empty the driver has the byte, and the line is high.
LEMMA SentAll ==
    ASSUME UartTypes, SendOK, uartAt = "send", ~txBusy
    PROVE  /\ Silent /\ Shifted = Bits + 2 /\ Len(tmcGot) = Nth /\ out = 1
           /\ Nth \in 1..Len(request) /\ txData = <<>>
<1>1. Shifted = Bits + 2 /\ txData = <<>>
  BY UartTimes DEF SendOK, Shifted
<1>2. Silent /\ Len(tmcGot) = Nth /\ Nth \in 1..Len(request)
  BY <1>1, UartTimes DEF SendOK
<1>3. request[Nth] \in Uart!Bytes
  BY <1>2, ElementOfSeq DEF UartTypes, DriverTypes
<1>4. Uart!Frame(request[Nth])[Bits + 2] = 1
  BY <1>3, FrameIs
<1>5. out = 1
  BY <1>1, <1>4, UartTimes DEF SendOK
<1> QED BY <1>1, <1>2, <1>5


\* The driver samples as far behind the handler as the handler was late when it
\* output the START bit: in each bit after the handler has output it, and before
\* the next is due.
LEMMA SamplesKeepUp ==
    ASSUME NEW c \in 0..Period - 1, NEW t \in 0..Period - 1, NEW j \in 0..IrqLate,
           NEW u \in BOOLEAN, u => c < IrqLate,
           c = t + j \/ c = t + j - Period,
           NEW c2 \in Nat, c2 = IF c + 1 = Period THEN 0 ELSE c + 1,
           NEW t2 \in Nat, t2 = IF t + 1 = Period THEN 0 ELSE t + 1
    PROVE  /\ c2 = t2 + j \/ c2 = t2 + j - Period
           /\ t # Half => (u \/ c2 = 0 \/ c2 > Half + j <=> u \/ c > Half + j)
           /\ t = Half => ~(u \/ c > Half + j) /\ (c2 = 0 \/ c2 > Half + j)
<1> USE UartTimes
<1>1. c2 = t2 + j \/ c2 = t2 + j - Period
  OBVIOUS
<1>2. ASSUME t # Half PROVE u \/ c2 = 0 \/ c2 > Half + j <=> u \/ c > Half + j
  <2>1. CASE u
    BY <2>1
  <2>2. CASE ~u
    BY <1>2, <2>2
  <2> QED BY <2>1, <2>2
<1>3. ASSUME t = Half PROVE ~(u \/ c > Half + j) /\ (c2 = 0 \/ c2 > Half + j)
  <2>1. c = Half + j
    BY <1>3
  <2>2. ~u
    BY <2>1
  <2> QED BY <2>1, <2>2
<1> QED BY <1>1, <1>2, <1>3

\* What the timer does in a unit of time.
LEMMA PassIs ==
    ASSUME UartTypes, Uart!Pass
    PROVE  /\ cnt' = IF cnt + 1 = Period THEN 0 ELSE cnt + 1
           /\ cnt' \in 0..Period - 1
           /\ uif' <=> uif \/ (cnt' = 0 /\ ~udis)
           /\ uif => cnt < IrqLate
           /\ uif \in BOOLEAN /\ cnt \in 0..Period - 1
<1>1. cnt \in 0..Period - 1 /\ uif \in BOOLEAN /\ (uif => cnt = lag)
  BY DEF UartTypes, TimerTypes, UartBooleans
<1>2. cnt' = (cnt + 1) % Period /\ (uif => lag < IrqLate)
  BY DEF Uart!Pass
<1>3. uif' <=> uif \/ (cnt' = 0 /\ ~udis)
  BY Zenon DEF Uart!Pass
<1> QED BY <1>1, <1>2, <1>3, NextPhase

\* The driver takes what is on the line as the bit that was meant, and the byte at
\* the last of them.
LEMMA SendPass ==
    ASSUME UartTypes, PlaceOK, SendOK, Uart!Pass, uartAt = "send"
    PROVE  /\ SendOK'
           /\ Len(tmcGot') <= Len(request) /\ \A i \in 1..Len(tmcGot') : tmcGot'[i] = request[i]
<1> USE UartTimes
<1>1. /\ uartAt' = uartAt /\ request' = request /\ todo' = todo /\ txData' = txData /\ out' = out
      /\ txBusy' = txBusy /\ Uart!Receive
  BY DEF Uart!Pass, Uart!pin, Uart!tx
<1>2. Nth' = Nth /\ Shifted' = Shifted
  BY <1>1 DEF Nth, Shifted
<1>3. /\ Nth \in 1..Len(request) /\ Shifted >= 0 /\ Shifted \in Nat /\ Len(request) \in Nat
      /\ \A i \in 1..Len(todo) : todo[i] = request[Nth + i]
      /\ \A i \in 1..Len(txData) : txData[i] = Uart!Frame(request[Nth])[Shifted + i]
      /\ out = IF Shifted = 0 THEN 1 ELSE Uart!Frame(request[Nth])[Shifted]
      /\ ~txBusy => txData = <<>>
      /\ Shifted <= Bits + 2 /\ Nth \in Nat /\ Nth > 0
  <2>1. txData \in Seq(Bit) /\ request \in Seq(Uart!Bytes) /\ Len(txData) \in Nat /\ Len(request) \in Nat
    BY DEF UartTypes, BufferTypes, DriverTypes
  <2>2. Shifted \in Int /\ Shifted <= Bits + 2
    BY <2>1 DEF Shifted
  <2> HIDE DEF Shifted
  <2>3. /\ Nth \in 1..Len(request) /\ Shifted >= 0
        /\ \A i \in 1..Len(todo) : todo[i] = request[Nth + i]
        /\ \A i \in 1..Len(txData) : txData[i] = Uart!Frame(request[Nth])[Shifted + i]
        /\ out = IF Shifted = 0 THEN 1 ELSE Uart!Frame(request[Nth])[Shifted]
        /\ ~txBusy => txData = <<>>
    BY DEF SendOK
  <2>4. Shifted \in Nat /\ Nth \in Nat /\ Nth > 0
    BY <2>1, <2>2, <2>3
  <2> HIDE DEF Nth
  <2> QED BY <2>1, <2>2, <2>3, <2>4, Zenon
<1> DEFINE f == Uart!Frame(request[Nth])
<1>4. request[Nth] \in Uart!Bytes
  BY <1>3, ElementOfSeq DEF UartTypes, DriverTypes
<1>5. f \in Seq(Bit) /\ f[1] = 0 /\ f[Bits + 2] = 1 /\ \A i \in 1..Bits : f[i + 1] = request[Nth][i]
  BY <1>4, FrameIs
<1>6. ~Uart!Drives /\ Uart!Line = out /\ udis = FALSE
  BY DEF PlaceOK, Uart!Line, UartTypes, UartBooleans
<1>7. /\ Len(tmcGot) <= Len(request) /\ \A i \in 1..Len(tmcGot) : tmcGot[i] = request[i]
      /\ Len(tmcGot) \in Nat /\ tmcGot \in Seq(Uart!Bytes)
  BY DEF PlaceOK, UartTypes, DriverTypes
<1> HIDE DEF f
<1>8. CASE Silent /\ Shifted \in {0, Bits + 2}
  <2>1. out = 1
    BY <1>3, <1>5, <1>8 DEF f
  <2>2. ~Uart!Listens
    BY <1>6, <1>8, <2>1 DEF Uart!Listens, Silent
  <2>3. tmcIn' = tmcIn /\ tmcBits' = tmcBits /\ tmcGot' = tmcGot
    BY <1>1, <2>2, ReceiveIs
  <2>4. /\ Silent'
        /\ \/ Shifted = 0 /\ Len(tmcGot) = Nth - 1
           \/ Shifted = Bits + 2 /\ Len(tmcGot) = Nth
    <3>1. Silent'
      BY <1>8, <2>3 DEF Silent
    <3>2. Silent => tmcIn = 0 /\ Len(tmcBits) = 0
      BY DEF Silent
    <3>3. ASSUME NEW j \in 0..IrqLate, Len(tmcBits) = IF Sampled(j) THEN Shifted ELSE Shifted - 1, Shifted >= 1
          PROVE  FALSE
      BY <1>8, <3>2, <3>3
    <3>4. \/ Shifted = 0 /\ Len(tmcGot) = Nth - 1
          \/ Shifted = Bits + 2 /\ Len(tmcGot) = Nth
          \/ /\ Shifted >= 1
             /\ \E j \in 0..IrqLate : Len(tmcBits) = IF Sampled(j) THEN Shifted ELSE Shifted - 1
      BY DEF SendOK
    <3>5. ~(Shifted >= 1 /\ \E j \in 0..IrqLate : Len(tmcBits) = IF Sampled(j) THEN Shifted ELSE Shifted - 1)
      BY <3>3
    <3>6. \/ Shifted = 0 /\ Len(tmcGot) = Nth - 1
          \/ Shifted = Bits + 2 /\ Len(tmcGot) = Nth
      BY <3>4, <3>5, Zenon
    <3> QED BY <3>1, <3>6
  <2>5. SendOK'
    BY <1>1, <1>2, <1>3, <2>3, <2>4 DEF SendOK, Nth, Shifted
  <2> QED BY <1>7, <2>3, <2>5
<1>9. ASSUME Shifted >= 1, txBusy, Len(tmcGot) = Nth - 1,
             \A i \in 1..Len(tmcBits) : tmcBits[i] = f[i],
             NEW j \in 0..IrqLate, cnt = tmcIn + j \/ cnt = tmcIn + j - Period,
             Len(tmcBits) = IF Sampled(j) THEN Shifted ELSE Shifted - 1
      PROVE  /\ SendOK'
             /\ Len(tmcGot') <= Len(request) /\ \A i \in 1..Len(tmcGot') : tmcGot'[i] = request[i]
  <2>1. tmcBits \in Seq(Bit) /\ Len(tmcBits) \in Nat /\ Len(tmcBits) <= Bits + 1 /\ tmcIn \in 0..Period - 1
    BY DEF UartTypes, DriverTypes
  <2>2. Uart!Listens
    <3>1. SUFFICES ASSUME tmcIn = 0, tmcBits = <<>> PROVE out = 0
      BY <1>6, <2>1 DEF Uart!Listens
    <3>2. Len(tmcBits) = 0
      BY <3>1
    <3>3. Shifted = 1
      BY <1>3, <1>9, <3>2
    <3> QED BY <1>3, <1>5, <3>3 DEF f
  <2> DEFINE t2 == IF tmcIn + 1 = Period THEN 0 ELSE tmcIn + 1
  <2>3. t2 \in Nat /\ t2 = IF tmcIn + 1 = Period THEN 0 ELSE tmcIn + 1
    BY <2>1
  <2>4. /\ cnt' = IF cnt + 1 = Period THEN 0 ELSE cnt + 1
        /\ cnt' \in Nat /\ cnt \in 0..Period - 1 /\ uif \in BOOLEAN /\ (uif => cnt < IrqLate)
        /\ uif' <=> uif \/ cnt' = 0
    BY <1>6, PassIs
  <2> HIDE DEF t2
  <2>5. /\ cnt' = t2 + j \/ cnt' = t2 + j - Period
        /\ tmcIn # Half => (uif \/ cnt' = 0 \/ cnt' > Half + j <=> uif \/ cnt > Half + j)
        /\ tmcIn = Half => ~(uif \/ cnt > Half + j) /\ (cnt' = 0 \/ cnt' > Half + j)
    BY <1>9, <2>1, <2>3, <2>4, SamplesKeepUp
  <2>6. CASE tmcIn # Half
    <3>1. tmcIn' = t2 /\ tmcBits' = tmcBits /\ tmcGot' = tmcGot
      BY <1>1, <1>6, <2>2, <2>6, ReceiveIs DEF t2
    <3>2. uif' \/ cnt' > Half + j <=> uif \/ cnt > Half + j
      BY <2>4, <2>5, <2>6
    <3>3. Len(tmcBits') = IF uif' \/ cnt' > Half + j THEN Shifted ELSE Shifted - 1
      BY <1>9, <3>1, <3>2 DEF Sampled
    <3>4. cnt' = tmcIn' + j \/ cnt' = tmcIn' + j - Period
      BY <2>5, <3>1
    <3>5. SendOK'
      BY <1>1, <1>2, <1>3, <1>9, <3>1, <3>3, <3>4 DEF SendOK, f, Sampled, Nth, Shifted
    <3> QED BY <1>7, <3>1, <3>5
  <2>7. CASE tmcIn = Half /\ Len(tmcBits) < Bits + 1
    <3>1. /\ tmcIn' = t2 /\ tmcGot' = tmcGot
          /\ tmcBits' \in Seq(Bit) /\ Len(tmcBits') = Len(tmcBits) + 1
          /\ \A i \in 1..Len(tmcBits) : tmcBits'[i] = tmcBits[i]
          /\ tmcBits'[Len(tmcBits) + 1] = out
      BY <1>1, <1>6, <2>2, <2>7, ReceiveIs DEF t2
    <3>2. Len(tmcBits) = Shifted - 1 /\ (uif' \/ cnt' > Half + j)
      BY <1>9, <2>4, <2>5, <2>7 DEF Sampled
    <3>3. Len(tmcBits') = IF uif' \/ cnt' > Half + j THEN Shifted ELSE Shifted - 1
      BY <1>3, <2>1, <3>1, <3>2
    <3>4. cnt' = tmcIn' + j \/ cnt' = tmcIn' + j - Period
      BY <2>5, <3>1
    <3>5. tmcBits'[Shifted] = f[Shifted]
      BY <1>3, <1>9, <2>1, <3>1, <3>2 DEF f
    <3>6. \A i \in 1..Len(tmcBits') : tmcBits'[i] = f[i]
      BY <1>3, <1>9, <2>1, <3>1, <3>2, <3>5
    <3>7. SendOK'
      BY <1>1, <1>2, <1>3, <1>9, <3>1, <3>3, <3>4, <3>6 DEF SendOK, f, Sampled, Nth, Shifted
    <3> QED BY <1>7, <3>1, <3>7
  <2>8. CASE tmcIn = Half /\ Len(tmcBits) = Bits + 1
    <3>1. Len(tmcBits) = Shifted - 1
      BY <1>9, <2>5, <2>8 DEF Sampled
    <3>2. Shifted = Bits + 2
      BY <1>3, <2>8, <3>1
    <3>3. out = 1
      BY <1>3, <1>5, <3>2 DEF f
    <3>4. PICK b \in Uart!Bytes :
            /\ \A i \in 1..Bits : b[i] = tmcBits[i + 1]
            /\ tmcGot' = IF Uart!Line = 1 THEN Append(tmcGot, b) ELSE tmcGot
      BY <1>1, <1>6, <2>2, <2>8, ReceiveIs
    <3>5. tmcIn' = 0 /\ tmcBits' = <<>>
      BY <1>1, <1>6, <2>2, <2>8, ReceiveIs
    <3>6. tmcGot' = Append(tmcGot, b)
      BY <1>6, <3>3, <3>4
    <3>7. b = request[Nth]
      <4>1. \A i \in 1..Bits : i + 1 \in 1..Len(tmcBits)
        BY <2>8
      <4>2. \A i \in 1..Bits : b[i] = request[Nth][i]
        BY <1>5, <1>9, <3>4, <4>1
      <4>3. b \in [1..Bits -> {0, 1}] /\ request[Nth] \in [1..Bits -> {0, 1}]
        BY <1>4 DEF Uart!Bytes
      <4> QED BY <4>2, <4>3
    <3>8. /\ Len(tmcGot') = Len(tmcGot) + 1
          /\ \A i \in 1..Len(tmcGot) : tmcGot'[i] = tmcGot[i]
          /\ tmcGot'[Len(tmcGot) + 1] = request[Nth]
      BY <1>7, <3>6, <3>7, AppendProperties
    <3>9. Len(tmcGot') = Nth /\ \A i \in 1..Nth : tmcGot'[i] = request[i]
      BY <1>3, <1>7, <1>9, <3>8
    <3>10. SendOK'
      <4>1. Silent' /\ Shifted = Bits + 2 /\ Len(tmcGot') = Nth
        BY <3>2, <3>5, <3>9 DEF Silent
      <4> QED BY <1>1, <1>2, <1>3, <4>1 DEF SendOK, Nth, Shifted
    <3> QED BY <1>3, <3>9, <3>10
  <2> QED BY <2>1, <2>6, <2>7, <2>8
<1> QED BY <1>3, <1>8, <1>9 DEF SendOK, f

\* The handler outputs the next bit after the driver has sampled the one before.
LEMMA SendIrq ==
    ASSUME UartTypes, PlaceOK, SendOK, Uart!Irq, uartAt = "send"
    PROVE  SendOK'
<1> USE UartTimes
<1>1. /\ uartAt' = uartAt /\ request' = request /\ todo' = todo /\ cnt' = cnt
      /\ tmcIn' = tmcIn /\ tmcBits' = tmcBits /\ tmcGot' = tmcGot /\ uif /\ ~uif'
  BY DEF Uart!Irq, Uart!call, Uart!driver
<1>2. Nth' = Nth /\ Silent' = Silent
  BY <1>1 DEF Nth, Silent
<1>3. /\ Nth \in 1..Len(request) /\ Shifted \in Nat /\ Shifted <= Bits + 2
      /\ \A i \in 1..Len(todo) : todo[i] = request[Nth + i]
      /\ \A i \in 1..Len(txData) : txData[i] = Uart!Frame(request[Nth])[Shifted + i]
      /\ out = IF Shifted = 0 THEN 1 ELSE Uart!Frame(request[Nth])[Shifted]
      /\ ~txBusy => txData = <<>>
      /\ txData \in Seq(Bit) /\ Len(txData) \in Nat /\ Shifted = Bits + 2 - Len(txData)
  BY DEF SendOK, Shifted, UartTypes, BufferTypes
<1>4. cnt \in 0..IrqLate /\ cnt <= Half /\ tmcIn \in 0..Period - 1 /\ Len(tmcBits) <= Bits + 1
  BY <1>1 DEF UartTypes, TimerTypes, DriverTypes
<1>5. CASE txBusy /\ txData # <<>>
  <2>1. out' = Head(txData) /\ txData' = Tail(txData) /\ txBusy' = txBusy
    BY <1>5 DEF Uart!Irq, Uart!Send
  <2>2. Len(txData) > 0
    BY <1>3, <1>5
  <2>3. /\ out' = txData[1] /\ Len(txData') = Len(txData) - 1
        /\ \A i \in 1..Len(txData') : txData'[i] = txData[i + 1]
    BY <1>3, <1>5, <2>1, HeadTailProperties
  <2>4. Shifted' = Shifted + 1 /\ Shifted < Bits + 2
    BY <1>3, <2>2, <2>3 DEF Shifted
  <2>5. out' = Uart!Frame(request[Nth])[Shifted + 1]
    BY <1>3, <2>2, <2>3
  <2>6. \A i \in 1..Len(txData') : txData'[i] = Uart!Frame(request[Nth])[Shifted + 1 + i]
    <3>1. \A i \in 1..Len(txData') : i + 1 \in 1..Len(txData) /\ Shifted + (i + 1) = Shifted + 1 + i
      BY <1>3, <2>2, <2>3
    <3> QED BY <1>3, <2>3, <3>1
  <2>7. \/ Silent /\ Shifted = 0 /\ Len(tmcGot) = Nth - 1
        \/ /\ Shifted >= 1 /\ Len(tmcGot) = Nth - 1
           /\ \A i \in 1..Len(tmcBits) : tmcBits[i] = Uart!Frame(request[Nth])[i]
           /\ \E j \in 0..IrqLate :
                /\ cnt = tmcIn + j \/ cnt = tmcIn + j - Period
                /\ Len(tmcBits) = Shifted
    <3>1. \A j : Sampled(j)
      BY <1>1 DEF Sampled
    <3>2. \/ Silent /\ Shifted = 0 /\ Len(tmcGot) = Nth - 1
          \/ Shifted = Bits + 2
          \/ /\ Shifted >= 1 /\ Len(tmcGot) = Nth - 1
             /\ \A i \in 1..Len(tmcBits) : tmcBits[i] = Uart!Frame(request[Nth])[i]
             /\ \E j \in 0..IrqLate :
                  /\ cnt = tmcIn + j \/ cnt = tmcIn + j - Period
                  /\ Len(tmcBits) = IF Sampled(j) THEN Shifted ELSE Shifted - 1
      BY DEF SendOK
    <3>3. Shifted # Bits + 2
      BY <2>4
    <3> QED BY <3>1, <3>2, <3>3
  <2>8. /\ \A i \in 1..Len(tmcBits) : tmcBits[i] = Uart!Frame(request[Nth])[i]
        /\ \E j \in 0..IrqLate :
                /\ cnt = tmcIn + j \/ cnt = tmcIn + j - Period
                /\ Len(tmcBits) = Shifted
    <3>1. CASE Silent /\ Shifted = 0
      <4>1. tmcIn = 0 /\ Len(tmcBits) = 0
        BY <3>1 DEF Silent
      <4> QED BY <1>4, <3>1, <4>1
    <3> QED BY <2>7, <3>1
  <2>9. PICK j \in 0..IrqLate : /\ cnt = tmcIn + j \/ cnt = tmcIn + j - Period
                                /\ Len(tmcBits) = Shifted
    BY <2>8
  <2>10. ~(uif' \/ cnt' > Half + j)
    BY <1>1, <1>4
  <2>11. Len(tmcBits') = IF uif' \/ cnt' > Half + j THEN Shifted' ELSE Shifted' - 1
    BY <1>1, <1>3, <2>4, <2>9, <2>10
  <2>12. Shifted' >= 1 /\ Shifted' # 0 /\ Len(tmcGot') = Nth - 1
    BY <1>1, <1>3, <2>4, <2>7
  <2>13. txBusy'
    BY <1>5, <2>1
  <2>14. /\ Nth' \in 1..Len(request') /\ Shifted' >= 0
         /\ \A i \in 1..Len(todo') : todo'[i] = request'[Nth' + i]
    BY <1>1, <1>2, <1>3, <2>4
  <2>15. /\ \A i \in 1..Len(txData') : txData'[i] = Uart!Frame(request'[Nth'])[Shifted' + i]
         /\ out' = IF Shifted' = 0 THEN 1 ELSE Uart!Frame(request'[Nth'])[Shifted']
    BY <1>1, <1>2, <2>4, <2>5, <2>6, <2>12
  <2>16. /\ \A i \in 1..Len(tmcBits') : tmcBits'[i] = Uart!Frame(request'[Nth'])[i]
         /\ cnt' = tmcIn' + j \/ cnt' = tmcIn' + j - Period
         /\ Len(tmcGot') = Nth' - 1
    BY <1>1, <1>2, <2>8, <2>9, <2>12
  <2>17. Len(tmcBits') = IF Sampled(j)' THEN Shifted' ELSE Shifted' - 1
    BY <2>11 DEF Sampled
  <2> QED BY <2>12, <2>13, <2>14, <2>15, <2>16, <2>17 DEF SendOK
<1>6. CASE txData = <<>>
  <2>1. out' = out /\ txData' = txData
    BY <1>6 DEF Uart!Irq, Uart!Send, Uart!Rcv, Uart!tx, PlaceOK
  <2>2. Shifted' = Shifted /\ Shifted = Bits + 2
    BY <1>3, <1>6, <2>1 DEF Shifted
  <2>3. Silent /\ Len(tmcGot) = Nth
    <3>1. ASSUME NEW j \in 0..IrqLate, Len(tmcBits) = IF Sampled(j) THEN Shifted ELSE Shifted - 1
          PROVE  FALSE
      BY <1>1, <1>4, <2>2, <3>1 DEF Sampled
    <3> QED BY <2>2, <3>1 DEF SendOK
  <2>4. Silent' /\ Shifted' = Bits + 2 /\ Len(tmcGot') = Nth' /\ txData' = <<>>
    BY <1>1, <1>2, <1>6, <2>1, <2>2, <2>3
  <2> QED BY <1>1, <1>2, <1>3, <2>1, <2>2, <2>4 DEF SendOK
<1> QED BY <1>3, <1>5, <1>6

\* What is left of a reply never takes longer than the pause after a read that
\* has been given up.
LEMMA TimeLeftIs ==
    ASSUME UartTypes, Uart!Drives
    PROVE  TimeLeft \in Int /\ TimeLeft > 0 /\ TimeLeft <= Pause
<1> USE UartTimes
<1> DEFINE n == Len(reply) - tmcByte + 1
           m == n * (Bits + 2) - tmcBit
<1>1. /\ Len(reply) \in Nat /\ tmcByte \in 1..Len(reply) /\ tmcBit \in 0..Bits + 1
      /\ tmcPhase \in 0..Period - 1 /\ Len(reply) <= ReplyLength
  BY DEF UartTypes, DriverTypes, Uart!Drives
<1>2. n \in Nat /\ n >= 1 /\ n <= ReplyLength
  BY <1>1
<1> HIDE DEF n
<1>3. n * (Bits + 2) >= Bits + 2 /\ n * (Bits + 2) \in Nat /\ n * (Bits + 2) <= ReplyLength * (Bits + 2)
  BY <1>2
<1>4. m \in Nat /\ m >= 1 /\ m <= ReplyLength * (Bits + 2) /\ ReplyLength * (Bits + 2) \in Nat
  BY <1>1, <1>3
<1> HIDE DEF m
<1>5. m * Period >= Period /\ m * Period \in Nat /\ m * Period <= ReplyLength * (Bits + 2) * Period
  <2>1. \A k \in Nat : m <= k => m * Period <= k * Period
    BY <1>4
  <2> QED BY <1>4, <2>1
<1>6. Pause >= ReplyLength * (Bits + 2) * Period /\ ReplyLength * (Bits + 2) * Period \in Nat
  BY <1>4, TimesAssumption DEF TimesAssumption
<1>7. m * Period - tmcPhase > 0 /\ m * Period - tmcPhase \in Int /\ m * Period - tmcPhase <= Pause
  BY <1>1, <1>5, <1>6
<1> QED BY <1>7 DEF TimeLeft, m, n

\* Every action keeps what belongs to the place of the call.
LEMMA PlaceStep ==
    ASSUME UartInv, Uart!Next, UartRaces = {}
    PROVE  PlaceOK'
<1> USE UartTimes DEF UartInv, Uart!Foreground, Uart!Drives, Silent
<1>1. ASSUME NEW read \in BOOLEAN, NEW d \in Uart!Datagrams(RequestLength), Uart!Call(read, d) PROVE PlaceOK'
  <2>1. tmcGot' = <<>> /\ Len(<<>>) = 0 /\ request' = d /\ Len(d) = RequestLength
    BY <1>1, DatagramIs DEF Uart!Call
  <2> QED BY <1>1, <2>1 DEF PlaceOK, Uart!Call
<1>2. ASSUME Uart!NextByte PROVE PlaceOK'
  BY <1>2 DEF PlaceOK, Uart!NextByte, Uart!timer, Uart!pin, Uart!rx, Uart!driver
<1>3. ASSUME Uart!Sent PROVE PlaceOK'
  <2>1. Silent /\ out = 1 /\ Len(tmcGot) = Nth /\ txData = <<>>
    BY <1>3, SentAll DEF Uart!Sent
  <2>2. Len(tmcGot) = Len(request)
    BY <1>3, <2>1 DEF Uart!Sent, Nth, UartTypes, DriverTypes
  <2>3. tmcGot = request
    BY <2>2, SeqEqual DEF PlaceOK, UartTypes, DriverTypes
  <2> QED BY <1>3, <2>1, <2>2, <2>3 DEF PlaceOK, Uart!Sent, Uart!tx, Uart!rx, Uart!driver
<1>4. ASSUME Uart!Start PROVE PlaceOK'
  <2>1. Uart!Drives
    BY <1>4, LineIsHigh DEF Uart!Start
  <2> QED BY <1>4, <2>1 DEF PlaceOK, Uart!Start, Uart!pin, Uart!tx, Uart!driver
<1>5. ASSUME Uart!Abort PROVE PlaceOK'
  BY <1>5 DEF PlaceOK, Uart!Abort, Uart!pin, Uart!tx, Uart!driver
<1>6. ASSUME Uart!Aborted PROVE PlaceOK'
  <2>1. ~Uart!Drives
    <3>1. SUFFICES ASSUME Uart!Drives PROVE FALSE
      OBVIOUS
    <3>2. waited + TimeLeft <= Pause /\ waited >= Pause
      BY <1>6, <3>1 DEF AbortOK, Uart!Aborted
    <3>3. TimeLeft > 0 /\ TimeLeft \in Int
      BY <3>1, TimeLeftIs
    <3>4. waited \in Nat
      BY DEF UartTypes, TimerTypes
    <3> QED BY <3>2, <3>3, <3>4
  <2> QED BY <1>6, <2>1 DEF PlaceOK, Uart!Aborted, Uart!timer, Uart!tx, Uart!rx, Uart!driver
<1>7. ASSUME Uart!ReadByte PROVE PlaceOK'
  BY <1>7 DEF PlaceOK, Uart!ReadByte, Uart!timer, Uart!pin, Uart!tx, Uart!driver
<1>8. ASSUME Uart!DriveAgain PROVE PlaceOK'
  <2>1. ~Uart!Drives
    BY <1>8 DEF StopOK, Uart!DriveAgain
  <2> QED BY <1>8, <2>1 DEF PlaceOK, Uart!DriveAgain, Uart!timer, Uart!tx, Uart!rx, Uart!driver
<1>9. ASSUME Uart!Finish PROVE PlaceOK'
  BY <1>9 DEF PlaceOK, StopOK, Uart!Finish, Uart!pin, Uart!tx, Uart!driver
<1>10. ASSUME Uart!Irq PROVE PlaceOK'
  <2>1. /\ uartAt' = uartAt /\ reads' = reads /\ got' = got /\ answer' = answer /\ request' = request
        /\ mode' = mode /\ udis' = udis /\ uif
        /\ reply' = reply /\ tmcByte' = tmcByte /\ tmcIn' = tmcIn /\ tmcBits' = tmcBits /\ tmcGot' = tmcGot
    BY <1>10 DEF Uart!Irq, Uart!call, Uart!driver
  <2>2. uartAt \in {"send", "read", "stop", "driven"}
    BY <2>1 DEF UartTypes, TimerTypes, PlaceOK, Places
  <2>3. CASE uartAt = "send"
    <3>1. rxBusy' = rxBusy /\ rxData' = rxData
      BY <1>10, <2>3 DEF PlaceOK, Uart!Irq, Uart!Send, Uart!rx
    <3> QED BY <2>1, <2>3, <3>1 DEF PlaceOK
  <2>4. CASE uartAt \in {"read", "stop", "driven"}
    <3>1. Uart!Rcv
      BY <1>10, <2>4 DEF PlaceOK, Uart!Irq
    <3>2. rxBusy' = rxBusy /\ out' = out /\ txBusy' = txBusy /\ txData' = txData
      BY <3>1, RcvIs
    <3> QED BY <2>1, <2>4, <3>2 DEF PlaceOK
  <2> QED BY <2>2, <2>3, <2>4
<1>11. ASSUME Uart!Pass PROVE PlaceOK'
  <2>1. /\ uartAt' = uartAt /\ reads' = reads /\ got' = got /\ answer' = answer /\ request' = request
        /\ mode' = mode /\ udis' = udis /\ reply' = reply /\ out' = out
        /\ txBusy' = txBusy /\ txData' = txData /\ rxBusy' = rxBusy /\ rxData' = rxData
        /\ Uart!Receive /\ Uart!Drive
    BY <1>11 DEF Uart!Pass, Uart!pin, Uart!tx, Uart!rx
  <2>2. Uart!Drives' => Uart!Drives
    BY <2>1, DriveIs
  <2>3. CASE uartAt # "send"
    <3>1. tmcIn' = tmcIn /\ tmcBits' = tmcBits /\ tmcGot' = tmcGot
      BY <2>1, <2>3, LineIsHigh, ReceiveIs
    <3> QED BY <2>1, <2>2, <2>3, <3>1 DEF PlaceOK
  <2>4. CASE uartAt = "send"
    <3>1. Len(tmcGot') <= Len(request) /\ \A i \in 1..Len(tmcGot') : tmcGot'[i] = request[i]
      BY <1>11, <2>4, SendPass DEF UartInv
    <3> QED BY <2>1, <2>2, <2>4, <3>1 DEF PlaceOK
  <2> QED BY <2>3, <2>4
<1>12. ASSUME NEW d, Uart!Replies(d) PROVE PlaceOK'
  <2>1. uartAt = "listen"
    BY <1>12 DEF Uart!Replies, UartTypes, TimerTypes, Places, PlaceOK
  <2>2. Len(<<>>) = 0
    OBVIOUS
  <2> QED BY <1>12, <2>1, <2>2 DEF Uart!Replies, PlaceOK, Uart!timer, Uart!pin, Uart!tx, Uart!rx
<1> QED BY <1>1, <1>2, <1>3, <1>4, <1>5, <1>6, <1>7, <1>8, <1>9, <1>10, <1>11, <1>12 DEF Uart!Next

\* Every action keeps the sending in step.
LEMMA SendStep ==
    ASSUME UartInv, Uart!Next, UartRaces = {}
    PROVE  SendOK'
<1> USE UartTimes DEF UartInv, Uart!Foreground
<1>1. ASSUME NEW read \in BOOLEAN, NEW d \in Uart!Datagrams(RequestLength), Uart!Call(read, d) PROVE SendOK'
  <2>1. /\ request' = d /\ todo' = Tail(d) /\ txData' = Uart!Frame(d[1]) /\ out' = 1 /\ txBusy'
        /\ tmcGot' = <<>> /\ tmcIn' = tmcIn /\ tmcBits' = tmcBits /\ uartAt = "idle"
    BY <1>1, DatagramIs DEF Uart!Call
  <2>2. /\ Len(d) = RequestLength /\ Len(Tail(d)) = RequestLength - 1 /\ d[1] \in Uart!Bytes
        /\ \A i \in 1..RequestLength - 1 : Tail(d)[i] = d[i + 1]
    BY DatagramIs
  <2>3. Len(txData') = Bits + 2
    BY <2>1, <2>2, FrameIs
  <2>4. Nth' = 1 /\ Shifted' = 0
    BY <2>1, <2>2, <2>3 DEF Nth, Shifted
  <2>5. Silent' /\ Len(tmcGot') = 0
    BY <2>1 DEF PlaceOK, Silent
  <2>6. \A i \in 1..Len(todo') : todo'[i] = request'[Nth' + i]
    <3>1. \A i \in 1..RequestLength - 1 : i + 1 = 1 + i
      OBVIOUS
    <3> QED BY <2>1, <2>2, <2>4, <3>1
  <2>7. \A i \in 1..Len(txData') : txData'[i] = Uart!Frame(request'[Nth'])[Shifted' + i]
    BY <2>1, <2>3, <2>4
  <2> QED BY <2>1, <2>2, <2>4, <2>5, <2>6, <2>7 DEF SendOK
<1>2. ASSUME Uart!NextByte PROVE SendOK'
  <2>1. /\ uartAt = "send" /\ ~txBusy /\ todo # <<>> /\ txBusy' /\ out' = out /\ request' = request
        /\ txData' = Uart!Frame(Head(todo)) /\ todo' = Tail(todo)
        /\ tmcGot' = tmcGot /\ tmcIn' = tmcIn /\ tmcBits' = tmcBits
    BY <1>2 DEF Uart!NextByte, Uart!pin, Uart!driver
  <2>2. Silent /\ Len(tmcGot) = Nth /\ out = 1 /\ Nth \in 1..Len(request) /\ Len(request) \in Nat
    BY <2>1, SentAll DEF UartTypes, DriverTypes
  <2>3. todo \in Seq(Uart!Bytes) /\ Len(todo) \in Nat /\ Len(todo) > 0
    BY <2>1 DEF UartTypes, BufferTypes
  <2>4. /\ Head(todo) = todo[1] /\ todo[1] \in Uart!Bytes /\ Len(Tail(todo)) = Len(todo) - 1
        /\ \A i \in 1..Len(Tail(todo)) : Tail(todo)[i] = todo[i + 1]
    BY <2>1, <2>3, HeadTailProperties, ElementOfSeq
  <2>5. \A i \in 1..Len(todo) : todo[i] = request[Nth + i]
    BY <2>1 DEF SendOK
  <2>6. Len(txData') = Bits + 2
    BY <2>1, <2>4, FrameIs
  <2>7. Nth' = Nth + 1 /\ Shifted' = 0 /\ Nth + 1 <= Len(request)
    BY <2>1, <2>2, <2>3, <2>4, <2>6 DEF Nth, Shifted
  <2>8. \A i \in 1..Len(todo') : todo'[i] = request[(Nth + 1) + i]
    <3>1. \A i \in 1..Len(todo') : i + 1 \in 1..Len(todo) /\ Nth + (i + 1) = (Nth + 1) + i
      BY <2>1, <2>2, <2>3, <2>4
    <3> QED BY <2>1, <2>4, <2>5, <3>1
  <2>9. \A i \in 1..Len(txData') : txData'[i] = Uart!Frame(request[Nth + 1])[0 + i]
    BY <2>1, <2>3, <2>4, <2>5, <2>6
  <2>10. Silent' /\ Len(tmcGot') = Nth' - 1
    BY <2>1, <2>2, <2>7 DEF Silent
  <2> QED BY <1>2, <2>1, <2>2, <2>7, <2>8, <2>9, <2>10 DEF SendOK, Uart!NextByte
<1>3. ASSUME Uart!Irq \/ Uart!Pass PROVE SendOK'
  <2>1. uartAt' = uartAt
    BY <1>3 DEF Uart!Irq, Uart!Pass, Uart!call
  <2> QED BY <1>3, <2>1, SendPass, SendIrq DEF SendOK
<1>4. ASSUME uartAt' # "send" PROVE SendOK'
  BY <1>4 DEF SendOK
<1>5. uartAt' # "send" \/ Uart!NextByte \/ Uart!Irq \/ Uart!Pass
      \/ \E d \in Uart!Datagrams(RequestLength), read \in BOOLEAN : Uart!Call(read, d)
  BY DEF Uart!Next, Uart!Sent, Uart!Start, Uart!Abort, Uart!Aborted, Uart!ReadByte, Uart!DriveAgain,
         Uart!Finish, Uart!Replies, PlaceOK
<1> QED BY <1>1, <1>2, <1>3, <1>4, <1>5

\* The line carries the bit the driver is at.
LEMMA LineIsReply ==
    ASSUME UartTypes, PlaceOK, mode = "rx", Uart!Drives
    PROVE  /\ Uart!Line = Uart!Frame(reply[tmcByte])[tmcBit + 1]
           /\ tmcByte \in 1..Len(reply) /\ Len(reply) \in Nat /\ reply[tmcByte] \in Uart!Bytes
<1>1. tmcByte \in 1..Len(reply) /\ Len(reply) \in Nat
  BY DEF UartTypes, DriverTypes, Uart!Drives
<1>2. reply[tmcByte] \in Uart!Bytes
  BY <1>1, ElementOfSeq DEF UartTypes, DriverTypes
<1> QED BY <1>1, <1>2 DEF Uart!Line, Uart!TmcOut

\* A START bit does not stay unnoticed for longer than the poll is late.
LEMMA ListenStep ==
    ASSUME UartInv, Uart!Next
    PROVE  ListenOK'
<1> USE UartTimes DEF UartInv, Uart!Foreground
<1>1. ASSUME Uart!Sent PROVE ListenOK'
  BY <1>1 DEF Uart!Sent, Uart!driver, PlaceOK, ListenOK, Uart!Drives
<1>2. ASSUME Uart!Pass, uartAt = "listen" PROVE ListenOK'
  <2>1. /\ Uart!Drive /\ tmcPhase \in 0..Period - 1
        /\ uartAt = "listen" /\ Uart!Line = 0 => tmcPhase < PollLate
    BY <1>2 DEF Uart!Pass, UartTypes, DriverTypes
  <2>2. CASE Uart!Drives
    <3>1. tmcByte = 1 /\ tmcBit = 0 /\ mode = "rx"
      BY <1>2, <2>2 DEF ListenOK, PlaceOK
    <3>2. Uart!Line = Uart!Frame(reply[tmcByte])[tmcBit + 1] /\ reply[tmcByte] \in Uart!Bytes
      BY <2>2, <3>1, LineIsReply
    <3>3. Uart!Line = 0
      BY <3>1, <3>2, FrameIs
    <3>4. tmcPhase + 1 <= PollLate /\ tmcPhase + 1 < Period
      BY <1>2, <2>1, <3>3
    <3>5. tmcByte' = 1 /\ tmcBit' = 0 /\ tmcPhase' = tmcPhase + 1
      BY <2>1, <2>2, <3>1, <3>4, DriveIs
    <3> QED BY <3>4, <3>5 DEF ListenOK
  <2>3. CASE ~Uart!Drives
    BY <2>1, <2>3, DriveIs DEF ListenOK, Uart!Drives
  <2> QED BY <2>2, <2>3
<1>3. ASSUME NEW d, Uart!Replies(d) PROVE ListenOK'
  BY <1>3 DEF Uart!Replies, ListenOK
<1>4. ASSUME Uart!Irq PROVE ListenOK'
  BY <1>4 DEF Uart!Irq, Uart!call, Uart!driver, ListenOK, Uart!Drives
<1>5. ASSUME uartAt' # "listen" PROVE ListenOK'
  BY <1>5 DEF ListenOK
<1>6. \/ uartAt' # "listen" \/ Uart!Sent \/ Uart!Irq
      \/ Uart!Pass /\ uartAt = "listen"
      \/ \E n \in 1..ReplyLength : \E d \in Uart!Datagrams(n) : Uart!Replies(d)
  BY DEF Uart!Next, Uart!Call, Uart!NextByte, Uart!Start, Uart!Abort, Uart!Aborted, Uart!ReadByte,
         Uart!DriveAgain, Uart!Finish, Uart!Pass
<1> QED BY <1>1, <1>2, <1>3, <1>4, <1>5, <1>6

\* The handler samples as long after the middle of a bit as the poll has noticed
\* START late: in each bit before it is over, once.
LEMMA BitsKeepUp ==
    ASSUME NEW c \in 0..Period - 1, NEW p \in 0..Period - 1, NEW h \in Half - PollLate..Half,
           NEW u \in BOOLEAN, u => c < IrqLate,
           p = c - h \/ p = c - h + Period,
           NEW c2 \in Nat, c2 = IF c + 1 = Period THEN 0 ELSE c + 1
    PROVE  /\ p + 1 < Period =>
                /\ p + 1 = c2 - h \/ p + 1 = c2 - h + Period
                /\ ~(u \/ c2 = 0) /\ c2 < h <=> ~u /\ c < h
           /\ p + 1 = Period => ~u /\ c < h /\ c2 = h
<1> USE UartTimes
<1>1. ASSUME p + 1 < Period PROVE p + 1 = c2 - h \/ p + 1 = c2 - h + Period
  BY <1>1
<1>2. ASSUME p + 1 < Period PROVE ~(u \/ c2 = 0) /\ c2 < h <=> ~u /\ c < h
  <2>1. CASE u
    BY <2>1
  <2>2. CASE ~u
    BY <1>2, <2>2
  <2> QED BY <2>1, <2>2
<1>3. ASSUME p + 1 = Period PROVE ~u /\ c < h /\ c2 = h
  <2>1. c < h /\ c2 = h
    BY <1>3
  <2>2. ~u
    BY <1>3
  <2> QED BY <2>1, <2>2
<1> QED BY <1>1, <1>2, <1>3

\* The first sample is half a bit after START was noticed.
LEMMA ReadStart ==
    ASSUME UartInv, Uart!Start
    PROVE  ReadOK'
<1> USE UartTimes DEF UartInv, Uart!Foreground
<1>1. /\ uartAt = "listen" /\ Uart!Line = 0 /\ uif' = uif /\ ~uif /\ cnt' = Half /\ bitCount' = -1
      /\ got' = got /\ rxData' = rxData /\ reply' = reply /\ tmcByte' = tmcByte /\ tmcBit' = tmcBit
      /\ tmcPhase' = tmcPhase
  BY DEF Uart!Start, Uart!driver, Uart!HalfBit, Half
<1>2. Uart!Drives
  BY <1>1, LineIsHigh
<1>3. tmcByte = 1 /\ tmcBit = 0 /\ tmcPhase \in 0..PollLate /\ Len(reply) \in Nat /\ Len(reply) > 0
  BY <1>1, <1>2 DEF ListenOK, UartTypes, DriverTypes
<1>4. got' = <<>> /\ rxData' = <<>> /\ Len(<<>>) = 0
  BY <1>1 DEF PlaceOK
<1>5. PICK h \in Half - PollLate..Half : ~(cnt' < h) /\ tmcPhase' = cnt' - h /\ h \in Int
  BY <1>1, <1>3
<1>6. Uart!Drives'
  BY <1>1, <1>2 DEF Uart!Drives
<1>7. Aligned(h)' /\ Taken(h)' = 0
  BY <1>1, <1>3, <1>5 DEF Aligned, Taken
<1>8. bitCount' = (IF Taken(h)' = Bits + 2 THEN -1 ELSE Taken(h)' - 1)
  BY <1>1, <1>7
<1>9. Len(got') + Len(rxData') = IF Taken(h)' = Bits + 2 THEN tmcByte' ELSE tmcByte' - 1
  BY <1>1, <1>3, <1>4, <1>7
<1>10. \A i \in 1..bitCount' : rxByte'[i] = reply'[tmcByte'][i]
  BY <1>1
<1>11. /\ Len(reply') > 0 /\ Len(got') < ReplyLength
       /\ \A i \in 1..Len(got') : got'[i] = reply'[i]
       /\ \A i \in 1..Len(rxData') : rxData'[i] = reply'[Len(got') + i]
  BY <1>1, <1>3, <1>4
<1> QED BY <1>5, <1>6, <1>7, <1>8, <1>9, <1>10, <1>11 DEF ReadOK

\* A bit is over only after it was sampled.
LEMMA ReadPass ==
    ASSUME UartInv, Uart!Pass, uartAt = "read"
    PROVE  ReadOK'
<1> USE UartTimes DEF UartInv
<1>1. /\ uartAt' = uartAt /\ got' = got /\ rxData' = rxData /\ reply' = reply /\ bitCount' = bitCount
      /\ rxByte' = rxByte /\ Uart!Drive
  BY DEF Uart!Pass, Uart!rx
<1>2. /\ Len(reply) > 0 /\ Len(got) < ReplyLength
      /\ \A i \in 1..Len(got) : got[i] = reply[i]
      /\ \A i \in 1..Len(rxData) : rxData[i] = reply[Len(got) + i]
  BY DEF ReadOK
<1>3. /\ tmcByte \in 0..Len(reply) /\ tmcBit \in 0..Bits + 1 /\ tmcPhase \in 0..Period - 1 /\ Len(reply) \in Nat
      /\ Len(got) \in Nat /\ Len(rxData) \in Nat
  BY DEF UartTypes, DriverTypes, BufferTypes
<1>4. CASE ~Uart!Drives
  <2>1. ~Uart!Drives'
    BY <1>1, <1>4, DriveIs DEF Uart!Drives
  <2> QED BY <1>1, <1>2, <1>4, <2>1 DEF ReadOK
<1>5. CASE Uart!Drives
  <2>1. PICK h \in Half - PollLate..Half :
                  /\ Aligned(h)
                  /\ bitCount = IF Taken(h) = Bits + 2 THEN -1 ELSE Taken(h) - 1
                  /\ Len(got) + Len(rxData) = IF Taken(h) = Bits + 2 THEN tmcByte ELSE tmcByte - 1
                  /\ \A i \in 1..bitCount : rxByte[i] = reply[tmcByte][i]
    BY <1>5 DEF ReadOK
  <2>2. udis = FALSE
    BY DEF PlaceOK, UartTypes, UartBooleans
  <2>3. /\ cnt' = IF cnt + 1 = Period THEN 0 ELSE cnt + 1
        /\ cnt' \in Nat /\ cnt \in 0..Period - 1 /\ uif \in BOOLEAN /\ (uif => cnt < IrqLate)
        /\ uif' <=> uif \/ cnt' = 0
    BY <2>2, PassIs
  <2>4. /\ tmcPhase + 1 < Period =>
             /\ tmcPhase + 1 = cnt' - h \/ tmcPhase + 1 = cnt' - h + Period
             /\ ~(uif \/ cnt' = 0) /\ cnt' < h <=> ~uif /\ cnt < h
        /\ tmcPhase + 1 = Period => ~uif /\ cnt < h /\ cnt' = h
    BY <1>3, <2>1, <2>3, BitsKeepUp DEF Aligned
  <2>5. CASE tmcPhase + 1 < Period
    <3>1. tmcByte' = tmcByte /\ tmcBit' = tmcBit /\ tmcPhase' = tmcPhase + 1
      BY <1>1, <1>5, <2>5, DriveIs
    <3>2. ~uif' /\ cnt' < h <=> ~uif /\ cnt < h
      BY <2>3, <2>4, <2>5
    <3>3. Aligned(h)' /\ Taken(h)' = Taken(h)
      BY <2>4, <2>5, <3>1, <3>2 DEF Aligned, Taken
    <3> QED BY <1>1, <1>2, <1>5, <2>1, <3>1, <3>3 DEF ReadOK, Uart!Drives
  <2>6. CASE tmcPhase + 1 = Period
    <3>1. ~uif /\ cnt < h /\ cnt' = h
      BY <2>4, <2>6
    <3>2. Taken(h) = tmcBit + 1
      BY <3>1 DEF Taken
    <3>3. Taken(h)' = tmcBit'
      BY <3>1 DEF Taken
    <3>4. /\ tmcPhase' = 0
          /\ tmcBit' = IF tmcBit = Bits + 1 THEN 0 ELSE tmcBit + 1
          /\ tmcByte' = IF tmcBit < Bits + 1 THEN tmcByte
                        ELSE IF tmcByte = Len(reply) THEN 0 ELSE tmcByte + 1
      BY <1>1, <1>5, <2>6, DriveIs
    <3>5. Aligned(h)'
      BY <2>3, <3>1, <3>4 DEF Aligned
    <3>6. CASE tmcBit < Bits + 1
      <4>1. tmcBit' = tmcBit + 1 /\ tmcByte' = tmcByte /\ Taken(h)' = Taken(h)
        BY <1>3, <3>2, <3>3, <3>4, <3>6
      <4> QED BY <1>1, <1>2, <1>5, <2>1, <3>5, <4>1 DEF ReadOK, Uart!Drives
    <3>7. CASE tmcBit = Bits + 1
      <4>1. Taken(h) = Bits + 2 /\ Taken(h)' = 0 /\ Taken(h)' # Bits + 2
        BY <3>2, <3>3, <3>4, <3>7
      <4>2. bitCount = -1 /\ Len(got) + Len(rxData) = tmcByte
        BY <2>1, <4>1
      <4>3. CASE tmcByte = Len(reply)
        <5>1. ~Uart!Drives'
          BY <3>4, <3>7, <4>3 DEF Uart!Drives
        <5> QED BY <1>1, <1>2, <4>2, <4>3, <5>1 DEF ReadOK
      <4>4. CASE tmcByte # Len(reply)
        <5>1. tmcByte' = tmcByte + 1
          BY <1>3, <3>4, <3>7, <4>4
        <5>2. bitCount' = Taken(h)' - 1 /\ Len(got') + Len(rxData') = tmcByte' - 1
          BY <1>1, <1>3, <4>1, <4>2, <5>1
        <5>3. \A i \in 1..bitCount' : rxByte'[i] = reply'[tmcByte'][i]
          BY <1>1, <4>2
        <5>4. Uart!Drives'
          BY <1>3, <5>1 DEF Uart!Drives
        <5> QED BY <1>1, <1>2, <3>5, <4>1, <5>2, <5>3, <5>4 DEF ReadOK
      <4> QED BY <4>3, <4>4
    <3> QED BY <1>3, <3>6, <3>7
  <2> QED BY <1>3, <2>5, <2>6
<1> QED BY <1>4, <1>5

\* Taking a byte keeps the others in order.
LEMMA ReadNext ==
    ASSUME UartInv, Uart!ReadByte
    PROVE  ReadOK'
<1> USE UartTimes DEF UartInv, Uart!Foreground
<1>0. SUFFICES ASSUME uartAt' = "read" PROVE ReadOK'
  BY DEF ReadOK
<1>1. /\ uartAt = "read" /\ rxData # <<>> /\ Len(got) + 1 # ReplyLength
      /\ got' = Append(got, Head(rxData)) /\ rxData' = Tail(rxData)
      /\ cnt' = cnt /\ uif' = uif /\ bitCount' = bitCount /\ rxByte' = rxByte /\ reply' = reply
      /\ tmcByte' = tmcByte /\ tmcBit' = tmcBit /\ tmcPhase' = tmcPhase
  BY <1>0 DEF Uart!ReadByte, Uart!timer, Uart!driver
<1>2. /\ got \in Seq(Uart!Bytes) /\ rxData \in Seq(Uart!Bytes) /\ Len(got) \in Nat /\ Len(rxData) \in Nat
      /\ Len(rxData) > 0 /\ Len(reply) \in Nat
  BY <1>1 DEF UartTypes, BufferTypes, DriverTypes
<1>3. /\ Head(rxData) = rxData[1] /\ Head(rxData) \in Uart!Bytes /\ Len(rxData') = Len(rxData) - 1
      /\ \A i \in 1..Len(rxData') : rxData'[i] = rxData[i + 1]
  BY <1>1, <1>2, HeadTailProperties
<1>4. /\ Len(got') = Len(got) + 1 /\ got'[Len(got) + 1] = rxData[1]
      /\ \A i \in 1..Len(got) : got'[i] = got[i]
  BY <1>1, <1>2, <1>3, AppendProperties
<1>5. /\ Len(reply) > 0 /\ Len(got) < ReplyLength
      /\ \A i \in 1..Len(got) : got[i] = reply[i]
      /\ \A i \in 1..Len(rxData) : rxData[i] = reply[Len(got) + i]
  BY <1>1 DEF ReadOK
<1>6. Len(got') < ReplyLength /\ Len(got') + Len(rxData') = Len(got) + Len(rxData)
  BY <1>1, <1>2, <1>3, <1>4, <1>5
<1>7. \A i \in 1..Len(got') : got'[i] = reply[i]
  <2>1. 1 \in 1..Len(rxData)
    BY <1>2
  <2>2. rxData[1] = reply[Len(got) + 1]
    BY <1>5, <2>1
  <2> QED BY <1>2, <1>4, <1>5, <2>2
<1>8. \A i \in 1..Len(rxData') : rxData'[i] = reply[Len(got') + i]
  <2>1. \A i \in 1..Len(rxData') : i + 1 \in 1..Len(rxData) /\ Len(got) + (i + 1) = Len(got') + i
    BY <1>2, <1>3, <1>4
  <2> QED BY <1>3, <1>5, <2>1
<1>9. CASE Uart!Drives
  <2>1. PICK h \in Half - PollLate..Half :
                  /\ Aligned(h)
                  /\ bitCount = IF Taken(h) = Bits + 2 THEN -1 ELSE Taken(h) - 1
                  /\ Len(got) + Len(rxData) = IF Taken(h) = Bits + 2 THEN tmcByte ELSE tmcByte - 1
                  /\ \A i \in 1..bitCount : rxByte[i] = reply[tmcByte][i]
    BY <1>1, <1>9 DEF ReadOK
  <2>2. Aligned(h)' /\ Taken(h)' = Taken(h) /\ Uart!Drives'
    BY <1>1, <1>9, <2>1 DEF Aligned, Taken, Uart!Drives
  <2> QED BY <1>1, <1>5, <1>6, <1>7, <1>8, <2>1, <2>2 DEF ReadOK
<1>10. CASE ~Uart!Drives
  BY <1>1, <1>5, <1>6, <1>7, <1>8, <1>10 DEF ReadOK, Uart!Drives
<1> QED BY <1>9, <1>10

\* The handler takes the bit the driver is at, and keeps a byte that is whole.
LEMMA ReadIrq ==
    ASSUME UartInv, Uart!Irq, uartAt = "read"
    PROVE  ReadOK'
<1> USE UartTimes DEF UartInv
<1>1. /\ uartAt' = uartAt /\ got' = got /\ reply' = reply /\ cnt' = cnt /\ uif /\ ~uif'
      /\ tmcByte' = tmcByte /\ tmcBit' = tmcBit /\ tmcPhase' = tmcPhase
  BY DEF Uart!Irq, Uart!call, Uart!driver
<1>2. Uart!Rcv /\ mode = "rx"
  BY DEF Uart!Irq, PlaceOK
<1>3. /\ Len(reply) > 0 /\ Len(got) < ReplyLength
      /\ \A i \in 1..Len(got) : got[i] = reply[i]
      /\ \A i \in 1..Len(rxData) : rxData[i] = reply[Len(got) + i]
  BY DEF ReadOK
<1>4. /\ tmcBit \in 0..Bits + 1 /\ Len(reply) \in Nat /\ rxData \in Seq(Uart!Bytes)
      /\ Len(got) \in Nat /\ Len(rxData) \in Nat /\ cnt \in 0..IrqLate
  BY <1>1 DEF UartTypes, DriverTypes, BufferTypes, TimerTypes
<1>5. CASE ~Uart!Drives
  <2>1. Uart!Line = 1
    BY <1>5, LineIsHigh
  <2>2. bitCount = -1 /\ Len(got) + Len(rxData) = Len(reply)
    BY <1>5 DEF ReadOK
  <2>3. bitCount' = -1 /\ rxData' = rxData
    BY <1>2, <2>1, <2>2, RcvIs
  <2> QED BY <1>1, <1>3, <1>5, <2>2, <2>3 DEF ReadOK, Uart!Drives
<1>6. CASE Uart!Drives
  <2>1. PICK h \in Half - PollLate..Half :
                  /\ Aligned(h)
                  /\ bitCount = IF Taken(h) = Bits + 2 THEN -1 ELSE Taken(h) - 1
                  /\ Len(got) + Len(rxData) = IF Taken(h) = Bits + 2 THEN tmcByte ELSE tmcByte - 1
                  /\ \A i \in 1..bitCount : rxByte[i] = reply[tmcByte][i]
    BY <1>6 DEF ReadOK
  <2>2. cnt < h /\ h \in Int
    BY <1>4
  <2>3. Taken(h) = tmcBit /\ Taken(h)' = tmcBit + 1 /\ Aligned(h)' /\ Uart!Drives'
    BY <1>1, <1>6, <2>1, <2>2 DEF Taken, Aligned, Uart!Drives
  <2>4. bitCount = tmcBit - 1 /\ Len(got) + Len(rxData) = tmcByte - 1
    <3>1. tmcBit # Bits + 2
      BY <1>4
    <3>2. /\ bitCount = IF tmcBit = Bits + 2 THEN -1 ELSE tmcBit - 1
          /\ Len(got) + Len(rxData) = IF tmcBit = Bits + 2 THEN tmcByte ELSE tmcByte - 1
      BY <2>1, <2>3
    <3> QED BY <3>1, <3>2
  <2>5. /\ Uart!Line = Uart!Frame(reply[tmcByte])[tmcBit + 1]
        /\ tmcByte \in 1..Len(reply) /\ reply[tmcByte] \in Uart!Bytes
    BY <1>2, <1>6, LineIsReply
  <2>6. /\ Uart!Frame(reply[tmcByte])[1] = 0 /\ Uart!Frame(reply[tmcByte])[Bits + 2] = 1
        /\ \A i \in 1..Bits : Uart!Frame(reply[tmcByte])[i + 1] = reply[tmcByte][i]
    BY <2>5, FrameIs
  <2>7. CASE tmcBit = 0
    <3>1. bitCount' = 0 /\ rxData' = rxData
      BY <1>2, <2>4, <2>5, <2>6, <2>7, RcvIs
    <3>2. \A i \in 1..bitCount' : rxByte'[i] = reply[tmcByte][i]
      BY <3>1
    <3>3. Taken(h)' # Bits + 2 /\ bitCount' = Taken(h)' - 1
      BY <2>3, <2>7, <3>1
    <3> QED BY <1>1, <1>3, <2>3, <2>4, <3>1, <3>2, <3>3 DEF ReadOK
  <2>8. CASE tmcBit \in 1..Bits
    <3>1. bitCount \in 0..Bits - 1
      BY <2>4, <2>8
    <3>2. /\ bitCount' = bitCount + 1 /\ rxData' = rxData
          /\ \A i \in 1..bitCount : rxByte'[i] = rxByte[i]
          /\ rxByte'[bitCount + 1] = Uart!Line
      BY <1>2, <3>1, RcvIs
    <3>3. Uart!Line = reply[tmcByte][tmcBit]
      BY <2>5, <2>6, <2>8
    <3>4. \A i \in 1..bitCount' : rxByte'[i] = reply[tmcByte][i]
      <4>1. SUFFICES ASSUME NEW i \in 1..bitCount' PROVE rxByte'[i] = reply[tmcByte][i]
        OBVIOUS
      <4>2. CASE i = tmcBit
        BY <2>4, <2>8, <3>2, <3>3, <4>2
      <4>3. CASE i # tmcBit
        <5>1. i \in 1..bitCount
          BY <2>4, <2>8, <3>2, <4>3
        <5> QED BY <2>1, <3>2, <5>1
      <4> QED BY <4>2, <4>3
    <3>5. Taken(h)' # Bits + 2 /\ bitCount' = Taken(h)' - 1
      BY <2>3, <2>4, <2>8, <3>2
    <3> QED BY <1>1, <1>3, <2>3, <2>4, <3>2, <3>4, <3>5 DEF ReadOK
  <2>9. CASE tmcBit = Bits + 1
    <3>1. bitCount = Bits /\ Uart!Line = 1
      BY <2>4, <2>5, <2>6, <2>9
    <3>2. /\ bitCount' = -1 /\ rxByte \in Uart!Bytes /\ rxData' = Append(rxData, rxByte)
      BY <1>2, <3>1, RcvIs
    <3>3. rxByte = reply[tmcByte]
      <4>1. \A i \in 1..Bits : rxByte[i] = reply[tmcByte][i]
        BY <2>1, <3>1
      <4>2. rxByte \in [1..Bits -> {0, 1}] /\ reply[tmcByte] \in [1..Bits -> {0, 1}]
        BY <2>5, <3>2 DEF Uart!Bytes
      <4> QED BY <4>1, <4>2
    <3>4. /\ Len(rxData') = Len(rxData) + 1 /\ rxData'[Len(rxData) + 1] = reply[tmcByte]
          /\ \A i \in 1..Len(rxData) : rxData'[i] = rxData[i]
      BY <1>4, <3>2, <3>3, AppendProperties
    <3>5. Len(got') + Len(rxData') = tmcByte'
      BY <1>1, <1>4, <2>4, <2>5, <3>4
    <3>6. \A i \in 1..Len(rxData') : rxData'[i] = reply[Len(got) + i]
      <4>1. SUFFICES ASSUME NEW i \in 1..Len(rxData') PROVE rxData'[i] = reply[Len(got) + i]
        OBVIOUS
      <4>2. CASE i = Len(rxData) + 1
        <5>1. Len(got) + i = tmcByte
          BY <1>4, <2>4, <2>5, <4>2
        <5> QED BY <3>4, <4>2, <5>1
      <4>3. CASE i # Len(rxData) + 1
        <5>1. i \in 1..Len(rxData)
          BY <1>4, <3>4, <4>3
        <5> QED BY <1>3, <3>4, <5>1
      <4> QED BY <4>2, <4>3
    <3>7. Taken(h)' = Bits + 2
      BY <2>3, <2>9
    <3>8. \A i \in 1..bitCount' : rxByte'[i] = reply'[tmcByte'][i]
      BY <3>2
    <3> QED BY <1>1, <1>3, <2>3, <3>2, <3>5, <3>6, <3>7, <3>8 DEF ReadOK
  <2> QED BY <1>4, <2>7, <2>8, <2>9
<1> QED BY <1>5, <1>6

\* Every action keeps the reading in step.
LEMMA ReadStep ==
    ASSUME UartInv, Uart!Next
    PROVE  ReadOK'
<1>1. CASE uartAt' # "read"
  BY <1>1 DEF ReadOK
<1>2. CASE uartAt' = "read"
  <2>1. \/ Uart!Start \/ Uart!ReadByte
        \/ Uart!Irq /\ uartAt = "read"
        \/ Uart!Pass /\ uartAt = "read"
    BY <1>2 DEF Uart!Next, Uart!Call, Uart!NextByte, Uart!Sent, Uart!Abort, Uart!Aborted, Uart!DriveAgain,
         Uart!Finish, Uart!Pass, Uart!Irq, Uart!call, Uart!Replies, Uart!Foreground, UartInv, PlaceOK
  <2> QED BY <2>1, ReadStart, ReadNext, ReadIrq, ReadPass
<1> QED BY <1>1, <1>2

\* The last byte of a datagram is taken after its STOP bit was sampled.
LEMMA ReadEnds ==
    ASSUME UartInv, Uart!ReadByte, uartAt' = "stop"
    PROVE  StopOK'
<1> USE UartTimes DEF UartInv, Uart!Foreground
<1>1. /\ uartAt = "read" /\ rxData # <<>> /\ Len(got) + 1 = ReplyLength
      /\ got' = Append(got, Head(rxData)) /\ rxData' = <<>> /\ irqCount' = 0
      /\ cnt' = cnt /\ uif' = uif /\ bitCount' = bitCount /\ reply' = reply
      /\ tmcByte' = tmcByte /\ tmcBit' = tmcBit /\ tmcPhase' = tmcPhase
  BY DEF Uart!ReadByte, Uart!timer, Uart!driver
<1>2. /\ got \in Seq(Uart!Bytes) /\ rxData \in Seq(Uart!Bytes) /\ Len(got) \in Nat /\ Len(rxData) \in Nat
      /\ Len(rxData) > 0 /\ Len(reply) \in Nat /\ reply \in Seq(Uart!Bytes) /\ Len(reply) <= ReplyLength
      /\ tmcByte \in 0..Len(reply) /\ tmcBit \in 0..Bits + 1 /\ uif \in BOOLEAN
  BY <1>1 DEF UartTypes, BufferTypes, DriverTypes, UartBooleans
<1>3. Head(rxData) = rxData[1] /\ Head(rxData) \in Uart!Bytes
  BY <1>1, <1>2, HeadTailProperties
<1>4. /\ got' \in Seq(Uart!Bytes) /\ Len(got') = ReplyLength /\ got'[ReplyLength] = rxData[1]
      /\ \A i \in 1..ReplyLength - 1 : got'[i] = got[i]
  <2>1. /\ got' \in Seq(Uart!Bytes) /\ Len(got') = Len(got) + 1 /\ got'[Len(got) + 1] = rxData[1]
        /\ \A i \in 1..Len(got) : got'[i] = got[i]
    BY <1>1, <1>2, <1>3, AppendProperties
  <2>2. Len(got) = ReplyLength - 1
    BY <1>1, <1>2
  <2> QED BY <1>1, <2>1, <2>2
<1>5. /\ \A i \in 1..Len(got) : got[i] = reply[i]
      /\ \A i \in 1..Len(rxData) : rxData[i] = reply[Len(got) + i]
  BY <1>1 DEF ReadOK
<1>6. \A i \in 1..ReplyLength : got'[i] = reply[i]
  <2>1. 1 \in 1..Len(rxData)
    BY <1>2
  <2>2. rxData[1] = reply[Len(got) + 1]
    BY <1>5, <2>1
  <2>3. rxData[1] = reply[ReplyLength] /\ Len(got) = ReplyLength - 1
    BY <1>1, <1>2, <2>2
  <2> QED BY <1>4, <1>5, <2>3
<1>7. CASE ~Uart!Drives
  <2>1. bitCount = -1 /\ Len(got) + Len(rxData) = Len(reply)
    BY <1>1, <1>7 DEF ReadOK
  <2>2. Len(reply) = ReplyLength
    BY <1>1, <1>2, <2>1
  <2>3. got' = reply
    BY <1>2, <1>4, <1>6, <2>2, SeqEqual
  <2> QED BY <1>1, <1>7, <2>1, <2>3 DEF StopOK, Uart!Drives
<1>8. CASE Uart!Drives
  <2>1. PICK h \in Half - PollLate..Half :
                  /\ Aligned(h)
                  /\ bitCount = IF Taken(h) = Bits + 2 THEN -1 ELSE Taken(h) - 1
                  /\ Len(got) + Len(rxData) = IF Taken(h) = Bits + 2 THEN tmcByte ELSE tmcByte - 1
    BY <1>1, <1>8 DEF ReadOK
  <2>2. Taken(h) = Bits + 2 /\ tmcByte = ReplyLength /\ Len(reply) = ReplyLength
    BY <1>1, <1>2, <2>1
  <2>3. bitCount = -1 /\ ~uif /\ cnt < h /\ tmcBit = Bits + 1
    BY <1>2, <2>1, <2>2 DEF Taken
  <2>4. got' = reply
    BY <1>2, <1>4, <1>6, <2>2, SeqEqual
  <2>5. Aligned(h)' /\ cnt' < h
    BY <1>1, <2>1, <2>3 DEF Aligned
  <2> QED BY <1>1, <2>1, <2>2, <2>3, <2>4, <2>5 DEF StopOK
<1> QED BY <1>7, <1>8

\* The driver lets the line go before the next interrupt.
LEMMA StopPass ==
    ASSUME UartInv, Uart!Pass
    PROVE  StopOK'
<1> USE UartTimes DEF UartInv
<1>1. /\ uartAt' = uartAt /\ got' = got /\ rxData' = rxData /\ reply' = reply /\ bitCount' = bitCount
      /\ irqCount' = irqCount /\ Uart!Drive
  BY DEF Uart!Pass, Uart!rx
<1>2. uartAt = "driven" => irqCount > 0
  BY DEF StopOK
<1>3. CASE uartAt \notin {"stop", "driven"}
  BY <1>1, <1>3 DEF StopOK
<1>4. CASE uartAt \in {"stop", "driven"} /\ ~Uart!Drives
  <2>1. ~Uart!Drives'
    BY <1>1, <1>4, DriveIs DEF Uart!Drives
  <2> QED BY <1>1, <1>4, <2>1 DEF StopOK
<1>5. CASE uartAt \in {"stop", "driven"} /\ Uart!Drives
  <2>1. /\ got = reply /\ rxData = <<>> /\ bitCount = -1
        /\ tmcByte = Len(reply) /\ tmcBit = Bits + 1 /\ ~uif /\ irqCount = 0
    BY <1>5 DEF StopOK
  <2>2. PICK h \in Half - PollLate..Half : Aligned(h) /\ cnt < h
    BY <1>5 DEF StopOK
  <2>3. udis = FALSE /\ tmcPhase \in 0..Period - 1
    BY <1>5 DEF PlaceOK, UartTypes, UartBooleans, DriverTypes
  <2>4. /\ cnt' = IF cnt + 1 = Period THEN 0 ELSE cnt + 1
        /\ cnt' \in Nat /\ cnt \in 0..Period - 1 /\ uif \in BOOLEAN /\ (uif => cnt < IrqLate)
        /\ uif' <=> uif \/ cnt' = 0
    BY <2>3, PassIs
  <2>5. tmcPhase + 1 < Period =>
             /\ tmcPhase + 1 = cnt' - h \/ tmcPhase + 1 = cnt' - h + Period
             /\ ~(uif \/ cnt' = 0) /\ cnt' < h <=> ~uif /\ cnt < h
    BY <2>2, <2>3, <2>4, BitsKeepUp DEF Aligned
  <2>6. CASE tmcPhase + 1 < Period
    <3>1. tmcByte' = tmcByte /\ tmcBit' = tmcBit /\ tmcPhase' = tmcPhase + 1
      BY <1>1, <1>5, <2>6, DriveIs
    <3>2. ~uif' /\ cnt' < h
      BY <2>1, <2>2, <2>4, <2>5, <2>6
    <3>3. Aligned(h)'
      BY <2>5, <2>6, <3>1 DEF Aligned
    <3> QED BY <1>1, <1>2, <2>1, <3>1, <3>2, <3>3 DEF StopOK
  <2>7. CASE tmcPhase + 1 = Period
    <3>1. tmcByte' = 0
      BY <1>1, <1>5, <2>1, <2>7, DriveIs
    <3> QED BY <1>1, <1>2, <2>1, <3>1 DEF StopOK, Uart!Drives
  <2> QED BY <2>3, <2>6, <2>7
<1> QED BY <1>3, <1>4, <1>5

\* Every action keeps the line free when it is turned round after a read.
LEMMA StopStep ==
    ASSUME UartInv, Uart!Next
    PROVE  StopOK'
<1> USE UartTimes DEF UartInv, Uart!Foreground
<1>1. ASSUME Uart!Irq PROVE StopOK'
  <2>1. /\ uartAt' = uartAt /\ got' = got /\ reply' = reply /\ tmcByte' = tmcByte /\ uif
    BY <1>1 DEF Uart!Irq, Uart!call, Uart!driver
  <2>2. CASE uartAt \notin {"stop", "driven"}
    BY <2>1, <2>2 DEF StopOK
  <2>3. CASE uartAt \in {"stop", "driven"}
    <3>1. /\ got = reply /\ rxData = <<>> /\ bitCount = -1 /\ ~Uart!Drives
      BY <2>1, <2>3 DEF StopOK
    <3>2. Uart!Rcv
      BY <1>1, <2>3 DEF PlaceOK, Uart!Irq
    <3>3. Uart!Line = 1
      BY <2>3, <3>1, LineIsHigh
    <3>4. bitCount' = -1 /\ rxData' = rxData /\ irqCount' > 0
      BY <3>1, <3>2, <3>3, RcvIs
    <3> QED BY <2>1, <3>1, <3>4 DEF StopOK, Uart!Drives
  <2> QED BY <2>2, <2>3
<1>2. ASSUME Uart!DriveAgain PROVE StopOK'
  <2>1. /\ uartAt = "stop" /\ irqCount > 0 /\ irqCount' = irqCount /\ got' = got /\ reply' = reply
        /\ rxData' = rxData /\ bitCount' = bitCount /\ tmcByte' = tmcByte /\ irqCount # 0
    BY <1>2 DEF Uart!DriveAgain, Uart!rx, Uart!driver, UartTypes, BufferTypes
  <2>2. /\ got = reply /\ rxData = <<>> /\ bitCount = -1 /\ ~Uart!Drives
    BY <2>1 DEF StopOK
  <2> QED BY <2>1, <2>2 DEF StopOK, Uart!Drives
<1>3. ASSUME uartAt' \notin {"stop", "driven"} PROVE StopOK'
  BY <1>3 DEF StopOK
<1>4. \/ uartAt' \notin {"stop", "driven"}
      \/ Uart!ReadByte /\ uartAt' = "stop"
      \/ Uart!DriveAgain \/ Uart!Irq \/ Uart!Pass
  BY DEF Uart!Next, Uart!Call, Uart!NextByte, Uart!Sent, Uart!Start, Uart!Abort, Uart!Aborted, Uart!ReadByte,
         Uart!Finish, Uart!Replies, PlaceOK
<1> QED BY <1>1, <1>2, <1>3, <1>4, ReadEnds, StopPass

\* Every action keeps what is left of the reply within the pause.
LEMMA AbortStep ==
    ASSUME UartInv, Uart!Next, UartRaces = {}
    PROVE  AbortOK'
<1> USE UartTimes DEF UartInv, Uart!Foreground
<1>1. ASSUME Uart!Abort PROVE AbortOK'
  <2>1. /\ waited' = 0 /\ reply' = reply /\ tmcByte' = tmcByte /\ tmcBit' = tmcBit /\ tmcPhase' = tmcPhase
    BY <1>1 DEF Uart!Abort, Uart!driver
  <2>2. TimeLeft' = TimeLeft /\ Uart!Drives' = Uart!Drives
    BY <2>1 DEF TimeLeft, Uart!Drives
  <2> QED BY <2>1, <2>2, TimeLeftIs DEF AbortOK
<1>2. ASSUME Uart!Pass, uartAt = "abort" PROVE AbortOK'
  <2>1. /\ uartAt' = uartAt /\ reply' = reply /\ Uart!Drive
        /\ waited' = IF waited < AbortTimeout THEN waited + 1 ELSE waited
        /\ waited \in Nat
    BY <1>2 DEF Uart!Pass, UartTypes, TimerTypes
  <2>2. CASE ~Uart!Drives
    <3>1. ~Uart!Drives'
      BY <2>1, <2>2, DriveIs DEF Uart!Drives
    <3> QED BY <3>1 DEF AbortOK
  <2>3. CASE Uart!Drives
    <3>1. waited + TimeLeft <= Pause /\ TimeLeft \in Int
      BY <1>2, <2>3, TimeLeftIs DEF AbortOK
    <3>2. /\ Len(reply) \in Nat /\ tmcByte \in 1..Len(reply) /\ tmcBit \in 0..Bits + 1
          /\ tmcPhase \in 0..Period - 1
      BY <2>3 DEF UartTypes, DriverTypes, Uart!Drives
    <3>3. ASSUME Uart!Drives' PROVE TimeLeft' = TimeLeft - 1
      <4>1. CASE tmcPhase + 1 < Period
        <5>1. tmcByte' = tmcByte /\ tmcBit' = tmcBit /\ tmcPhase' = tmcPhase + 1
          BY <2>1, <2>3, <4>1, DriveIs
        <5> DEFINE m == (Len(reply) - tmcByte + 1) * (Bits + 2) - tmcBit
        <5>2. m \in Int
          BY <3>2
        <5>3. TimeLeft = m * Period - tmcPhase /\ TimeLeft' = m * Period - (tmcPhase + 1)
          BY <2>1, <5>1 DEF TimeLeft
        <5> HIDE DEF m
        <5>4. m * Period \in Int
          BY <5>2
        <5> QED BY <3>2, <5>3, <5>4
      <4>2. CASE tmcPhase + 1 = Period
        <5>1. /\ tmcPhase' = 0
              /\ tmcBit' = IF tmcBit = Bits + 1 THEN 0 ELSE tmcBit + 1
              /\ tmcByte' = IF tmcBit < Bits + 1 THEN tmcByte
                            ELSE IF tmcByte = Len(reply) THEN 0 ELSE tmcByte + 1
          BY <2>1, <2>3, <4>2, DriveIs
        <5> DEFINE n == Len(reply) - tmcByte + 1
                   m == n * (Bits + 2) - tmcBit
        <5>2. n \in Int
          BY <3>2
        <5>3. (Len(reply) - tmcByte' + 1) * (Bits + 2) - tmcBit' = m - 1
          <6>1. CASE tmcBit < Bits + 1
            BY <3>2, <5>1, <6>1
          <6>2. CASE tmcBit = Bits + 1
            <7>1. tmcByte' = tmcByte + 1 /\ tmcBit' = 0
              BY <3>2, <3>3, <5>1, <6>2 DEF Uart!Drives
            <7>2. Len(reply) - tmcByte' + 1 = n - 1
              BY <3>2, <7>1
            <7>3. (n - 1) * (Bits + 2) = n * (Bits + 2) - (Bits + 2) /\ n * (Bits + 2) \in Int
              BY <5>2
            <7> QED BY <5>2, <6>2, <7>1, <7>2, <7>3
          <6> QED BY <3>2, <6>1, <6>2
        <5>4. m \in Int
          BY <3>2, <5>2
        <5>5. TimeLeft = m * Period - tmcPhase
          BY DEF TimeLeft
        <5> HIDE DEF m
        <5>6. TimeLeft' = (m - 1) * Period - 0
          BY <2>1, <5>1, <5>3 DEF TimeLeft
        <5>7. (m - 1) * Period = m * Period - Period /\ m * Period \in Int
          BY <5>4
        <5> QED BY <3>2, <4>2, <5>5, <5>6, <5>7
      <4> QED BY <3>2, <4>1, <4>2
    <3>4. ASSUME Uart!Drives' PROVE waited' + TimeLeft' <= Pause
      BY <2>1, <3>1, <3>3, <3>4
    <3> QED BY <3>4 DEF AbortOK
  <2> QED BY <2>2, <2>3
<1>3. ASSUME uartAt' # "abort" PROVE AbortOK'
  BY <1>3 DEF AbortOK
<1>4. \/ uartAt' # "abort" \/ Uart!Abort
      \/ Uart!Pass /\ uartAt = "abort"
  BY DEF Uart!Next, Uart!Call, Uart!NextByte, Uart!Sent, Uart!Start, Uart!Aborted, Uart!ReadByte,
         Uart!DriveAgain, Uart!Finish, Uart!Replies, Uart!Irq, Uart!call, Uart!Pass, PlaceOK, UartTypes, TimerTypes
<1> QED BY <1>1, <1>2, <1>3, <1>4

\* The invariant holds at reset.
LEMMA UartInit == Uart!Init => UartInv
<1> SUFFICES ASSUME Uart!Init PROVE UartInv
  OBVIOUS
<1>1. UartTypes
  BY UartTypesInit
<1>2. PlaceOK
  <2>1. Len(<<>>) = 0
    OBVIOUS
  <2> QED BY <2>1 DEF Uart!Init, PlaceOK, Silent, Uart!Drives
<1>3. SendOK /\ ListenOK /\ ReadOK /\ StopOK /\ AbortOK
  BY DEF Uart!Init, SendOK, ListenOK, ReadOK, StopOK, AbortOK
<1> QED BY <1>1, <1>2, <1>3 DEF UartInv

\* The invariant is inductive.
LEMMA UartStep ==
    ASSUME UartInv, [Uart!Next]_Uart!vars, UartRaces = {}
    PROVE  UartInv'
<1>1. CASE Uart!Next
  <2>1. UartTypes'
    BY <1>1, UartTypesStep DEF UartInv
  <2> QED BY <1>1, <2>1, PlaceStep, SendStep, ListenStep, ReadStep, StopStep, AbortStep DEF UartInv
<1>2. CASE UNCHANGED Uart!vars
  BY <1>2 DEF Uart!vars, Uart!timer, Uart!pin, Uart!tx, Uart!rx, Uart!call, Uart!driver,
              UartInv, UartTypes, UartBooleans, TimerTypes, BufferTypes, DriverTypes,
              PlaceOK, SendOK, ListenOK, ReadOK, StopOK, AbortOK, Silent, Nth, Shifted, Sampled,
              Aligned, Taken, TimeLeft, Uart!Drives
<1> QED BY <1>1, <1>2

\* The invariant says that the line carries what was meant.
LEMMA LineFromInv == ASSUME UartInv PROVE Uart!LineIsTrue
<1> USE DEF UartInv
<1>1. /\ tmcGot \in Seq(Uart!Bytes) /\ request \in Seq(Uart!Bytes) /\ reply \in Seq(Uart!Bytes)
      /\ got \in Seq(Uart!Bytes) /\ rxData \in Seq(Uart!Bytes)
  BY DEF UartTypes, DriverTypes, BufferTypes
<1>2. Uart!IsPrefix(tmcGot, request)
  <2>1. Len(tmcGot) <= Len(request) /\ \A i \in 1..Len(tmcGot) : tmcGot[i] = request[i]
    BY DEF PlaceOK
  <2>2. Len(tmcGot) \in Nat /\ Len(request) \in Nat
    BY <1>1
  <2>3. SubSeq(request, 1, Len(tmcGot)) = SubSeq(tmcGot, 1, Len(tmcGot))
    <3>1. \A i \in 1..Len(tmcGot) : request[i] \in Uart!Bytes /\ tmcGot[i] \in Uart!Bytes
      BY <1>1, <2>1, <2>2, ElementOfSeq
    <3>2. Len(tmcGot) - 1 + 1 = Len(tmcGot) /\ \A i \in 1..Len(tmcGot) : 1 + i - 1 = i
      BY <2>2
    <3>3. /\ SubSeq(request, 1, Len(tmcGot)) \in Seq(Uart!Bytes)
          /\ Len(SubSeq(request, 1, Len(tmcGot))) = IF 1 <= Len(tmcGot) THEN Len(tmcGot) - 1 + 1 ELSE 0
          /\ \A i \in 1..Len(tmcGot) - 1 + 1 : SubSeq(request, 1, Len(tmcGot))[i] = request[1 + i - 1]
      BY <2>2, <3>1, SubSeqProperties
    <3>4. /\ SubSeq(tmcGot, 1, Len(tmcGot)) \in Seq(Uart!Bytes)
          /\ Len(SubSeq(tmcGot, 1, Len(tmcGot))) = IF 1 <= Len(tmcGot) THEN Len(tmcGot) - 1 + 1 ELSE 0
          /\ \A i \in 1..Len(tmcGot) - 1 + 1 : SubSeq(tmcGot, 1, Len(tmcGot))[i] = tmcGot[1 + i - 1]
      BY <2>2, <3>1, SubSeqProperties
    <3>5. /\ Len(SubSeq(request, 1, Len(tmcGot))) = Len(tmcGot)
          /\ Len(SubSeq(tmcGot, 1, Len(tmcGot))) = Len(tmcGot)
      BY <2>2, <3>3, <3>4
    <3>6. \A i \in 1..Len(tmcGot) : SubSeq(request, 1, Len(tmcGot))[i] = SubSeq(tmcGot, 1, Len(tmcGot))[i]
      BY <2>1, <3>2, <3>3, <3>4
    <3> QED BY <3>3, <3>4, <3>5, <3>6, SeqEqual
  <2> QED BY <2>1, <2>3 DEF Uart!IsPrefix
<1>3. uartAt = "listen" => tmcGot = request
  BY DEF PlaceOK
<1>4. ASSUME uartAt = "read", ~Uart!Drives PROVE got \o rxData = reply
  <2>1. Len(got) + Len(rxData) = Len(reply)
    BY <1>4 DEF ReadOK
  <2>2. /\ \A i \in 1..Len(got) : got[i] = reply[i]
        /\ \A i \in 1..Len(rxData) : rxData[i] = reply[Len(got) + i]
    BY <1>4 DEF ReadOK
  <2>3. /\ got \o rxData \in Seq(Uart!Bytes) /\ Len(got \o rxData) = Len(got) + Len(rxData)
        /\ \A i \in 1..Len(got) + Len(rxData) :
             (got \o rxData)[i] = IF i <= Len(got) THEN got[i] ELSE rxData[i - Len(got)]
    BY <1>1, ConcatProperties
  <2>4. Len(got) \in Nat /\ Len(rxData) \in Nat
    BY <1>1
  <2>5. \A i \in 1..Len(reply) : (got \o rxData)[i] = reply[i]
    <3>1. SUFFICES ASSUME NEW i \in 1..Len(got) + Len(rxData) PROVE (got \o rxData)[i] = reply[i]
      BY <2>1
    <3>2. CASE i <= Len(got)
      <4>1. i \in 1..Len(got)
        BY <2>4, <3>2
      <4> QED BY <2>2, <2>3, <3>2, <4>1
    <3>3. CASE ~(i <= Len(got))
      <4>1. i - Len(got) \in 1..Len(rxData) /\ Len(got) + (i - Len(got)) = i
        BY <2>4, <3>3
      <4> QED BY <2>2, <2>3, <3>3, <4>1
    <3> QED BY <3>2, <3>3
  <2> QED BY <1>1, <2>1, <2>3, <2>5, SeqEqual
<1>5. answer = "ok" => got = reply
  BY DEF PlaceOK
<1>6. ~(mode = "tx" /\ Uart!Drives)
  BY DEF PlaceOK
<1> QED BY <1>2, <1>3, <1>4, <1>5, <1>6 DEF Uart!LineIsTrue

\* The line carries what was meant: for bytes and datagrams of any length, any
\* period and any lateness of handler and poll below half a bit together, the
\* driver receives every datagram, every reply is taken as it was sent, and the
\* two sides never drive the line at once.
THEOREM LineCarriesWhatWasMeant ==
    ASSUME UartRaces = {}
    PROVE  Uart!Spec => []LineIsTrue
<1>1. Uart!Init => UartInv
  BY UartInit
<1>2. UartInv /\ [Uart!Next]_Uart!vars => UartInv'
  BY UartStep
<1>3. UartInv => LineIsTrue
  BY LineFromInv DEF LineIsTrue
<1> QED BY <1>1, <1>2, <1>3, PTL DEF Uart!Spec

-----------------------------------------------------------------------------
(* The services together: each of them runs as its own specification says, *)
(* and everything keeps its type.                                          *)

\* A step of one service leaves the others alone.
LEMMA ServiceSteps ==
    ASSUME [Next]_vars
    PROVE  /\ [ClockNext]_clockVars /\ [DelayNext]_delayVars /\ [StepsNext]_stepsVars
           /\ [Encoder!Next]_Encoder!vars /\ [Uart!Next]_Uart!vars
<1>1. UNCHANGED encoderVars => UNCHANGED Encoder!vars
  BY DEF encoderVars, Encoder!vars, Encoder!encTimer, Encoder!stamps, Encoder!irqVars,
         Encoder!data, Encoder!fgVars
<1>2. UNCHANGED uartVars => UNCHANGED Uart!vars
  BY DEF uartVars, Uart!vars, Uart!timer, Uart!pin, Uart!tx, Uart!rx, Uart!call, Uart!driver
<1>3. \/ ClockNext    /\ UNCHANGED <<delayVars, stepsVars, encoderVars, uartVars>>
      \/ DelayNext    /\ UNCHANGED <<clockVars, stepsVars, encoderVars, uartVars>>
      \/ StepsNext    /\ UNCHANGED <<clockVars, delayVars, encoderVars, uartVars>>
      \/ Encoder!Next /\ UNCHANGED <<clockVars, delayVars, stepsVars, uartVars>>
      \/ Uart!Next    /\ UNCHANGED <<clockVars, delayVars, stepsVars, encoderVars>>
      \/ UNCHANGED <<clockVars, delayVars, stepsVars, encoderVars, uartVars>>
  BY Zenon DEF Next, Runs, vars
<1> HIDE DEF encoderVars, uartVars
<1> QED BY <1>1, <1>2, <1>3, Zenon

\* What holds of a service by its own specification holds of it here: MC_Times
\* implements the specification of every service.
THEOREM EveryServiceRuns ==
    Spec => ClockSpec /\ DelaySpec /\ StepsSpec /\ Encoder!Spec /\ Uart!Spec
<1>1. Init => ClockInit /\ DelayInit /\ StepsInit /\ Encoder!Init /\ Uart!Init
  BY DEF Init
<1>2. [Next]_vars =>
        /\ [ClockNext]_clockVars /\ [DelayNext]_delayVars /\ [StepsNext]_stepsVars
        /\ [Encoder!Next]_Encoder!vars /\ [Uart!Next]_Uart!vars
  BY ServiceSteps
<1> QED BY <1>1, <1>2, PTL DEF Spec, ClockSpec, DelaySpec, StepsSpec, Encoder!Spec, Uart!Spec

\* A reader's copy is not ahead of the time, which the type of the microseconds
\* rests on.
ClockTypes == ClockTypeOK /\ cycles <= now /\ copyCycles <= now

\* The types of the clock hold at reset and are kept, whatever races happen.
LEMMA ClockTypesStep ==
    ASSUME Unit \in Nat \ {0}, Microseconds \in Nat \ {0}
    PROVE  /\ ClockInit => ClockTypes
           /\ ClockTypes /\ [ClockNext]_clockVars => ClockTypes'
<1> USE DEF ClockTypes, ClockTypeOK
<1>1. ClockInit => ClockTypes
  <2> SUFFICES ASSUME ClockInit PROVE ClockTypes
    OBVIOUS
  <2>1. {now, uwTick, cycles, copyMs, copyCycles, readAt, micros} \subseteq Nat /\ cycles <= now /\ copyCycles <= now
    BY DEF ClockInit
  <2>2. {inTick, reading} \subseteq BOOLEAN
    BY Zenon DEF ClockInit
  <2> QED BY <2>1, <2>2
<1>2. ASSUME ClockTypes, [ClockNext]_clockVars PROVE ClockTypes'
  <2>1. CASE Pass
    BY <1>2, <2>1 DEF Pass, reader
  <2>2. CASE Tick_Cycles
    BY <1>2, <2>2 DEF Tick_Cycles, reader
  <2>3. CASE Tick_Count
    <3>1. uwTick' \in Nat /\ UNCHANGED <<now, cycles, copyMs, copyCycles, readAt, micros, reading>> /\ inTick' = FALSE
      BY <1>2, <2>3 DEF Tick_Count, reader
    <3> QED BY <1>2, <3>1
  <2>4. CASE Read_Pair
    BY <1>2, <2>4 DEF Read_Pair, clock
  <2>5. CASE Read_Fraction
    <3> DEFINE m == copyMs * Unit + Fraction(now - copyCycles)
    <3>1. now - copyCycles \in Nat /\ copyMs * Unit \in Nat
      BY <1>2
    <3>2. Fraction(now - copyCycles) \in Nat
      BY <3>1 DEF Fraction
    <3>3. m \in Nat
      BY <3>1, <3>2
    <3> HIDE DEF m
    <3>4. m % Microseconds \in Nat
      BY <3>3
    <3>5. micros' \in Nat
      BY <2>5, <3>4 DEF Read_Fraction, m
    <3> QED BY <1>2, <2>5, <3>5 DEF Read_Fraction, clock
  <2>6. CASE UNCHANGED clockVars
    BY <1>2, <2>6 DEF clockVars, clock, reader
  <2> QED BY <1>2, <2>1, <2>2, <2>3, <2>4, <2>5, <2>6 DEF ClockNext
<1> QED BY <1>1, <1>2

\* The types of the delays hold at reset and are kept, whatever races happen.
LEMMA DelayTypesStep ==
    ASSUME MaxDelay \in Nat \ {0}
    PROVE  /\ DelayInit => DelayTypeOK
           /\ DelayTypeOK /\ [DelayNext]_delayVars => DelayTypeOK'
<1> USE DEF DelayTypeOK
<1>1. DelayInit => DelayTypeOK
  BY DEF DelayInit
<1>2. ASSUME DelayTypeOK, [DelayNext]_delayVars PROVE DelayTypeOK'
  <2> USE <1>2
  <2>0. alone' \in BOOLEAN
    BY Zenon DEF DelayNext, Ask, Start, StartZero, Nested, Asked, StoreCallback, Return, Tick, Count,
                 Called, CalledRearms, delayVars, delayHistory
  <2>1. ASSUME NEW n \in 1..MaxDelay, NEW cb \in Callbacks \union {0},
               Start(n, cb) \/ Nested(n, cb) \/ CalledRearms(n, cb)
        PROVE  DelayTypeOK'
    BY <2>0, <2>1 DEF Start, Nested, CalledRearms, Asked
  <2>2. CASE StartZero
    BY <2>0, <2>2 DEF StartZero
  <2>3. CASE StoreCallback \/ Return \/ Called
    BY <2>0, <2>3 DEF StoreCallback, Return, Called, delay, delayHistory
  <2>4. CASE Tick
    BY <2>0, <2>4 DEF Tick, Count
  <2>5. CASE UNCHANGED delayVars
    BY <2>5 DEF delayVars, delay, delayHistory
  <2> QED BY <2>1, <2>2, <2>3, <2>4, <2>5 DEF DelayNext, Ask
<1> QED BY <1>1, <1>2

\* What InjectInv does not say of the types of the injector.
InjectTypes ==
    /\ injAxes \subseteq Axes /\ claimed \subseteq Axes
    /\ delayed \in BOOLEAN /\ configured \in BOOLEAN
    /\ steps \in [Axes -> 0..MaxSteps]

\* They hold at reset and are kept.
LEMMA InjectTypesStep ==
    ASSUME MaxSteps \in Nat \ {0}
    PROVE  /\ StepsInit => InjectTypes
           /\ InjectTypes /\ [StepsNext]_stepsVars => InjectTypes'
<1>1. StepsInit => InjectTypes
  BY DEF StepsInit, InjectTypes
<1>2. ASSUME InjectTypes, [StepsNext]_stepsVars PROVE InjectTypes'
  <2> USE <1>2 DEF InjectTypes
  <2>1. ASSUME NEW S \in SUBSET Axes, OutputStep(S) PROVE InjectTypes'
    BY <2>1 DEF OutputStep
  <2>2. ASSUME NEW a \in Axes, Claim(a) \/ Release(a) PROVE InjectTypes'
    BY <2>2 DEF Claim, Release, stepsHistory
  <2>3. ASSUME NEW S \in SUBSET Axes, StepOut(S) PROVE InjectTypes'
    BY <2>3 DEF StepOut
  <2>4. CASE Compare \/ Timeout
    BY <2>4 DEF Compare, Timeout, Flag, pulse, stepsHistory
  <2>5. CASE Handler_Read \/ Handler_Call
    BY <2>5 DEF Handler_Read, Handler_Call, pulse, stepsHistory
  <2>6. CASE UNCHANGED stepsVars
    BY <2>6 DEF stepsVars, pulse, stepsHistory
  <2> QED BY <2>1, <2>2, <2>3, <2>4, <2>5, <2>6 DEF StepsNext
<1> QED BY <1>1, <1>2

\* What each service needs for its types.
ServicesInv ==
    ClockTypes /\ DelayTypeOK /\ InjectInv /\ InjectTypes /\ EncoderTypes /\ UartTypes

\* A step injected that has not come out yet is the only one that is owed, so
\* there are no more edges than steps.
LEMMA TypesFromInv == ASSUME MaxSteps \in Nat, ServicesInv PROVE TypesOK
<1> USE DEF ServicesInv
<1>1. ClockTypeOK /\ DelayTypeOK
  BY DEF ClockTypes
<1>2. StepsTypeOK
  <2>1. ASSUME NEW a \in Axes PROVE edges[a] \in 0..MaxSteps
    <3>1. steps[a] = edges[a] \/ steps[a] = edges[a] + 1
      BY <2>1 DEF InjectInv, Pending, On, Owed
    <3>2. steps[a] \in 0..MaxSteps /\ edges[a] \in Nat
      BY <2>1 DEF InjectInv, InjectTypes
    <3> QED BY <3>1, <3>2
  <2>2. edges \in [Axes -> 0..MaxSteps]
    BY <2>1 DEF InjectInv
  <2>3. /\ sr \subseteq {"compare", "timeout"} /\ irq \subseteq {"compare", "timeout"}
        /\ running \in {"no", "delay", "pulse"} /\ handler \in {"idle", "read"}
    BY DEF InjectInv
  <2>4. high \subseteq Axes /\ injOut \subseteq Axes /\ own \subseteq Axes
    BY DEF InjectInv
  <2> QED BY <2>2, <2>3, <2>4, Zenon DEF StepsTypeOK, InjectTypes
<1>3. Encoder!TypeOK
  BY DEF EncoderTypes, Encoder!TypeOK
<1>4. Uart!TypeOK
  <2>1. {udis, uif, txBusy, rxBusy, reads} \subseteq BOOLEAN
    BY Zenon DEF UartTypes, UartBooleans
  <2>2. /\ cnt \in 0..Period - 1 /\ mode \in {"tx", "rx"} /\ out \in {0, 1} /\ bitCount \in -1..Bits
        /\ uartAt \in Places /\ rxData \in Seq(Uart!Bytes) /\ got \in Seq(Uart!Bytes)
    BY DEF UartTypes, TimerTypes, BufferTypes, Bit
  <2> QED BY <2>1, <2>2 DEF Uart!TypeOK, Places
<1> QED BY <1>1, <1>2, <1>3, <1>4 DEF TypesOK

\* Timers, counters, buffers and pins keep their ranges: no count of the delay
\* falls below zero, the microseconds fit the register, no more edges come out
\* than steps were asked for, the timestamps fit their width, and a byte of the
\* line never has more bits than a byte.
THEOREM ServiceTypesHold ==
    ASSUME Sizes, InjectRaces = {}
    PROVE  Spec => []TypesOK
<1>1. /\ Unit \in Nat \ {0} /\ Microseconds \in Nat \ {0}
      /\ MaxDelay \in Nat \ {0} /\ MaxSteps \in Nat \ {0} /\ MaxSteps \in Nat
  BY TimesAssumption DEF TimesAssumption
<1>2. Init => ServicesInv
  BY <1>1, ClockTypesStep, DelayTypesStep, InjectInit, InjectTypesStep, EncoderInit, UartTypesInit
     DEF Init, ServicesInv
<1>3. ServicesInv /\ [Next]_vars => ServicesInv'
  <2> SUFFICES ASSUME ServicesInv, [Next]_vars PROVE ServicesInv'
    OBVIOUS
  <2>1. /\ [ClockNext]_clockVars /\ [DelayNext]_delayVars /\ [StepsNext]_stepsVars
        /\ [Encoder!Next]_Encoder!vars /\ [Uart!Next]_Uart!vars
    BY ServiceSteps
  <2> QED BY <1>1, <2>1, ClockTypesStep, DelayTypesStep, InjectStep, InjectTypesStep,
             EncoderTypesStep, UartTypesStep DEF ServicesInv
<1>4. ServicesInv => TypesOK
  BY <1>1, TypesFromInv
<1> QED BY <1>2, <1>3, <1>4, PTL DEF Spec
=============================================================================
