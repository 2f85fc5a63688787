---------------------------- MODULE DelayService ----------------------------
(***************************************************************************)
(* hal.delay_ms of src/Src/driver.c: one millisecond counter and one       *)
(* callback, written by driver_delay in the foreground and counted down by *)
(* the system tick, which preempts it.  A callback is a number, 0 is NULL. *)
(* A definition named Bad_X is X with a mistake the properties must        *)
(* notice; no action uses it.                                              *)
(***************************************************************************)
EXTENDS Naturals

CONSTANTS
    MaxDelay,    \* longest delay asked for
    Callbacks,   \* the callbacks
    DelayRaces   \* the interleavings nothing in the code rules out that are admitted

(***************************************************************************)
(* The interleavings that break it, excluded unless in DelayRaces:         *)
(*   tick_in_arm  the counter reaches 0 between the stores of the counter  *)
(*                and of the callback in driver_delay;                     *)
(*   supersede    a delay is asked for when the callback of another one is *)
(*                still to come, or has been lost to one of the others;    *)
(*   nested       a delay is asked for in the loop of a blocking one;      *)
(*   rearm        a callback asks for the next delay.                      *)
(***************************************************************************)
VARIABLES
    ms, callback,    \* delay.ms, delay.callback
    pc, arg,         \* where the foreground is, the callback it is to store
    isr,             \* where the tick is: the callback it runs, or 0
    (* history *)
    asked, passed,   \* ticks asked for last, and gone by since
    waiting,         \* the callback that is to come, or 0
    alone            \* none of the races has met the delay asked for last

delay   == <<ms, callback>>
delayHistory == <<asked, passed, waiting, alone>>
delayVars    == <<delay, pc, arg, isr, delayHistory>>

\* The counter starts at 1.
DelayInit ==
    /\ ms = 1 /\ callback = 0
    /\ pc = "idle" /\ arg = 0 /\ isr = 0
    /\ asked = 0 /\ passed = 0 /\ waiting = 0 /\ alone = TRUE

-----------------------------------------------------------------------------
(* driver_delay                                                             *)

Foreground == isr = 0

Asked(n, cb, first) ==
    ms' = n /\ asked' = n /\ passed' = 0 /\ waiting' = cb /\ alone' = first

Supersedes == waiting # 0 => "supersede" \in DelayRaces

Start(n, cb) ==
    /\ Foreground /\ pc = "idle" /\ Supersedes
    /\ Asked(n, cb, waiting = 0) /\ arg' = cb /\ pc' = "store"
    /\ UNCHANGED <<callback, isr>>

StoreCallback ==
    /\ Foreground /\ pc \in {"store", "nested"}
    /\ callback' = arg
    /\ pc' = IF pc = "store" /\ arg # 0 THEN "idle" ELSE "wait"
    /\ arg' = 0
    /\ UNCHANGED <<ms, isr, delayHistory>>

\* A delay of 0 calls the callback at once.
StartZero ==
    /\ Foreground /\ pc = "idle" /\ Supersedes
    /\ ms' = 0 /\ callback' = 0 /\ waiting' = 0
    /\ UNCHANGED <<pc, arg, isr, asked, passed, alone>>

\* grbl.on_execute_delay asks for a delay with a callback.
Nested(n, cb) ==
    /\ Foreground /\ pc = "wait" /\ ms > 0 /\ Supersedes /\ "nested" \in DelayRaces
    /\ Asked(n, cb, FALSE) /\ arg' = cb /\ pc' = "nested"
    /\ UNCHANGED <<callback, isr>>

Bad_Return ==
    /\ Foreground /\ pc = "wait" /\ ms <= 1
    /\ pc' = "idle"
    /\ UNCHANGED <<delay, arg, isr, delayHistory>>

Return ==
    /\ Foreground /\ pc = "wait" /\ ms = 0
    /\ pc' = "idle"
    /\ UNCHANGED <<delay, arg, isr, delayHistory>>

-----------------------------------------------------------------------------
(* Driver_IncTick                                                           *)

RunsOutInArm == ms = 1 /\ pc \in {"store", "nested"} /\ arg # 0

\* The counter stays at zero or wraps; cb is called when it gets there.
Count(zero, cb) ==
    /\ isr = 0
    /\ RunsOutInArm => "tick_in_arm" \in DelayRaces
    /\ alone' = (alone /\ ~RunsOutInArm)
    /\ ms' = IF ms > 0 THEN ms - 1 ELSE zero
    /\ isr' = IF ms = 1 THEN cb ELSE 0
    /\ passed' = IF passed <= asked THEN passed + 1 ELSE passed
    /\ UNCHANGED <<callback, pc, arg, asked, waiting>>

\* Mistakes: 0 is counted down as well and wraps; the counter is compared
\* with 0 before it is decremented.
Bad_Tick          == Count(MaxDelay + 1, callback)
Bad_PostDecrement == Count(0, 0)

Tick == Count(0, callback)

\* The callback runs, and is forgotten when it has returned.
Called ==
    /\ isr # 0 /\ isr' = 0 /\ callback' = 0
    /\ waiting' = IF waiting = isr THEN 0 ELSE waiting
    /\ UNCHANGED <<ms, pc, arg, asked, passed, alone>>

\* The same when the callback asks for another delay.
CalledRearms(n, cb) ==
    /\ isr # 0 /\ isr' = 0 /\ callback' = 0 /\ "rearm" \in DelayRaces
    /\ Asked(n, cb, FALSE)
    /\ UNCHANGED <<pc, arg>>

-----------------------------------------------------------------------------
Ask ==
    \/ \E n \in 1..MaxDelay, cb \in Callbacks \union {0} : Start(n, cb)
    \/ StartZero
    \/ \E n \in 1..MaxDelay, cb \in Callbacks : Nested(n, cb)

DelayNext ==
    \/ Ask \/ StoreCallback \/ Return \/ Tick \/ Called
    \/ \E n \in 1..MaxDelay, cb \in Callbacks : CalledRearms(n, cb)

DelaySpec == DelayInit /\ [][DelayNext]_delayVars

\* The tick comes, what it runs returns, and the foreground goes on.
FairSpec == DelaySpec /\ WF_delayVars(Tick) /\ WF_delayVars(Called) /\ WF_delayVars(StoreCallback) /\ WF_delayVars(Return)

-----------------------------------------------------------------------------
DelayTypeOK ==
    /\ ms \in 0..MaxDelay
    /\ {callback, arg, isr, waiting} \subseteq Callbacks \union {0}
    /\ pc \in {"idle", "store", "wait", "nested"}
    /\ asked \in 0..MaxDelay /\ passed \in 0..MaxDelay + 1
    /\ alone \in BOOLEAN

\* What the tick calls is what was asked for last and not called since, even
\* when a callback asks for the next delay (which then comes without a
\* callback), a blocking delay is overtaken by a delay asked for in its loop,
\* or the counter runs out before the callback is stored.  Unless one of the
\* races has met the delay it is called at the tick that completes it, and a
\* blocking delay is not left before the ticks asked for have gone by.
OnTime ==
    [][/\ isr = 0 /\ isr' # 0 => isr' = waiting /\ (alone => passed' = asked)
       /\ alone /\ pc = "wait" /\ pc' = "idle" => passed >= asked]_delayVars

\* Every callback asked for is called, unless one of the races has met its
\* delay: the two stores of driver_delay, the tick between them included, do
\* not lose it.
CallbackComes ==
    \A cb \in Callbacks : waiting = cb /\ alone ~> waiting = 0 \/ ~alone
=============================================================================
