------------------------------ MODULE StepTimer ------------------------------
(***************************************************************************)
(* The step pulse generator of src/Src/driver.c: a timer that counts down, *)
(* its update event (the next step is due), two compare events (end of the *)
(* pulse, end of the direction delay) and the one interrupt handler for    *)
(* the three.  Time is counted in timer ticks.  The handler has the        *)
(* highest priority, but it is entered late and takes its time: ticks go   *)
(* by before it, before the pulse is output, and in the rest of the        *)
(* callback.  The core's calls are made in the callback or in a context    *)
(* the handler preempts.  One axis is followed; another one stands for the *)
(* rest.  A definition named Bad_X is X with a mistake the properties must *)
(* notice; no action uses it.                                              *)
(***************************************************************************)
EXTENDS Integers

CONSTANTS
    TOff,      \* t_off: from pulse on to pulse off
    TOffMin,   \* t_off_min: least time from pulse off to the next update
    TOn,       \* t_on: from direction change to pulse on; 0 selects stepperPulseStart
    MinPeriod, \* t_min_period
    Limit,     \* 2^20: periods from here on are cut
    Periods,   \* the values of cycles_per_tick the core asks for
    WakeUp,    \* the first period after stepperWakeUp
    Entry,     \* bound: ticks until the handler is entered
    Output,    \* bound: ticks from there until the callback outputs the step
    Rest,      \* bound: ticks from there until the callback returns
    Races      \* the interleavings nothing in the code rules out that are admitted

(***************************************************************************)
(* The interleavings that break the generator, excluded unless in Races:   *)
(*   idle_preempted  the handler is called for between the load and the    *)
(*                   store of DIER in stepperGoIdle;                       *)
(*   idle_overdue    stepperGoIdle is called when the next update is       *)
(*                   already flagged;                                      *)
(*   clear_in_delay  stepperGoIdle clears the signals when a delayed pulse *)
(*                   is still to come;                                     *)
(*   wake_in_pulse   stepperWakeUp is called before the pulse has ended;   *)
(*   delay_overdue   a delayed pulse is started when the next update is    *)
(*                   already flagged.                                      *)
(***************************************************************************)
AllRaces == {"idle_preempted", "idle_overdue", "clear_in_delay", "wake_in_pulse", "delay_overdue"}

ASSUME TimesAssumption ==
    /\ TOff \in Nat \ {0} /\ TOffMin \in Nat \ {0} /\ TOn \in Nat
    /\ MinPeriod \in Nat \ {0} /\ Limit \in Nat \ {0} /\ WakeUp \in Nat \ {0}
    /\ Periods \subseteq Nat
ASSUME LatencyAssumption == Entry \in Nat /\ Output \in Nat /\ Rest \in Nat
ASSUME RacesAssumption   == Races \subseteq AllRaces

VARIABLES
    cnt, arr, preload,   \* counter, period in use and the one after the next update
    ccr1, ccr2,          \* compare values: pulse off, pulse on after the delay
    sr, dier,            \* event flags and interrupt enables
    pend,                \* the interrupt is pending in the NVIC
    step, dir,           \* the step and the direction pin of the axis
    isr,                 \* where the callback is
    pc, reg,             \* where the context below the handler is, its copy of DIER
    (* history *)
    age,                 \* ticks since the handler should have gone on
    high, low, dirAge,   \* ticks since the last edges, up to the times that matter
    owed,                \* steps asked for that have not become an edge yet
    due                  \* an update has come that no callback has served

timer   == <<cnt, arr, preload>>
compare == <<ccr1, ccr2>>
nvic    == <<pend, isr, age>>
pins    == <<step, dir>>
ages    == <<high, low, dirAge>>
caller  == <<pc, reg>>
vars    == <<timer, compare, sr, dier, nvic, pins, caller, ages, owed, due>>

Flags == {"U", "CC1", "CC2"}     \* UIF, CC1IF, CC2IF, and UIE, CC1IE, CC2IE

TOnOffMin  == TOff + TOffMin             \* t_on_off_min
TDlyOffMin == TOn + TOnOffMin            \* t_dly_off_min

Larger(a, b)  == IF a >= b THEN a ELSE b
Smaller(a, b) == IF a <= b THEN a ELSE b

-----------------------------------------------------------------------------
\* The timer stands still until the first stepperWakeUp; here it runs from the
\* start, with its interrupts disabled.
Init ==
    /\ cnt = WakeUp /\ arr = WakeUp /\ preload = WakeUp /\ ccr1 = 0 /\ ccr2 = 0
    /\ sr = {} /\ dier = {} /\ pend = FALSE
    /\ step = FALSE /\ dir = FALSE
    /\ isr = "none" /\ pc = "idle" /\ reg = {}
    /\ age = 0 /\ high = 0 /\ low = TOffMin /\ dirAge = TOn
    /\ owed = 0 /\ due = FALSE

IdleWindow == {"idle_store", "idle_store_clear"}    \* DIER is loaded, not stored

\* One tick.  The update reloads the counter.  Flags are set whether enabled or
\* not; an enabled one makes the interrupt pending, and it stays so even if flag
\* or enable go away.  The latency bounds are deadlines for the handler.
Tick ==
    /\ isr = "none" /\ pend => age < Entry
    /\ isr = "output" => age < Output
    /\ isr = "rest" => age < Rest
    /\ pc \in {"wake_clear", "wake_enable"} => cnt > 0
    /\ cnt' = IF cnt = 0 THEN arr ELSE cnt - 1
    /\ arr' = IF cnt = 0 THEN preload ELSE arr
    /\ sr' = sr \union {f \in Flags : \/ f = "U" /\ cnt = 0
                                      \/ f = "CC1" /\ cnt' = ccr1
                                      \/ f = "CC2" /\ cnt' = ccr2}
    /\ pend' = (pend \/ (sr' \ sr) \intersect dier # {})
    /\ pc \in IdleWindow /\ pend' => "idle_preempted" \in Races
    /\ due' = (due \/ (cnt = 0 /\ "U" \in dier))
    /\ age' = IF isr # "none" \/ pend THEN age + 1 ELSE 0
    /\ high' = Smaller(high + 1, TOff) /\ low' = Smaller(low + 1, TOffMin)
    /\ dirAge' = Smaller(dirAge + 1, TOn)
    /\ UNCHANGED <<preload, compare, dier, isr, pins, caller, owed>>

-----------------------------------------------------------------------------
(* STEPPER_TIMER_IRQHandler, up to the callback.                            *)

Enter == isr = "none" /\ pend /\ pend' = FALSE /\ age' = 0

Fires(f) == f \in sr \intersect dier

\* _stepper_step_out: the pulse is put on and its end is scheduled.  If the next
\* update has come already, or would come too early, it is put off.
Bad_TooLate_Flag == "U" \in sr

Bad_TooLate_Count == cnt < TOnOffMin

TooLate == "U" \in sr \/ cnt < TOnOffMin

StepOut(enables, asked) ==
    /\ step' = TRUE
    /\ high' = IF step THEN high ELSE 0
    /\ owed' = asked - (IF step THEN 0 ELSE 1)
    /\ cnt' = IF TooLate THEN TOnOffMin ELSE cnt
    /\ due' = (due /\ ~TooLate)
    /\ ccr1' = cnt' - TOff
    /\ sr' = {} /\ dier' = enables \union {"CC1"}

DelayDone ==
    /\ Enter /\ Fires("CC2")
    /\ StepOut(dier \ {"CC2"}, owed)
    /\ UNCHANGED <<arr, preload, ccr2, isr, dir, caller, low, dirAge>>

Bad_PulseDone ==
    /\ Enter /\ ~Fires("CC2") /\ Fires("CC1")
    /\ dier' = dier \ {"CC1"}
    /\ step' = FALSE /\ low' = IF step THEN 0 ELSE low
    /\ cnt' = IF "U" \in sr THEN TOffMin ELSE cnt
    /\ due' = (due /\ "U" \notin sr)
    /\ sr' = {}
    /\ UNCHANGED <<arr, preload, compare, isr, dir, caller, high, dirAge, owed>>

PulseDone ==
    /\ Enter /\ ~Fires("CC2") /\ Fires("CC1")
    /\ dier' = dier \ {"CC1"}
    /\ step' = FALSE /\ low' = IF step THEN 0 ELSE low
    /\ LET late == "U" \in sr \/ cnt < TOffMin IN
        /\ cnt' = IF late THEN TOffMin ELSE cnt
        /\ due' = (due /\ ~late)
    /\ sr' = {}
    /\ UNCHANGED <<arr, preload, compare, isr, dir, caller, high, dirAge, owed>>

Bad_StepDue ==
    /\ Enter /\ ~Fires("CC2") /\ "U" \in sr
    /\ sr' = {} /\ isr' = "output" /\ due' = FALSE
    /\ UNCHANGED <<timer, compare, dier, pins, caller, ages, owed>>

\* The last branch does not look at the enable bit.
StepDue ==
    /\ Enter /\ ~Fires("CC2") /\ ~Fires("CC1") /\ "U" \in sr
    /\ sr' = {} /\ isr' = "output" /\ due' = FALSE
    /\ UNCHANGED <<timer, compare, dier, pins, caller, ages, owed>>

NothingDue ==
    /\ Enter /\ ~Fires("CC2") /\ ~Fires("CC1") /\ "U" \notin sr
    /\ UNCHANGED <<timer, compare, sr, dier, isr, pins, caller, ages, owed, due>>

-----------------------------------------------------------------------------
(* The callback: it outputs a step, then it may set the next period or stop.*)

\* turn: the axis, another one or none has changed its direction.
Turns == {"none", "axis", "other"}

DirOut(turn) ==
    /\ dir' = IF turn = "axis" THEN ~dir ELSE dir
    /\ dirAge' = IF turn = "axis" THEN 0 ELSE dirAge

Goto(from, to) == isr = from /\ isr' = to /\ age' = 0

\* stepperPulseStart and stepperPulseStartDelayed without a step to output.
NoPulse(turn) ==
    /\ Goto("output", "rest") /\ DirOut(turn)
    /\ UNCHANGED <<timer, compare, sr, dier, pend, step, caller, high, low, owed, due>>

Bad_PulseStart(turn) ==
    /\ Goto("output", "rest") /\ DirOut(turn)
    /\ StepOut(dier, owed + 1)
    /\ pend' = (pend /\ ~TooLate)
    /\ UNCHANGED <<arr, preload, ccr2, caller, low>>

PulseStart(turn) ==
    /\ Goto("output", "rest") /\ DirOut(turn)
    /\ TOn = 0 \/ turn # "axis"
    /\ StepOut(dier, owed + 1)
    /\ pend' = (pend /\ ~TooLate)
    /\ UNCHANGED <<arr, preload, ccr2, caller, low>>

Bad_PulseStartDelayed(turn) ==
    /\ Goto("output", "rest") /\ DirOut(turn)
    /\ TOn > 0 /\ turn # "none"
    /\ owed' = owed + 1
    /\ cnt' = Larger(cnt, TDlyOffMin)
    /\ ccr2' = cnt' - TOn
    /\ sr' = {} /\ dier' = dier
    /\ UNCHANGED <<arr, preload, ccr1, pend, step, caller, high, low, due>>

\* An axis that steps has turned, this one or another.  Here an update that has
\* come is not put off.
PulseStartDelayed(turn) ==
    /\ Goto("output", "rest") /\ DirOut(turn)
    /\ TOn > 0 /\ turn # "none"
    /\ owed' = owed + 1
    /\ LET late == cnt < TDlyOffMin IN
        /\ "U" \in sr /\ ~late => "delay_overdue" \in Races
        /\ cnt' = IF late THEN TDlyOffMin ELSE cnt
        /\ due' = (due /\ ~late /\ "U" \notin sr) /\ pend' = (pend /\ ~late)
    /\ ccr2' = cnt' - TOn
    /\ sr' = {} /\ dier' = dier \union {"CC2"}
    /\ UNCHANGED <<arr, preload, ccr1, step, caller, high, low>>

CyclesPerTick(period) == IF period < Limit THEN Larger(period, MinPeriod) ELSE Limit - 1

Return(enables) == pend' = (pend \/ sr \intersect enables # {})

SetPeriod(period) ==
    /\ Goto("rest", "none") /\ Return(dier)
    /\ preload' = CyclesPerTick(period)
    /\ UNCHANGED <<cnt, arr, compare, sr, dier, pins, caller, ages, owed, due>>

\* stepperGoIdle without clearing: the pulse that is on still ends.
MayIdle == Fires("U") => "idle_overdue" \in Races

Bad_GoIdleInCallback ==
    /\ Goto("rest", "none") /\ MayIdle
    /\ dier' = {} /\ due' = FALSE /\ Return(dier')
    /\ UNCHANGED <<timer, compare, sr, pins, caller, ages, owed>>

GoIdleInCallback ==
    /\ Goto("rest", "none") /\ MayIdle
    /\ dier' = dier \ {"U"} /\ due' = FALSE /\ Return(dier')
    /\ UNCHANGED <<timer, compare, sr, pins, caller, ages, owed>>

-----------------------------------------------------------------------------
(* Calls from elsewhere.  What runs below the handler goes on only when the *)
(* interrupt is not pending; the control pin interrupt has the handler's    *)
(* own priority.                                                            *)

GoIdleInSameLevel ==
    /\ isr = "none" /\ pc = "idle" /\ MayIdle
    /\ dier' = dier \ {"U"} /\ due' = FALSE
    /\ UNCHANGED <<timer, compare, sr, nvic, pins, caller, ages, owed>>

Below(from, to) == isr = "none" /\ ~pend /\ pc = from /\ pc' = to

GoIdle_Load ==
    /\ \E to \in IdleWindow : Below("idle", to)
    /\ reg' = dier
    /\ UNCHANGED <<timer, compare, sr, dier, nvic, pins, ages, owed, due>>

GoIdle_Store ==
    /\ Below("idle_store", "idle") \/ Below("idle_store_clear", "idle_clear")
    /\ dier' = reg \ {"U"} /\ reg' = {} /\ due' = FALSE
    /\ UNCHANGED <<timer, compare, sr, nvic, pins, ages, owed>>

GoIdle_Clear ==
    /\ Below("idle_clear", "idle")
    /\ "CC2" \in dier => "clear_in_delay" \in Races
    /\ step' = FALSE /\ low' = IF step THEN 0 ELSE low
    /\ dir' = FALSE /\ dirAge' = IF dir THEN 0 ELSE dirAge
    /\ UNCHANGED <<timer, compare, sr, dier, nvic, reg, high, owed, due>>

\* The core wakes the steppers up when they are idle.
WakeUp_Restart ==
    /\ Below("idle", "wake_clear") /\ "U" \notin dier
    /\ dier # {} => "wake_in_pulse" \in Races
    /\ cnt' = WakeUp /\ arr' = WakeUp /\ preload' = WakeUp
    /\ sr' = sr \union {"U"}
    /\ UNCHANGED <<compare, dier, nvic, pins, reg, ages, owed, due>>

WakeUp_Clear ==
    /\ Below("wake_clear", "wake_enable") /\ sr' = {}
    /\ UNCHANGED <<timer, compare, dier, nvic, pins, reg, ages, owed, due>>

WakeUp_Enable ==
    /\ Below("wake_enable", "idle") /\ dier' = {"U"}
    /\ pend' = (sr \intersect dier' # {})
    /\ UNCHANGED <<timer, compare, sr, isr, age, pins, reg, ages, owed, due>>

-----------------------------------------------------------------------------
Handler == DelayDone \/ PulseDone \/ StepDue \/ NothingDue

Callback ==
    \/ \E turn \in Turns : NoPulse(turn) \/ PulseStart(turn) \/ PulseStartDelayed(turn)
    \/ \E period \in Periods : SetPeriod(period)
    \/ GoIdleInCallback

Call   == GoIdleInSameLevel \/ GoIdle_Load \/ WakeUp_Restart
Finish == GoIdle_Store \/ GoIdle_Clear \/ WakeUp_Clear \/ WakeUp_Enable

Next == Tick \/ Handler \/ Callback \/ Call \/ Finish

Spec == Init /\ [][Next]_vars

\* Time goes on, the handler does what it is entered for, calls are finished.
FairSpec ==
    /\ Spec
    /\ SF_vars(Tick) /\ WF_vars(Handler) /\ WF_vars(Callback) /\ WF_vars(Finish)

-----------------------------------------------------------------------------
(* Properties.                                                              *)

\* Every variable keeps its type.
TypeOK ==
    /\ cnt \in Nat /\ arr \in Nat /\ preload \in Nat /\ ccr1 \in Nat /\ ccr2 \in Nat
    /\ sr \subseteq Flags /\ dier \subseteq Flags /\ reg \subseteq Flags
    /\ pend \in BOOLEAN /\ step \in BOOLEAN /\ dir \in BOOLEAN /\ due \in BOOLEAN
    /\ isr \in {"none", "output", "rest"}
    /\ pc \in IdleWindow \union {"idle", "idle_clear", "wake_clear", "wake_enable"}
    /\ age \in Nat /\ high \in 0..TOff /\ low \in 0..TOffMin /\ dirAge \in 0..TOn
    /\ owed \in Nat

\* The handler ends no pulse before its time, however late it is entered, and
\* between two pulses the pin is off for at least t_off_min, also when the core
\* asks for steps faster than they can be output.
PulseAndPauseLast ==
    [][/\ PulseDone /\ step => high = TOff
       /\ ~step /\ step' => low = TOffMin]_vars

\* Every step the core asks for becomes an edge of its own: no pulse is started
\* while one is on or still to come.
EveryStepIsAnEdge == owed = (IF "CC2" \in dier THEN 1 ELSE 0)

\* With the delay in use, the direction is stable for t_on before an edge.
DirectionSettles == [][(~step /\ step') => dirAge' = TOn]_vars

\* An update that is cleared without a callback is put off, never dropped, except
\* by a delayed pulse that is started when it has come already (delay_overdue).
NoUpdateDropped == due => "U" \in sr

\* A pulse that is on has its end scheduled.
PulseWillEnd == step => "CC1" \in dier

\* The callback runs only while stepper interrupts are enabled.
NoCallbackWhenIdle == [][(isr = "none" /\ isr' = "output") => "U" \in dier]_vars

\* Every step that waits for the direction to settle is output in the end.
StepComesOut == (owed > 0) ~> (owed = 0)
=============================================================================
