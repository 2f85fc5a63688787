------------------------------ MODULE InputPins ------------------------------
(***************************************************************************)
(* The input pins that share one EXTI interrupt (EXTI9_5 or EXTI15_10 in   *)
(* src/Src/driver.c): edges, the handler that serves limit ("core") and    *)
(* auxiliary pins, the debounce tasks, and the foreground calls that       *)
(* enable and disable pin interrupts, in driver.c and src/Src/ioports.c.   *)
(* An edge of an enabled pin is latched; the handler preempts the          *)
(* foreground, where the core runs the delayed tasks.  A definition named  *)
(* Bad_X is X with a mistake the properties must notice; no action uses it.*)
(***************************************************************************)
EXTENDS Integers, Sequences

CONSTANTS
    Pins,        \* the pins of the interrupt, by number
    LimitInputs, \* the limit pins among them, in the order of limit_inputs
    Inverted,    \* the limits in settings.limits.invert
    PullupOff,   \* the limits in settings.limits.disable_pullup
    Debounced,   \* pins with mode.debounce
    Mode,        \* Mode[p]: the irq_mode the auxiliary pin p has a handler for
    MaxTasks,    \* size of the core's pool of delayed tasks
    Races        \* the interleavings nothing in the code rules out that are admitted

(***************************************************************************)
(* The interleavings that break it, excluded unless in Races:              *)
(*   together             two pins are latched that are not both limits    *)
(*                        that keep their level until the handler looks;   *)
(*   imr_preempted        a debounced pin is latched between the load and  *)
(*                        the store of IMR1 in the foreground;             *)
(*   late_change          a pin changes after its debounce task has read   *)
(*                        it and before the task has unmasked it;          *)
(*   disable_in_debounce, enable_in_debounce                               *)
(*                        a pin is disabled or enabled when its debounce   *)
(*                        task is still to come, or is added then;         *)
(*   wait_edge            an edge is awaited other than the one the pin's  *)
(*                        handler is for, or its debounce task looks for.  *)
(***************************************************************************)
AllRaces == {"together", "imr_preempted", "late_change", "disable_in_debounce",
             "enable_in_debounce", "wait_edge"}

Core   == {LimitInputs[i] : i \in DOMAIN LimitInputs}
Aux    == Pins \ Core       \* the others are auxiliary
Modes  == {"none", "rising", "falling", "change"}

ASSUME PinsAssumption ==
    /\ Pins \subseteq Nat /\ LimitInputs \in Seq(Pins)
    /\ Inverted \subseteq Core /\ PullupOff \subseteq Core /\ Debounced \subseteq Aux
    /\ Mode \in [Aux -> Modes \ {"none"}]
ASSUME TasksAssumption == MaxTasks \in Nat
ASSUME RacesAssumption == Races \subseteq AllRaces

VARIABLES
    high,      \* pins that are high
    pr,        \* EXTI PR1: pins with a latched edge
    imr,       \* EXTI IMR1: pins whose edges are latched
    tasks,     \* the delayed tasks of the pins, oldest first
    isr, ifg,  \* where the handler is, the pins it has taken
    todo,      \* the foreground's accesses to IMR1 to come
    loaded, reg, \* whether the first of them has loaded it, and what
    await,     \* the pin and edge wait_on_input waits for
    event,     \* the bit of that pin in event_bits
    (* history *)
    want,      \* pins whose interrupt was asked for and not revoked
    owed       \* pins with an edge to be told of that nobody has been told of

core == <<isr, ifg>>
imr1 == <<loaded, reg>>
fg   == <<todo, imr1, await>>
vars == <<high, pr, imr, tasks, core, fg, event, want, owed>>

NoPin == [pin |-> -1, edge |-> "none"]

\* settings_changed chooses the edge of a limit by disable_pullup ^ invert.
LimitMode(p) == IF (p \in PullupOff) # (p \in Inverted) THEN "falling" ELSE "rising"

\* input->mode.irq_mode; an auxiliary pin has one while it has a handler.
IrqMode(p) == IF p \in Core THEN LimitMode(p) ELSE IF p \in want THEN Mode[p] ELSE "none"

\* The edges selected in RTSR1 and FTSR1.
Trigger(p) == IF await.pin = p THEN await.edge ELSE IrqMode(p)

Selects(mode, rise) == mode = "change" \/ mode = (IF rise THEN "rising" ELSE "falling")

HasTask(p) == \E i \in DOMAIN tasks : tasks[i].pin = p

Init ==
    /\ high \in SUBSET Pins
    /\ pr = {} /\ imr = {} /\ tasks = <<>> /\ isr = "none" /\ ifg = {}
    /\ todo = <<>> /\ loaded = FALSE /\ reg = {} /\ await = NoPin /\ event = FALSE
    /\ want = {} /\ owed = {}

-----------------------------------------------------------------------------
(* The pins and the task pool, which are not the program's.                 *)

\* What the foreground does next to IMR1.
Doing(op, p) == todo # <<>> /\ Head(todo) = [op |-> op, pin |-> p]

\* Somebody waits for the edges of p and has enabled its interrupt.
Armed(p) == p \in want \/ (await.pin = p /\ ~Doing("enable", p))

\* limitsGetState: the limits that are tripped, by invert alone.
Tripped == {p \in Core : (p \in high) # (p \in Inverted)}

\* Somebody is to be told of such an edge of p: a limit trips, or the handler or
\* who waits for the pin has asked for it.
Wanted(p, rise) ==
    IF p \in Core THEN rise # (p \in Inverted)
    ELSE \/ p \in want /\ Selects(Mode[p], rise)
         \/ await.pin = p /\ Selects(await.edge, rise)

\* core_pin_debounce and aux_pin_debounce go on if the level is that of the edge.
Holds(p) == IrqMode(p) = "change" \/ (p \in high) = (IrqMode(p) # "falling")
Steady   == {p \in Core : Holds(p)}

\* Pins that are served by the same call of the handler.
Together == {s \in {pr, IF isr = "core" THEN ifg ELSE {}} : \E p, q \in s : p # q}

Latch(p) ==
    /\ pr' = pr \union {p}
    /\ p \in Debounced /\ loaded => "imr_preempted" \in Races
    /\ p \in Debounced /\ Doing("disable", p) => "disable_in_debounce" \in Races
    /\ p \in Debounced /\ Doing("enable", p)  => "enable_in_debounce" \in Races

Change(p) ==
    /\ high' = IF p \in high THEN high \ {p} ELSE high \union {p}
    /\ Doing("unmask", p) => "late_change" \in Races
    /\ IF Selects(Trigger(p), p \notin high) /\ p \in imr THEN Latch(p) ELSE UNCHANGED pr
    /\ owed' = IF Armed(p) /\ Wanted(p, p \notin high) THEN owed \union {p} ELSE owed \ {p}
    /\ UNCHANGED <<imr, tasks, core, fg, event, want>>
    /\ (\A s \in Together : s \subseteq Steady)' \/ "together" \in Races

\* The pool is shared with the rest of the program: a task may also be refused
\* when there is room for it here, and the pin is served at once then.
AddTask(fn, p) == Len(tasks) < MaxTasks /\ tasks' = Append(tasks, [fn |-> fn, pin |-> p])

-----------------------------------------------------------------------------
(* The handler.                                                             *)

Enter ==
    /\ isr = "none" /\ pr \intersect imr # {}
    /\ ifg' = pr /\ pr' = {} /\ isr' = "core"
    /\ UNCHANGED <<high, imr, tasks, fg, event, want, owed>>

Lowest(S) == CHOOSE p \in S : \A q \in S : p <= q

\* core_pin_debounce passes the state of all limits on, unless none is tripped.
CoreReport(p) ==
    owed' = IF p \in Core /\ Holds(p) /\ Tripped # {} THEN owed \ Tripped ELSE owed

IoportsEvent(p) == owed' = owed \ {p} /\ event' = (event \/ await.pin = p)

CorePinIrq ==
    /\ isr = "core" /\ isr' = "aux"
    /\ IF ifg \intersect Core = {} THEN UNCHANGED <<imr, tasks, owed>>
       ELSE LET p == Lowest(ifg) IN
            \/ /\ p \in Debounced /\ AddTask("core", p)
               /\ imr' = imr \ {p} /\ UNCHANGED owed
            \/ CoreReport(p) /\ imr' = imr \union {p} /\ UNCHANGED tasks
    /\ UNCHANGED <<high, pr, ifg, fg, event, want>>

Bad_AuxPinIrq ==
    /\ isr = "aux" /\ isr' = "none" /\ ifg' = {}
    /\ IF ifg \intersect Aux = {} THEN UNCHANGED <<imr, tasks, owed, event>>
       ELSE LET p == Lowest(ifg \intersect Aux) IN
            \/ p \in Debounced /\ AddTask("aux", p) /\ UNCHANGED <<imr, owed, event>>
            \/ IoportsEvent(p) /\ UNCHANGED <<imr, tasks>>
    /\ UNCHANGED <<high, pr, fg, want>>

Bad_AuxPinIrq_MaskFirst ==
    /\ isr = "aux" /\ isr' = "none" /\ ifg' = {}
    /\ IF ifg \intersect Aux = {} THEN UNCHANGED <<imr, tasks, owed, event>>
       ELSE LET p == Lowest(ifg \intersect Aux) IN
            /\ imr' = IF p \in Debounced THEN imr \ {p} ELSE imr
            /\ \/ p \in Debounced /\ AddTask("aux", p) /\ UNCHANGED <<owed, event>>
               \/ IoportsEvent(p) /\ UNCHANGED tasks
    /\ UNCHANGED <<high, pr, fg, want>>

AuxPinIrq ==
    /\ isr = "aux" /\ isr' = "none" /\ ifg' = {}
    /\ IF ifg \intersect Aux = {} THEN UNCHANGED <<imr, tasks, owed, event>>
       ELSE LET p == Lowest(ifg \intersect Aux) IN
            \/ /\ p \in Debounced /\ AddTask("aux", p)
               /\ imr' = imr \ {p} /\ UNCHANGED <<owed, event>>
            \/ IoportsEvent(p) /\ UNCHANGED <<imr, tasks>>
    /\ UNCHANGED <<high, pr, fg, want>>

-----------------------------------------------------------------------------
(* The foreground, which runs when the interrupt is not pending.            *)

Foreground == isr = "none" /\ pr \intersect imr = {}
Free       == Foreground /\ todo = <<>>

Bad_RunTask ==
    /\ Free /\ tasks # <<>>
    /\ LET task == Head(tasks) p == task.pin IN
        IF task.fn = "core" THEN CoreReport(p) /\ UNCHANGED <<event, todo>>
        ELSE IF Holds(p) THEN IoportsEvent(p) /\ todo' = <<[op |-> "unmask", pin |-> p]>>
        ELSE UNCHANGED <<owed, event, todo>>
    /\ tasks' = Tail(tasks)
    /\ UNCHANGED <<high, pr, imr, core, imr1, await, want>>

\* The core runs the oldest task, at the earliest 40 ms after it was added.
RunTask ==
    /\ Free /\ tasks # <<>>
    /\ LET task == Head(tasks) p == task.pin IN
        /\ IF task.fn = "core" THEN CoreReport(p) /\ UNCHANGED event
           ELSE IF Holds(p) THEN IoportsEvent(p)
           ELSE UNCHANGED <<owed, event>>
        /\ todo' = <<[op |-> "unmask", pin |-> p]>>
    /\ tasks' = Tail(tasks)
    /\ UNCHANGED <<high, pr, imr, core, imr1, await, want>>

\* limitsEnable: one pin after the other, from the last; without the homing ones.
Bad_LimitsEnable(enabled) ==
    /\ Free
    /\ todo' = [i \in 1..(Len(LimitInputs) + 1) |->
                 LET p == IF i = 1 THEN -1 ELSE LimitInputs[Len(LimitInputs) + 2 - i] IN
                 [op |-> IF p \in enabled THEN "enable" ELSE "disable", pin |-> p]]
    /\ UNCHANGED <<high, pr, imr, tasks, core, imr1, await, event, want, owed>>

LimitsEnable(enabled) ==
    /\ Free
    /\ todo' = [i \in 1..Len(LimitInputs) |->
                 LET p == LimitInputs[Len(LimitInputs) + 1 - i] IN
                 [op |-> IF p \in enabled THEN "enable" ELSE "disable", pin |-> p]]
    /\ UNCHANGED <<high, pr, imr, tasks, core, imr1, await, event, want, owed>>

MayDisable(p) == HasTask(p) => "disable_in_debounce" \in Races
MayEnable(p)  == HasTask(p) => "enable_in_debounce" \in Races

\* gpio_irq_enable and its access to IMR1, when no other is open.
GpioIrqEnable(p, op) ==
    /\ Free /\ todo' = <<[op |-> op, pin |-> p]>>
    /\ IF op = "enable" THEN MayEnable(p) ELSE MayDisable(p)
    /\ UNCHANGED <<high, pr, imr, tasks, core, imr1, want, owed>>

\* register_interrupt_handler, also when the pin has a handler already.
Register(p) ==
    /\ p \in Aux /\ await.pin # p
    /\ GpioIrqEnable(p, "enable") /\ UNCHANGED <<await, event>>

\* With IRQ_Mode_None: without a callback the pin is disabled with interrupts off;
\* with one, gpio_irq_enable does so before.
Unregister(p) ==
    /\ p \in Aux \intersect want /\ await.pin # p
    /\ \/ GpioIrqEnable(p, "disable") /\ UNCHANGED <<await, event>>
       \/ /\ Free /\ MayDisable(p)
          /\ imr' = imr \ {p} /\ want' = want \ {p} /\ owed' = owed \ {p}
          /\ UNCHANGED <<high, pr, tasks, core, fg, event>>

\* The edge a wait may be for without losing one: the handler's, or that which the
\* debounce task takes a pin without a handler to be for.
Fits(p, edge) == IF p \in want THEN edge = Mode[p] ELSE p \in Debounced => edge = "rising"

\* wait_on_input, of a pin with or without a handler.
WaitBegin(p, edge) ==
    /\ await = NoPin /\ p \in Aux
    /\ Fits(p, edge) \/ "wait_edge" \in Races
    /\ await' = [pin |-> p, edge |-> edge] /\ event' = FALSE
    /\ GpioIrqEnable(p, "enable")

\* The event has come or the time is up: the irq_mode of the pin is set again,
\* which gives a handler its edges back, or disables the pin.
WaitEnd ==
    /\ await # NoPin
    /\ IF await.pin \in want THEN GpioIrqEnable(await.pin, "enable") /\ await' = NoPin
       ELSE GpioIrqEnable(await.pin, "disable") /\ UNCHANGED await
    /\ UNCHANGED event

-----------------------------------------------------------------------------
(* IMR1 |= bit and IMR1 &= ~bit in the foreground: a load and a store.      *)

Imr_Load ==
    /\ Foreground /\ todo # <<>> /\ ~loaded
    /\ loaded' = TRUE /\ reg' = imr
    /\ UNCHANGED <<high, pr, imr, tasks, core, todo, await, event, want, owed>>

Imr_Store ==
    /\ Foreground /\ loaded
    /\ LET op == Head(todo).op p == Head(todo).pin IN
        /\ imr' = IF op = "disable" THEN reg \ {p} ELSE reg \union {p}
        /\ want' = IF op = "disable" THEN want \ {p}
                   ELSE IF op = "enable" /\ await.pin # p THEN want \union {p} ELSE want
        /\ owed' = IF op = "disable" THEN owed \ {p} ELSE owed
        /\ await' = IF op = "disable" /\ await.pin = p THEN NoPin ELSE await
    /\ todo' = Tail(todo) /\ loaded' = FALSE /\ reg' = {}
    /\ UNCHANGED <<high, pr, tasks, core, event>>

-----------------------------------------------------------------------------
Handler == Enter \/ CorePinIrq \/ AuxPinIrq

Call ==
    \/ \E enabled \in SUBSET Core : LimitsEnable(enabled)
    \/ \E p \in Aux : Register(p) \/ Unregister(p)
    \/ \E p \in Aux, edge \in {"rising", "falling"} : WaitBegin(p, edge)
    \/ WaitEnd

Next == (\E p \in Pins : Change(p)) \/ Handler \/ RunTask \/ Call \/ Imr_Load \/ Imr_Store

Spec == Init /\ [][Next]_vars

\* The handler runs when it is called for; edges come slowly enough to leave the
\* foreground time, in which it runs the tasks and finishes what it has begun.
FairSpec ==
    /\ Spec
    /\ []<>Foreground
    /\ WF_vars(Handler) /\ SF_vars(RunTask) /\ SF_vars(Imr_Load) /\ SF_vars(Imr_Store)

-----------------------------------------------------------------------------
(* Properties.                                                              *)

Ops == [op : {"enable", "disable", "unmask"}, pin : Pins]

\* Every variable keeps its type, and the task pool its size.
TypeOK ==
    /\ high \subseteq Pins /\ pr \subseteq Pins /\ imr \subseteq Pins /\ ifg \subseteq Pins
    /\ want \subseteq Pins /\ owed \subseteq Pins /\ reg \subseteq Pins
    /\ tasks \in Seq([fn : {"core", "aux"}, pin : Pins]) /\ Len(tasks) <= MaxTasks
    /\ isr \in {"none", "core", "aux"} /\ loaded \in BOOLEAN /\ event \in BOOLEAN
    /\ todo \in Seq(Ops)
    /\ await \in {NoPin} \union [pin : Aux, edge : {"rising", "falling"}]

\* A limit that trips, and an edge of an auxiliary pin that its handler or a wait is
\* for, counts, and counts once: until somebody is told of it, it is latched, taken
\* by the handler or waits for its debounce, and for as long as it is debounced the
\* pin is masked, so that bounces are ignored.  A limit whose pull-up is disabled is
\* the exception: its interrupt comes when it is released.
EdgesCountOnce ==
    /\ \A p \in owed \ PullupOff : p \in pr \union ifg \/ HasTask(p)
    /\ \A p \in Pins : HasTask(p) => p \notin imr

\* The mask follows the use of the pins: the interrupt of a pin nobody uses any
\* more is never enabled behind its back, by a debounce task or by the restore at
\* the end of a wait, and a pin with a handler is unmasked whenever no debounce
\* of it is under way.
MaskFollowsUse ==
    /\ \A p \in imr : p \in want \/ await.pin = p
    /\ \A p \in want : p \in imr \/ HasTask(p) \/ Doing("unmask", p)

\* Whoever uses a pin is told in the end that a limit has tripped, or of the edge
\* asked for; but not for a limit whose pull-up is disabled.
EdgeIsTold == \A p \in Pins \ PullupOff : p \in owed ~> p \notin owed
=============================================================================
