----------------------------- MODULE StepInject -----------------------------
(***************************************************************************)
(* Steps injected beside the motion: stepperOutputStep, the claiming of    *)
(* motors and what the stepper interrupt leaves alone (src/Src/driver.c),  *)
(* over a one shot timer of the timer service and the handler all timers   *)
(* share (src/Src/timers.c).  The timer first reaches the compare value    *)
(* that starts a delayed pulse, then zero, which ends it.                  *)
(* Bad_X is X with a mistake; no action uses it.                           *)
(***************************************************************************)
EXTENDS Integers, FiniteSets

CONSTANTS
    Axes,
    MaxSteps,     \* bound on the steps injected into an axis
    InjectRaces   \* the races nothing in the code rules out that are admitted

(***************************************************************************)
(*   overlap        a step is injected while the pulse of another is on;   *)
(*   flag_lost      an event comes between the load of SR and the store    *)
(*                  that clears the flags, and is cleared with them;       *)
(*   both_flagged   the handler is so late that the pulse is over before   *)
(*                  it starts: it ends it first and starts it then;        *)
(*   stale_delay    the delay has been set since the timer was configured, *)
(*                  which goes by the one before;                          *)
(*   release        a motor is released while a pulse of another that is   *)
(*                  not claimed is on;                                     *)
(*   stepping       a step is injected into an axis whose own pulse is on. *)
(***************************************************************************)

VARIABLES
    high,                   \* the axes whose step pin is active
    injOut, injAxes, claimed,   \* step_pulse.inject: out, axes, claimed
    delayed, configured,    \* step_pulse.delay > 0; the timer has its on callback
    running, sr,            \* the timer: counting, or at a compare value; its flags
    irq,                    \* the flags the handler found
    handler,                \* where the handler is
    (* history *)
    steps, edges,           \* steps injected, and edges that came of it
    own                     \* axes whose pulse of the motion is on

pulse        == <<high, injOut, injAxes, claimed>>
timer        == <<running, sr>>
interrupt    == <<irq, handler>>
stepsHistory == <<steps, edges, own>>
stepsVars    == <<pulse, delayed, configured, timer, interrupt, stepsHistory>>

StepsInit ==
    /\ high = {} /\ injOut = {} /\ injAxes = {} /\ claimed = {}
    /\ delayed \in BOOLEAN /\ configured \in BOOLEAN
    /\ delayed # configured => "stale_delay" \in InjectRaces
    /\ running = "no" /\ sr = {} /\ irq = {} /\ handler = "idle"
    /\ steps = [a \in Axes |-> 0] /\ edges = [a \in Axes |-> 0] /\ own = {}

Quiet == running = "no" /\ sr = {} /\ handler = "idle"

Rise(S) == edges' = [a \in Axes |-> IF a \in S \ high THEN edges[a] + 1 ELSE edges[a]]

\* stepperOutputStep and timerStart.  The timer that runs goes on counting.
OutputStep(S) ==
    /\ handler = "idle"
    /\ ~Quiet => "overlap" \in InjectRaces
    /\ own \cap S # {} => "stepping" \in InjectRaces
    /\ \A a \in S : steps[a] < MaxSteps
    /\ steps' = [a \in Axes |-> IF a \in S THEN steps[a] + 1 ELSE steps[a]]
    /\ injOut' = S /\ injAxes' = claimed \union S
    /\ IF delayed THEN UNCHANGED <<high, edges>> ELSE high' = high \union S /\ Rise(S)
    /\ IF running # "no" THEN UNCHANGED timer
       ELSE running' = (IF configured THEN "delay" ELSE "pulse") /\ sr' = {}
    /\ UNCHANGED <<claimed, delayed, configured, interrupt, own>>

\* stepperClaimMotor.
Claim(a) ==
    /\ handler = "idle" /\ claimed' = claimed \union {a}
    /\ UNCHANGED <<high, injOut, injAxes, delayed, configured, timer, interrupt, stepsHistory>>

Release(a) ==
    /\ handler = "idle"
    /\ injOut \ (claimed \ {a}) # {} => "release" \in InjectRaces
    /\ claimed' = claimed \ {a} /\ injAxes' = claimed'
    /\ UNCHANGED <<high, injOut, delayed, configured, timer, interrupt, stepsHistory>>

\* stepper_step_out: at the start of a pulse of the motion, and at its end.
Bad_StepOut(S) ==
    /\ S = {} \/ own = {}
    /\ high' = S /\ own' = S
    /\ UNCHANGED <<injOut, injAxes, claimed, delayed, configured, timer, interrupt, steps, edges>>

StepOut(S) ==
    /\ S = {} \/ own = {}
    /\ high' = (high \cap injAxes) \union (S \ injAxes)
    /\ own' = (own \cap injAxes) \union (S \ injAxes)
    /\ UNCHANGED <<injOut, injAxes, claimed, delayed, configured, timer, interrupt, steps, edges>>

-----------------------------------------------------------------------------
(* The timer and the handler of its interrupt.                              *)

Flag(f) ==
    /\ handler # "idle" => "flag_lost" \in InjectRaces
    /\ sr' = sr \union {f}
    /\ UNCHANGED <<pulse, delayed, configured, interrupt, stepsHistory>>

Compare == running = "delay" /\ running' = "pulse" /\ Flag("compare")

Timeout ==
    /\ running = "pulse" /\ running' = "no"
    /\ (handler = "idle" /\ sr # {}) => "both_flagged" \in InjectRaces
    /\ Flag("timeout")

Handler_Read ==
    /\ handler = "idle" /\ sr # {}
    /\ irq' = sr /\ handler' = "read"
    /\ UNCHANGED <<pulse, delayed, configured, timer, stepsHistory>>

\* The flags are cleared and the callbacks called: step_inject_off, which
\* forgets the axes, and step_inject_on.
AfterTimeout == IF "timeout" \in irq THEN {} ELSE injOut

Bad_Handler_Call ==
    /\ handler = "read" /\ handler' = "idle"
    /\ sr' = {} /\ irq' = {}
    /\ injOut' = AfterTimeout
    /\ injAxes' = IF "timeout" \in irq THEN claimed ELSE injAxes
    /\ LET low == IF "timeout" \in irq THEN high \ injOut' ELSE high IN
         /\ high' = IF "compare" \in irq THEN low \union AfterTimeout ELSE low
         /\ IF "compare" \in irq THEN Rise(AfterTimeout) ELSE UNCHANGED edges
    /\ UNCHANGED <<claimed, delayed, configured, running, steps, own>>

Handler_Call ==
    /\ handler = "read" /\ handler' = "idle"
    /\ sr' = {} /\ irq' = {}
    /\ injOut' = AfterTimeout
    /\ injAxes' = IF "timeout" \in irq THEN claimed ELSE injAxes
    /\ LET low == IF "timeout" \in irq THEN high \ injOut ELSE high IN
         /\ high' = IF "compare" \in irq THEN low \union AfterTimeout ELSE low
         /\ IF "compare" \in irq THEN Rise(AfterTimeout) ELSE UNCHANGED edges
    /\ UNCHANGED <<claimed, delayed, configured, running, steps, own>>

StepsNext ==
    \/ \E S \in (SUBSET Axes) \ {{}} : OutputStep(S)
    \/ \E a \in Axes : Claim(a) \/ Release(a)
    \/ \E S \in SUBSET Axes : StepOut(S)
    \/ Compare \/ Timeout \/ Handler_Read \/ Handler_Call

StepsSpec == StepsInit /\ [][StepsNext]_stepsVars

-----------------------------------------------------------------------------
StepsTypeOK ==
    /\ {high, injOut, injAxes, claimed, own} \subseteq SUBSET Axes
    /\ {delayed, configured} \subseteq BOOLEAN
    /\ running \in {"no", "delay", "pulse"} /\ handler \in {"idle", "read"}
    /\ {sr, irq} \subseteq SUBSET {"compare", "timeout"}
    /\ steps \in [Axes -> 0..MaxSteps] /\ edges \in [Axes -> 0..MaxSteps]

\* Every step injected has come out as an edge of its own once the timer is
\* quiet, whatever motors are claimed and whatever steps the motion makes of
\* the other axes meanwhile.
EveryInjectionIsAnEdge == Quiet => edges = steps

\* A pin is active only for the pulse of the motion or the injected one, and an
\* injected pulse that has started lasts until the timer has run out.
PinsFollowTheirOwner ==
    /\ high \subseteq own \union injOut
    /\ Quiet => high = own
    /\ running = "pulse" /\ sr = {} /\ handler = "idle" => injOut \subseteq high
=============================================================================
