--------------------------- MODULE SpindleEncoder ---------------------------
(***************************************************************************)
(* The spindle encoder of src/Src/encoders.c: a timer counts the pulses    *)
(* and interrupts at every Tics of them, a second one makes a timestamp    *)
(* together with a count of its overflows, and the foreground reads or     *)
(* resets the counters.  The handlers run before the foreground goes on.   *)
(* The counter counts up: nothing sets DIR in the mode it is used in.      *)
(* Bad_X is X with a mistake; no action uses it.                           *)
(***************************************************************************)
EXTENDS Integers

CONSTANTS
    Width, StampWidth,   \* what the two counters wrap at, 2^16
    Tics,                \* tics_per_irq
    MaxPulses, MaxStamp, \* bounds on the pulses and on the time
    EncoderRaces         \* the races nothing in the code rules out that are admitted

(***************************************************************************)
(*   late_irq   the handler stores the next compare value when the counter *)
(*              has passed it;                                             *)
(*   overflow   the timestamp is read when the timer has wrapped and the   *)
(*              handler of the overflow has not run;                       *)
(*   held_up    a reader is held up until the counter has come round.      *)
(***************************************************************************)

VARIABLES
    enabled, count, ccr, match,    \* pulse timer: CEN, CNT, CCR1, CC1IF
    stamp, stampHigh, wrapped,     \* timestamp timer: CNT, count_h, UIF
    inIrq, tval, cval,             \* the handler and its copies
    lastCount, pulseCount,         \* spindle_encoder.counter
    lastPulse, pulseLength,        \* spindle_encoder.timer
    fg, copy,                      \* the foreground, its copy of the counter
    reported,                      \* spindle_data.pulse_count
    (* history *)
    pulses, elapsed,               \* pulses since the reset, time
    irqAt, between                 \* time of the last pulse handled, and to it

encTimer == <<enabled, count, ccr, match>>
stamps   == <<stamp, stampHigh, wrapped, elapsed>>
irqVars  == <<inIrq, tval, cval>>
data     == <<lastCount, pulseCount, lastPulse, pulseLength>>
fgVars   == <<fg, copy, reported>>
vars     == <<encTimer, stamps, irqVars, data, fgVars, pulses, irqAt, between>>

Timestamp == stamp + stampHigh
Since(c, last) == (c - last) % Width

Init ==
    /\ enabled = TRUE /\ count = 0 /\ ccr = Tics /\ match = FALSE
    /\ stamp = 0 /\ stampHigh = 0 /\ wrapped = FALSE
    /\ inIrq = FALSE /\ tval = 0 /\ cval = 0
    /\ lastCount = 0 /\ pulseCount = 0 /\ lastPulse = 0 /\ pulseLength = 0
    /\ fg = "idle" /\ copy = [pulses |-> 0, last |-> 0] /\ reported = 0
    /\ pulses = 0 /\ elapsed = 0 /\ irqAt = 0 /\ between = 0

StampIsWhole == wrapped => "overflow" \in EncoderRaces

-----------------------------------------------------------------------------
(* The timers.                                                              *)

Pulse ==
    /\ enabled /\ pulses < MaxPulses
    /\ (match \/ inIrq) => (Since(count + 1, ccr) < Tics \/ "late_irq" \in EncoderRaces)
    /\ fg = "get" => (Since(count, copy.last) < Width - 1 \/ "held_up" \in EncoderRaces)
    /\ pulses' = pulses + 1
    /\ count' = (count + 1) % Width
    /\ match' = (match \/ count' = ccr)
    /\ UNCHANGED <<enabled, ccr, stamps, irqVars, data, fgVars, irqAt, between>>

Time ==
    /\ elapsed < MaxStamp /\ ~wrapped
    /\ elapsed' = elapsed + 1
    /\ stamp' = (stamp + 1) % StampWidth
    /\ wrapped' = (stamp' = 0)
    /\ UNCHANGED <<stampHigh, encTimer, irqVars, data, fgVars, pulses, irqAt, between>>

\* tstamp_overflow.
Overflow ==
    /\ wrapped /\ wrapped' = FALSE
    /\ stampHigh' = (stampHigh \div StampWidth + 1) * StampWidth
    /\ UNCHANGED <<stamp, elapsed, encTimer, irqVars, data, fgVars, pulses, irqAt, between>>

-----------------------------------------------------------------------------
(* spindle_encoder_irq.                                                     *)

Irq_Read ==
    /\ match /\ ~inIrq /\ StampIsWhole
    /\ match' = FALSE /\ inIrq' = TRUE
    /\ tval' = Timestamp /\ cval' = count
    /\ irqAt' = elapsed /\ between' = elapsed - irqAt
    /\ UNCHANGED <<enabled, count, ccr, stamps, data, fgVars, pulses>>

\* Mistakes: the compare value starts from the count of the pulse before, and the
\* count is read again.
Bad_NextCompare == (lastCount + Tics) % Width
NextCompare     == (ccr + Tics) % Width
Bad_Counted     == count
Counted         == cval

Irq_Store ==
    /\ inIrq /\ inIrq' = FALSE
    /\ ccr' = NextCompare
    /\ pulseCount' = pulseCount + Since(cval, lastCount)
    /\ lastCount' = Counted
    /\ pulseLength' = tval - lastPulse /\ lastPulse' = tval
    /\ tval' = 0 /\ cval' = 0
    /\ UNCHANGED <<enabled, count, match, stamps, fgVars, pulses, irqAt, between>>

-----------------------------------------------------------------------------
(* The foreground.                                                          *)

Foreground(from, to) == ~match /\ ~inIrq /\ fg = from /\ fg' = to

\* spindleGetData: the copy is made with interrupts disabled, the count read
\* when they are enabled again.  Its difference to the copy is taken in 32 bits,
\* where the handler takes it in 16.
Get_Copy ==
    /\ Foreground("idle", "get")
    /\ copy' = [pulses |-> pulseCount, last |-> lastCount] /\ reported' = 0
    /\ UNCHANGED <<encTimer, stamps, irqVars, data, pulses, irqAt, between>>

Get_Count ==
    /\ Foreground("get", "idle")
    /\ reported' = copy.pulses + (count - copy.last)
    /\ copy' = [pulses |-> 0, last |-> 0]
    /\ UNCHANGED <<encTimer, stamps, irqVars, data, pulses, irqAt, between>>

\* spindleDataReset: the timestamp, the counter stopped, the data, the counter.
Reset_Stamp ==
    /\ Foreground("idle", "reset") /\ ~wrapped
    /\ stamp' = 0 /\ stampHigh' = 0
    /\ UNCHANGED <<wrapped, elapsed, encTimer, irqVars, data, copy, reported, pulses, irqAt, between>>

Reset_Stop ==
    /\ Foreground("reset", "stopped") /\ enabled' = FALSE
    /\ UNCHANGED <<count, ccr, match, stamps, irqVars, data, copy, reported, pulses, irqAt, between>>

Bad_Reset_Data ==
    /\ Foreground("stopped", "cleared") /\ StampIsWhole
    /\ pulseCount' = 0 /\ lastCount' = 0 /\ pulseLength' = 0
    /\ irqAt' = elapsed /\ between' = 0
    /\ UNCHANGED <<encTimer, stamps, irqVars, copy, reported, pulses, lastPulse>>

Reset_Data ==
    /\ Foreground("stopped", "cleared") /\ StampIsWhole
    /\ lastPulse' = Timestamp /\ irqAt' = elapsed /\ between' = 0
    /\ pulseLength' = 0 /\ lastCount' = 0 /\ pulseCount' = 0
    /\ UNCHANGED <<encTimer, stamps, irqVars, copy, reported, pulses>>

Reset_Count ==
    /\ Foreground("cleared", "idle")
    /\ count' = 0 /\ ccr' = Tics /\ enabled' = TRUE
    /\ pulses' = 0
    /\ UNCHANGED <<match, stamps, irqVars, data, copy, reported, irqAt, between>>

Next ==
    \/ Pulse \/ Time \/ Overflow \/ Irq_Read \/ Irq_Store
    \/ Get_Copy \/ Get_Count
    \/ Reset_Stamp \/ Reset_Stop \/ Reset_Data \/ Reset_Count

Spec == Init /\ [][Next]_vars

-----------------------------------------------------------------------------
TypeOK ==
    /\ {enabled, match, wrapped, inIrq} \subseteq BOOLEAN
    /\ {count, ccr, cval, lastCount} \subseteq 0..Width - 1 /\ stamp \in 0..StampWidth - 1
    /\ {stampHigh, tval, pulseCount, lastPulse} \subseteq Nat
    /\ {pulseLength, reported} \subseteq Int
    /\ fg \in {"idle", "get", "reset", "stopped", "cleared"}

\* The pulses reported are those that have come since the reset, whichever
\* interrupts are served between the copy of the counters and the reading of
\* the count and however often the counter has wrapped before, except that they
\* are short by all it holds from its wrap until the next interrupt.
CountIsTrue ==
    [][fg = "get" /\ fg' = "idle" =>
        reported' = pulses - (IF count < copy.last THEN Width ELSE 0)]_vars

\* The next interrupt is at most Tics pulses away, so the count never wraps
\* unnoticed and a spindle that turns is never taken for stopped.
NextPulseIsTold == enabled /\ ~match /\ ~inIrq => Since(ccr, count) \in 1..Tics

\* The length of a pulse is the time between the last two that were handled,
\* across the overflow of the timestamp and a reset of it.
PulseLengthIsTrue == ~inIrq /\ fg # "reset" /\ fg # "stopped" => pulseLength = between
=============================================================================
