---------------------------- MODULE ElapsedTime ----------------------------
(***************************************************************************)
(* hal.get_micros: getElapsedMicros of src/Src/driver.c puts together the  *)
(* milliseconds counted by SysTick_Handler (src/Src/stm32h7xx_it.c) and    *)
(* the cycles since the handler last ran, which is after the tick was due  *)
(* when something masked it.  Time is counted in units of which Unit make  *)
(* a millisecond.  Bad_X is X with a mistake; no action uses it.           *)
(***************************************************************************)
EXTENDS Integers

CONSTANTS
    Unit,         \* units in a millisecond
    Lateness,     \* how late the tick handler may be, in units
    MaxTime,      \* bound on the time
    Microseconds, \* how many of them a 32 bit register holds, in units
    TimeRaces     \* the races nothing in the code rules out that are admitted

(***************************************************************************)
(*   inside_tick  the time is read by a handler that has preempted the     *)
(*                tick handler between its two stores;                     *)
(*   wrap         it is read when ms * 1000 no longer fits 32 bits.        *)
(***************************************************************************)

VARIABLES
    now,               \* time, and the cycle counter
    uwTick, cycles,    \* milliseconds and cycle_count
    inTick,            \* the tick handler is between its two stores
    copyMs, copyCycles, reading,   \* a reader's copies, and whether it has any
    readAt,            \* history: when the reader started
    micros             \* what it returned last

clock  == <<now, uwTick, cycles, inTick>>
reader == <<copyMs, copyCycles, reading, readAt>>
clockVars   == <<clock, reader, micros>>

ClockInit ==
    /\ now = 0 /\ uwTick = 0 /\ cycles = 0 /\ inTick = FALSE
    /\ copyMs = 0 /\ copyCycles = 0 /\ reading = FALSE /\ readAt = 0 /\ micros = 0

\* The tick due at (uwTick + 1) * Unit is served at most Lateness after.
Pass ==
    /\ now < MaxTime /\ now < (uwTick + 1) * Unit + Lateness
    /\ now' = now + 1
    /\ UNCHANGED <<uwTick, cycles, inTick, reader, micros>>

\* SysTick_Handler: the cycle counter is kept, then HAL_IncTick.
Tick_Cycles ==
    /\ ~inTick /\ now >= (uwTick + 1) * Unit
    /\ cycles' = now /\ inTick' = TRUE
    /\ UNCHANGED <<now, uwTick, reader, micros>>

Tick_Count ==
    /\ inTick /\ uwTick' = uwTick + 1 /\ inTick' = FALSE
    /\ UNCHANGED <<now, cycles, reader, micros>>

\* getElapsedMicros: the pair is copied again when an interrupt came between
\* LDREX and STREX, so that both are of one moment.
Read_Pair ==
    /\ ~reading
    /\ inTick => "inside_tick" \in TimeRaces
    /\ copyMs' = uwTick /\ copyCycles' = cycles /\ reading' = TRUE /\ readAt' = now
    /\ UNCHANGED <<clock, micros>>

\* A mistake: the fraction is not held to a millisecond.
Bad_Fraction(since) == since
Fraction(since)     == IF since > Unit THEN Unit ELSE since

Read_Fraction ==
    /\ reading /\ reading' = FALSE
    /\ (copyMs + 1) * Unit >= Microseconds => "wrap" \in TimeRaces
    /\ micros' = (copyMs * Unit + Fraction(now - copyCycles)) % Microseconds
    /\ UNCHANGED <<clock, copyMs, copyCycles, readAt>>

ClockNext == Pass \/ Tick_Cycles \/ Tick_Count \/ Read_Pair \/ Read_Fraction

ClockSpec == ClockInit /\ [][ClockNext]_clockVars

-----------------------------------------------------------------------------
ClockTypeOK ==
    /\ {now, uwTick, cycles, copyMs, copyCycles, readAt, micros} \subseteq Nat
    /\ {inTick, reading} \subseteq BOOLEAN

\* The microseconds never go backwards, however late the tick handler is and
\* however long the reader is preempted between its copies and the cycle
\* counter; they are never ahead of the time, and behind the time at which they
\* were asked for by no more than the tick handler is late.
TimeIsSound ==
    [][/\ micros' >= micros
       /\ micros' # micros => micros' <= now
       /\ reading /\ ~reading' => micros' + Lateness >= readAt]_clockVars
=============================================================================
