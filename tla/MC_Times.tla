------------------------------ MODULE MC_Times ------------------------------
(***************************************************************************)
(* The services that keep time by an interrupt and the foreground, which   *)
(* share no state: which is the one that runs, the others stay as they     *)
(* start.                                                                  *)
(***************************************************************************)
EXTENDS ElapsedTime, DelayService, StepInject

CONSTANTS
    Width, StampWidth, Tics, MaxPulses, MaxStamp, EncoderRaces,
    Bits, RequestLength, ReplyLength, Period, IrqLate, PollLate, AbortTimeout, Pause,
    SwitchDelay, UartRaces

ASSUME TimesAssumption ==
    /\ {Unit, Microseconds, MaxDelay, MaxSteps, Tics} \subseteq Nat \ {0}
    /\ Lateness \in Nat
    /\ Callbacks \subseteq Nat \ {0}
    /\ Tics < Width - 1
    /\ TimeRaces \subseteq {"inside_tick", "wrap"}
    /\ DelayRaces \subseteq {"tick_in_arm", "supersede", "nested", "rearm"}
    /\ InjectRaces \subseteq
         {"overlap", "flag_lost", "both_flagged", "stale_delay", "release", "stepping"}
    /\ EncoderRaces \subseteq {"late_irq", "overflow", "held_up"}
    /\ {Bits, RequestLength, ReplyLength, Period, SwitchDelay} \subseteq Nat \ {0}
    /\ {IrqLate, PollLate, AbortTimeout, Pause} \subseteq Nat
    /\ IrqLate + PollLate < Period \div 2
    /\ Pause >= ReplyLength * (Bits + 2) * Period /\ AbortTimeout >= Pause
    /\ UartRaces \subseteq {"slow_switch", "late_reply"}

VARIABLES
    which,
    enabled, count, ccr, match, stamp, stampHigh, wrapped, inIrq, tval, cval,
    lastCount, pulseCount, lastPulse, pulseLength, fg, copy, reported, pulses,
    elapsed, irqAt, between,
    cnt, udis, uif, lag, mode, out, txBusy, txData,
    rxBusy, bitCount, rxByte, rxData, irqCount,
    uartAt, reads, todo, got, waited, answer,
    reply, tmcByte, tmcBit, tmcPhase, tmcIn, tmcBits, tmcGot, request

encoderVars ==
    <<enabled, count, ccr, match, stamp, stampHigh, wrapped, inIrq, tval, cval,
      lastCount, pulseCount, lastPulse, pulseLength, fg, copy, reported, pulses,
      elapsed, irqAt, between>>
uartVars ==
    <<cnt, udis, uif, lag, mode, out, txBusy, txData,
      rxBusy, bitCount, rxByte, rxData, irqCount,
      uartAt, reads, todo, got, waited, answer,
      reply, tmcByte, tmcBit, tmcPhase, tmcIn, tmcBits, tmcGot, request>>
vars == <<which, clockVars, delayVars, stepsVars, encoderVars, uartVars>>

Encoder == INSTANCE SpindleEncoder
Uart    == INSTANCE TmcUart

Runs(service) == which = service /\ UNCHANGED which

Init ==
    /\ which \in {"elapsed", "delay", "inject", "encoder", "uart"}
    /\ ClockInit /\ DelayInit /\ StepsInit /\ Encoder!Init /\ Uart!Init
    /\ which # "inject" => ~delayed

Next ==
    \/ Runs("elapsed") /\ ClockNext    /\ UNCHANGED <<delayVars, stepsVars, encoderVars, uartVars>>
    \/ Runs("delay")   /\ DelayNext    /\ UNCHANGED <<clockVars, stepsVars, encoderVars, uartVars>>
    \/ Runs("inject")  /\ StepsNext    /\ UNCHANGED <<clockVars, delayVars, encoderVars, uartVars>>
    \/ Runs("encoder") /\ Encoder!Next /\ UNCHANGED <<clockVars, delayVars, stepsVars, uartVars>>
    \/ Runs("uart")    /\ Uart!Next    /\ UNCHANGED <<clockVars, delayVars, stepsVars, encoderVars>>

\* The fairness of DelayService.
Spec ==
    /\ Init /\ [][Next]_vars
    /\ WF_delayVars(which = "delay" /\ Tick)
    /\ WF_delayVars(which = "delay" /\ Called)
    /\ WF_delayVars(which = "delay" /\ StoreCallback)
    /\ WF_delayVars(which = "delay" /\ Return)

\* The types of the five services.
TypesOK == ClockTypeOK /\ DelayTypeOK /\ StepsTypeOK /\ Encoder!TypeOK /\ Uart!TypeOK

\* Each says what the property of its name says in the module of the service.
CountIsTrue       == Encoder!CountIsTrue
NextPulseIsTold   == Encoder!NextPulseIsTold
PulseLengthIsTrue == Encoder!PulseLengthIsTrue
LineIsTrue        == Uart!LineIsTrue
=============================================================================
