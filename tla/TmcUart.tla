------------------------------ MODULE TmcUart ------------------------------
(***************************************************************************)
(* The software UART of the Trinamic drivers (src/Src/tmc_uart.c): one     *)
(* line for both directions, driven and sampled bit by bit by the          *)
(* interrupt of a timer, while the foreground loads the bytes of a         *)
(* datagram, turns the line round and takes the reply or gives it up.      *)
(* A byte is the sequence of its bits, the lowest first.                   *)
(* Bad_X is X with a mistake; no action uses it.                           *)
(***************************************************************************)
EXTENDS Integers, Sequences, SequencesExt

CONSTANTS
    Bits, RequestLength, ReplyLength,   \* bits of a byte, bytes of the datagrams
    Period,              \* units of time in a bit
    IrqLate, PollLate,   \* how late the handler and the poll for START may be
    AbortTimeout, Pause, \* in units: ABORT_TIMEOUT and the delay after it
    SwitchDelay,         \* HALFDUPLEX_SWITCH_DELAY
    UartRaces            \* the races nothing in the code rules out that are admitted

(***************************************************************************)
(*   slow_switch   the driver replies when the line has not been turned    *)
(*                 round: the foreground is held up for the eight bits or  *)
(*                 more that the driver waits;                             *)
(*   late_reply    it replies when the read has been given up.             *)
(***************************************************************************)

VARIABLES
    cnt, udis, uif, lag,                \* the timer; how long the interrupt is pending
    mode, out,                          \* the pin: direction and output
    txBusy, txData,                     \* tx_buf: the bits to send
    rxBusy, bitCount, rxByte, rxData,   \* rx_buf; rx_byte; the bytes from tail to head
    irqCount,                           \* interrupts since stop_listening was called
    uartAt, reads, todo, got,           \* the call, its bytes to send, and wdgr
    waited, answer,                     \* time since ms was taken; what the call returned
    reply, tmcByte, tmcBit, tmcPhase,   \* the driver: its reply, and how much it has driven
    tmcIn, tmcBits, tmcGot,             \* and its receiver
    request                             \* history: the datagram the driver has yet to answer

timer  == <<cnt, udis, uif, lag>>
pin    == <<mode, out>>
tx     == <<txBusy, txData>>
rx     == <<rxBusy, bitCount, rxByte, rxData, irqCount>>
call   == <<uartAt, reads, todo, got, waited, answer, request>>
driver == <<reply, tmcByte, tmcBit, tmcPhase, tmcIn, tmcBits, tmcGot>>
vars   == <<timer, pin, tx, rx, call, driver>>

Bytes        == [1..Bits -> {0, 1}]
Datagrams(n) == [1..n -> Bytes]

\* (data << 1) | STOP_BIT is not 0 before the STOP bit has been shifted out.
Frame(byte) == <<0>> \o byte \o <<1>>

\* tmcByte is 0 when the driver drives nothing.
Drives == tmcByte > 0
TmcOut == Frame(reply[tmcByte])[tmcBit + 1]
Line   == IF mode = "tx" THEN out ELSE IF Drives THEN TmcOut ELSE 1

Init ==
    /\ cnt = 0 /\ udis = TRUE /\ uif = FALSE /\ lag = 0
    /\ mode = "tx" /\ out = 1
    /\ txBusy = FALSE /\ txData = <<>>
    /\ rxBusy = FALSE /\ bitCount = -1 /\ rxByte = <<>> /\ rxData = <<>> /\ irqCount = 0
    /\ uartAt = "idle" /\ reads = FALSE /\ todo = <<>> /\ got = <<>>
    /\ waited = 0 /\ answer = "none" /\ request = <<>>
    /\ reply = <<>> /\ tmcByte = 0 /\ tmcBit = 0 /\ tmcPhase = 0
    /\ tmcIn = 0 /\ tmcBits = <<>> /\ tmcGot = <<>>

-----------------------------------------------------------------------------
(* The foreground, which runs when no interrupt is pending.                 *)

Foreground(from, to) == ~uif /\ uartAt = from /\ uartAt' = to

\* tmc_uart_read, tmc_uart_write and the start of write_n.
Call(read, datagram) ==
    /\ Foreground("idle", "send")
    /\ reads' = read /\ request' = datagram /\ got' = <<>> /\ answer' = "none"
    /\ rxData' = (IF read THEN <<>> ELSE rxData)
    /\ mode' = "tx" /\ out' = 1
    /\ txData' = Frame(Head(datagram)) /\ txBusy' = TRUE /\ todo' = Tail(datagram)
    /\ cnt' = 0 /\ udis' = FALSE
    /\ tmcGot' = <<>> /\ reply' = (IF Drives THEN reply ELSE <<>>)
    /\ UNCHANGED <<uif, lag, rxBusy, bitCount, rxByte, irqCount, waited,
                   tmcByte, tmcBit, tmcPhase, tmcIn, tmcBits>>

NextByte ==
    /\ Foreground("send", "send") /\ ~txBusy /\ todo # <<>>
    /\ txData' = Frame(Head(todo)) /\ txBusy' = TRUE /\ todo' = Tail(todo)
    /\ UNCHANGED <<timer, pin, rx, reads, got, waited, answer, request, driver>>

\* The end of write_n; a read turns the line round.
Sent ==
    /\ Foreground("send", IF reads THEN "listen" ELSE "idle") /\ ~txBusy /\ todo = <<>>
    /\ udis' = TRUE
    /\ mode' = (IF reads THEN "rx" ELSE "tx") /\ waited' = 0
    /\ UNCHANGED <<cnt, uif, lag, out, tx, rx, reads, todo, got, answer, request, driver>>

\* A START bit: the first sample is taken half a bit later.  A mistake: a bit later.
Bad_HalfBit == 0
HalfBit     == Period \div 2

Start ==
    /\ Foreground("listen", "read") /\ Line = 0
    /\ rxBusy' = TRUE /\ bitCount' = -1
    /\ cnt' = HalfBit /\ udis' = FALSE /\ waited' = 0
    /\ UNCHANGED <<uif, lag, pin, tx, rxByte, rxData, irqCount, reads, todo, got, answer, request, driver>>

Abort ==
    /\ Foreground("listen", "abort") \/ Foreground("read", "abort")
    /\ waited = AbortTimeout /\ waited' = 0
    /\ rxBusy' = FALSE /\ udis' = TRUE
    /\ UNCHANGED <<cnt, uif, lag, pin, tx, bitCount, rxByte, rxData, irqCount,
                   reads, todo, got, answer, request, driver>>

Aborted ==
    /\ Foreground("abort", "idle") /\ waited >= Pause
    /\ mode' = "tx" /\ out' = 1 /\ answer' = "bad" /\ waited' = 0
    /\ UNCHANGED <<timer, tx, rx, reads, todo, got, request, driver>>

\* After the last byte stop_listening counts the interrupts.
ReadByte ==
    /\ Foreground("read", IF Len(got) + 1 = ReplyLength THEN "stop" ELSE "read")
    /\ rxData # <<>>
    /\ got' = Append(got, Head(rxData))
    /\ rxData' = (IF uartAt' = "stop" THEN <<>> ELSE Tail(rxData)) /\ irqCount' = 0
    /\ UNCHANGED <<timer, pin, tx, rxBusy, bitCount, rxByte, reads, todo, waited, answer, request, driver>>

DriveAgain ==
    /\ Foreground("stop", "driven") /\ irqCount >= SwitchDelay
    /\ mode' = "tx" /\ out' = 1
    /\ UNCHANGED <<timer, tx, rx, reads, todo, got, waited, answer, request, driver>>

Finish ==
    /\ Foreground("driven", "idle") /\ irqCount >= SwitchDelay + 1
    /\ rxBusy' = FALSE /\ udis' = TRUE /\ answer' = "ok"
    /\ UNCHANGED <<cnt, uif, lag, pin, tx, bitCount, rxByte, rxData, irqCount,
                   reads, todo, got, waited, request, driver>>

-----------------------------------------------------------------------------
(* TMC_UART_IRQHandler.                                                     *)

Send ==
    /\ IF txData # <<>>
       THEN /\ out' = Head(txData) /\ txData' = Tail(txData)
            /\ UNCHANGED txBusy
       ELSE txBusy' = FALSE /\ UNCHANGED <<out, txData>>
    /\ UNCHANGED rx

\* The buffer has room for a reply, and a read starts with an empty one.
Rcv ==
    /\ \/ /\ bitCount = -1
          /\ IF Line = 0 THEN bitCount' = 0 /\ rxByte' = <<>> ELSE UNCHANGED <<bitCount, rxByte>>
          /\ UNCHANGED rxData
       \/ /\ bitCount \in 0..Bits - 1
          /\ bitCount' = bitCount + 1 /\ rxByte' = Append(rxByte, Line) /\ UNCHANGED rxData
       \/ /\ bitCount = Bits /\ bitCount' = -1 /\ rxByte' = <<>>
          /\ rxData' = (IF Line = 1 THEN Append(rxData, rxByte) ELSE rxData)
    /\ irqCount' = (IF irqCount <= SwitchDelay THEN irqCount + 1 ELSE irqCount)
    /\ UNCHANGED <<rxBusy, out, tx>>

Irq ==
    /\ uif /\ uif' = FALSE /\ lag' = 0
    /\ \/ txBusy /\ Send
       \/ ~txBusy /\ rxBusy /\ Rcv
       \/ ~txBusy /\ ~rxBusy /\ UNCHANGED <<out, tx, rx>>
    /\ UNCHANGED <<cnt, udis, mode, call, driver>>

-----------------------------------------------------------------------------
(* The driver: it samples in the middle of a bit, counted from the edge of  *)
(* START, and drives the line bit by bit.                                   *)

\* tmcIn is the time since the edge of START or the last full bit after it.
Listens == tmcIn > 0 \/ tmcBits # <<>> \/ Line = 0
Samples == tmcIn = Period \div 2

Receive ==
    IF Drives \/ ~Listens THEN UNCHANGED <<tmcIn, tmcBits, tmcGot>>
    ELSE LET bits == IF Samples THEN Append(tmcBits, Line) ELSE tmcBits IN
         IF Len(bits) < Bits + 2
         THEN tmcIn' = (tmcIn + 1) % Period /\ tmcBits' = bits /\ UNCHANGED tmcGot
         ELSE /\ tmcIn' = 0 /\ tmcBits' = <<>>
              /\ tmcGot' = (IF Last(bits) = 1 THEN Append(tmcGot, SubSeq(bits, 2, Bits + 1)) ELSE tmcGot)

Drive ==
    IF ~Drives THEN UNCHANGED <<tmcByte, tmcBit, tmcPhase>>
    ELSE /\ tmcPhase' = (tmcPhase + 1) % Period
         /\ tmcBit' = (IF tmcPhase' > 0 THEN tmcBit ELSE IF tmcBit = Bits + 1 THEN 0 ELSE tmcBit + 1)
         /\ tmcByte' = (IF tmcPhase' > 0 \/ tmcBit' > 0 THEN tmcByte
                        ELSE IF tmcByte = Len(reply) THEN 0 ELSE tmcByte + 1)

\* A reply, which may break off after any byte.
Replies(datagram) ==
    /\ ~Drives /\ reads /\ tmcGot = request /\ request # <<>>
    /\ uartAt = "send" => "slow_switch" \in UartRaces
    /\ uartAt \in {"abort", "idle"} => "late_reply" \in UartRaces
    /\ reply' = datagram /\ tmcByte' = 1 /\ tmcBit' = 0 /\ tmcPhase' = 0
    /\ tmcGot' = <<>> /\ request' = <<>>
    /\ UNCHANGED <<timer, pin, tx, rx, uartAt, reads, todo, got, waited, answer, tmcIn, tmcBits>>

Pass ==
    /\ uif => lag < IrqLate
    /\ uartAt = "listen" /\ Line = 0 => tmcPhase < PollLate
    /\ cnt' = (cnt + 1) % Period
    /\ uif' = (uif \/ (cnt' = 0 /\ ~udis)) /\ lag' = (IF uif THEN lag + 1 ELSE 0)
    /\ waited' = (IF uartAt \in {"listen", "read", "abort"} /\ waited < AbortTimeout
                  THEN waited + 1 ELSE waited)
    /\ Receive /\ Drive
    /\ UNCHANGED <<udis, pin, tx, rx, uartAt, reads, todo, got, answer, request, reply>>

Next ==
    \/ \E d \in Datagrams(RequestLength), read \in BOOLEAN : Call(read, d)
    \/ NextByte \/ Sent \/ Start \/ Abort \/ Aborted \/ ReadByte \/ DriveAgain \/ Finish
    \/ Irq \/ Pass
    \/ \E n \in 1..ReplyLength : \E d \in Datagrams(n) : Replies(d)

Spec == Init /\ [][Next]_vars

-----------------------------------------------------------------------------
TypeOK ==
    /\ cnt \in 0..Period - 1 /\ {udis, uif, txBusy, rxBusy, reads} \subseteq BOOLEAN
    /\ mode \in {"tx", "rx"} /\ out \in {0, 1} /\ bitCount \in -1..Bits
    /\ uartAt \in {"idle", "send", "listen", "read", "abort", "stop", "driven"}
    /\ rxData \in Seq(Bytes) /\ got \in Seq(Bytes)

\* The line carries what was meant, although handler and polls are late: the
\* driver has received the whole datagram when the line is turned round and
\* never anything else; the bytes of a reply are taken as they were sent, none
\* is missed even if it breaks off, and a datagram returned is the reply to this
\* request; and the two sides never drive the line against each other, also
\* when a reply is given up as it comes.
LineIsTrue ==
    /\ IsPrefix(tmcGot, request) /\ (uartAt = "listen" => tmcGot = request)
    /\ uartAt = "read" /\ ~Drives => got \o rxData = reply
    /\ answer = "ok" => got = reply
    /\ mode = "tx" /\ Drives => out = TmcOut
=============================================================================
