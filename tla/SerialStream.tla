---------------------------- MODULE SerialStream ----------------------------
(***************************************************************************)
(* The interrupt driven UART stream of src/Src/serial.c (first port; the   *)
(* code of the other two is the same with other names).  The foreground    *)
(* calls the stream functions, UART0_IRQHandler preempts it between any    *)
(* two accesses to memory or to a register, and the UART moves characters  *)
(* on its own.  One action per access of the foreground that the interrupt *)
(* handler can tell apart; the handler is one action, nothing preempts it  *)
(* that touches this state.                                                *)
(*                                                                         *)
(* A character is the number of its acceptance into a ring, so that order, *)
(* loss and duplication are visible in the data itself.                    *)
(*                                                                         *)
(* A definition named Bad_X is X with a mistake in it that the properties  *)
(* must notice; no action uses it.                                         *)
(***************************************************************************)
EXTENDS Integers

CONSTANTS
    RxSize,   \* RX_BUFFER_SIZE
    TxSize,   \* TX_BUFFER_SIZE
    MaxRx,    \* bound: characters that may be accepted into the receive ring
    MaxTx,    \* bound: characters the foreground may write
    Races     \* the interleavings nothing in the code rules out that are admitted

(***************************************************************************)
(* The four interleavings that break the stream, each excluded unless it   *)
(* is in Races:                                                            *)
(*   long_window       serialPutC is held up between its head update and   *)
(*                     its CR1 store for longer than a character time, so  *)
(*                     that two transmit interrupts fall in between;       *)
(*   reconfig_busy     CR1 is rewritten (baud rate, format, disable) while *)
(*                     the transmit interrupt is enabled;                  *)
(*   cancel_in_read    the handler runs serialRxCancel (from a real time   *)
(*                     command) while the foreground holds a copy of a     *)
(*                     receive pointer;                                    *)
(*   receive_in_cancel a character arrives while the foreground is inside  *)
(*                     serialRxCancel.                                     *)
(***************************************************************************)
TxRaces == {"long_window", "reconfig_busy"}
RxRaces == {"cancel_in_read", "receive_in_cancel"}

ASSUME SizesAssumption  == RxSize \in Nat \ {0, 1} /\ TxSize \in Nat \ {0, 1}
ASSUME BoundsAssumption == MaxRx \in Nat /\ MaxTx \in Nat
ASSUME RacesAssumption  == Races \subseteq TxRaces \union RxRaces

VARIABLES
    cr1,        \* USART_CR1: the set of the bits that are on
    tdr, tsr,   \* transmit data register and shift register
    rdr,        \* receive data register: kind of the character in it
    txHead, txTail, txData,              \* txbuf
    rxHead, rxTail, rxData, rxOverflow,  \* rxbuf
    claimed,    \* serial[0].flags.claimed
    rtHandler,  \* enqueue_realtime_command: "protocol" strips, "buffer" does not
    pc,         \* where the foreground is
    reg,        \* its copy of CR1 in a read-modify-write
    ptr,        \* its copy of a ring pointer
    val,        \* its copy of a character; a copy is forgotten once it is used
    (* history *)
    acc, sent, txCut,      \* accepted for output, last written to TDR, last flushed
    txTaken,               \* a transmit interrupt fell in the window of serialPutC
    rxAcc, rxRead, rxCut   \* accepted from the line, last read, last discarded

uart   == <<cr1, tdr, tsr, rdr>>
txRing == <<txHead, txTail, txData>>
rxRing == <<rxHead, rxTail, rxData, rxOverflow>>
port   == <<claimed, rtHandler>>
local  == <<pc, reg, ptr, val>>
txHist == <<acc, sent, txCut, txTaken>>
rxHist == <<rxAcc, rxRead, rxCut>>
vars   == <<uart, txRing, rxRing, port, local, txHist, rxHist>>

Bits   == {"UE", "TE", "RE", "RXNEIE", "TXEIE"}
Enable == Bits \ {"TXEIE"}
NoChar == -1
Kinds  == {"data", "command", "cancel"}   \* a plain character, a real time command,
                                          \* one that cancels the input

-----------------------------------------------------------------------------
(* The macros of grbl/stream.h, for a ring of any size.                     *)

Bad_BufNext(i, size) == i + 1

BufNext(i, size) == IF i = size - 1 THEN 0 ELSE i + 1

BufCount(head, tail, size) == IF head >= tail THEN head - tail ELSE head - tail + size

TxCount == BufCount(txHead, txTail, TxSize)
RxCount == BufCount(rxHead, rxTail, RxSize)

\* Everything up to these numbers has left the ring.
TxGone == IF sent > txCut THEN sent ELSE txCut
RxGone == IF rxRead > rxCut THEN rxRead ELSE rxCut

-----------------------------------------------------------------------------
Init ==
    /\ cr1 = {} /\ tdr = NoChar /\ tsr = NoChar /\ rdr = "none"
    /\ txHead = 0 /\ txTail = 0 /\ txData = [i \in 0..TxSize-1 |-> 0]
    /\ rxHead = 0 /\ rxTail = 0 /\ rxData = [i \in 0..RxSize-1 |-> 0]
    /\ rxOverflow = FALSE
    /\ claimed = FALSE /\ rtHandler = "protocol"
    /\ pc = "idle" /\ reg = {} /\ ptr = 0 /\ val = 0
    /\ acc = 0 /\ sent = 0 /\ txCut = 0 /\ txTaken = FALSE
    /\ rxAcc = 0 /\ rxRead = 0 /\ rxCut = 0

Goto(from, to) == pc = from /\ pc' = to

Idle == pc = "idle" /\ claimed

\* The two halves of a read-modify-write of CR1.  With UE off the UART drops
\* what is in its registers.
LoadCR1(from, to) ==
    /\ Goto(from, to) /\ reg' = cr1
    /\ UNCHANGED <<uart, txRing, rxRing, port, ptr, val, txHist, rxHist>>

StoreCR1(from, to, bits) ==
    /\ Goto(from, to) /\ cr1' = bits
    /\ IF "UE" \in bits THEN UNCHANGED <<tdr, tsr, rdr>>
                        ELSE tdr' = NoChar /\ tsr' = NoChar /\ rdr' = "none"
    /\ reg' = {}
    /\ UNCHANGED <<txRing, rxRing, port, ptr, val, txHist, rxHist>>

\* A copy of a ring pointer of the receive side.
LoadPtr(from, to, p) ==
    /\ Goto(from, to) /\ ptr' = p
    /\ UNCHANGED <<uart, txRing, rxRing, port, reg, val, txHist, rxHist>>

-----------------------------------------------------------------------------
(* Output: serialPutC, serialTxFlush, serialTxCount.                        *)

PutC_Begin ==
    /\ Idle /\ acc < MaxTx
    /\ pc' = "put_full" /\ ptr' = BufNext(txHead, TxSize)
    /\ UNCHANGED <<uart, txRing, rxRing, port, reg, val, txHist, rxHist>>

\* The blocking callback gives up; while it does not, the loop goes round.
PutC_Abort ==
    /\ Goto("put_full", "idle") /\ txTail = ptr /\ ptr' = 0
    /\ UNCHANGED <<uart, txRing, rxRing, port, reg, val, txHist, rxHist>>

Bad_PutC_Data_Overrun ==
    /\ Goto("put_full", "put_head")
    /\ txData' = [txData EXCEPT ![txHead] = acc + 1]
    /\ UNCHANGED <<uart, txHead, txTail, rxRing, port, reg, ptr, val, txHist, rxHist>>

Bad_PutC_Data_Slot ==
    /\ Goto("put_full", "put_head") /\ txTail # ptr
    /\ txData' = [txData EXCEPT ![ptr] = acc + 1]
    /\ UNCHANGED <<uart, txHead, txTail, rxRing, port, reg, ptr, val, txHist, rxHist>>

PutC_Data ==
    /\ Goto("put_full", "put_head") /\ txTail # ptr
    /\ txData' = [txData EXCEPT ![txHead] = acc + 1]
    /\ UNCHANGED <<uart, txHead, txTail, rxRing, port, reg, ptr, val, txHist, rxHist>>

PutC_Head ==
    /\ Goto("put_head", "put_load")
    /\ txHead' = ptr /\ acc' = acc + 1 /\ txTaken' = FALSE /\ ptr' = 0
    /\ UNCHANGED <<uart, txTail, txData, rxRing, port, reg, val, sent, txCut, rxHist>>

PutC_Load == LoadCR1("put_load", "put_store")
PutC_Arm == StoreCR1("put_store", "idle", reg \union {"TXEIE"})

PutC == PutC_Data \/ PutC_Head \/ PutC_Load \/ PutC_Arm

TxFlush_Load == Idle /\ LoadCR1("idle", "txflush_store")
Bad_TxFlush_Mask == StoreCR1("txflush_store", "txflush_tail", reg)

TxFlush_Mask == StoreCR1("txflush_store", "txflush_tail", reg \ {"TXEIE"})

\* txbuf.tail = txbuf.head: only the foreground writes the head.
DropOutput(from, to) ==
    /\ Goto(from, to)
    /\ txTail' = txHead /\ txCut' = acc
    /\ UNCHANGED <<uart, txHead, txData, rxRing, port, reg, ptr, val, acc, sent, txTaken, rxHist>>

TxFlush_Tail == DropOutput("txflush_tail", "idle")

TxCount_Tail == Idle /\ LoadPtr("idle", "txcount_tc", txTail)

Bad_TxCount_Result == BufCount(txHead, ptr, TxSize)

\* What it returns: the flag TC is on when both registers are empty.
TxCount_Result == BufCount(txHead, ptr, TxSize) + (IF tdr = NoChar /\ tsr = NoChar THEN 0 ELSE 1)

TxCount_TC == LoadPtr("txcount_tc", "idle", 0)

TxFlush == TxFlush_Mask \/ TxFlush_Tail

-----------------------------------------------------------------------------
(* Input: serialGetC, serialRxFlush, serialRxFree, serialRxCancel.          *)

GetC_Tail == Idle /\ LoadPtr("idle", "get_test", rxTail)

GetC_Test ==
    /\ pc = "get_test"
    /\ IF ptr = rxHead THEN pc' = "idle" /\ ptr' = 0
                       ELSE pc' = "get_data" /\ ptr' = ptr
    /\ UNCHANGED <<uart, txRing, rxRing, port, reg, val, txHist, rxHist>>

Bad_GetC_Data ==
    /\ Goto("get_data", "get_store")
    /\ val' = rxData[BufNext(ptr, RxSize)]
    /\ UNCHANGED <<uart, txRing, rxRing, port, reg, ptr, txHist, rxHist>>

GetC_Data ==
    /\ Goto("get_data", "get_store")
    /\ val' = rxData[ptr]
    /\ UNCHANGED <<uart, txRing, rxRing, port, reg, ptr, txHist, rxHist>>

GetC_Store ==
    /\ Goto("get_store", "idle")
    /\ rxTail' = BufNext(ptr, RxSize) /\ rxRead' = val
    /\ ptr' = 0 /\ val' = 0
    /\ UNCHANGED <<uart, txRing, rxHead, rxData, rxOverflow, port, reg, txHist, rxAcc, rxCut>>

GetC == GetC_Test \/ GetC_Data \/ GetC_Store

\* rxbuf.tail = rxbuf.head, with a head read earlier.
DropInput(from, to) ==
    /\ Goto(from, to)
    /\ rxTail' = ptr /\ rxCut' = rxAcc - BufCount(rxHead, ptr, RxSize) /\ ptr' = 0
    /\ UNCHANGED <<uart, txRing, rxHead, rxData, rxOverflow, port, reg, val, txHist, rxAcc, rxRead>>

RxFlush_Head  == Idle /\ LoadPtr("idle", "rxflush_store", rxHead)
RxFlush_Store == DropInput("rxflush_store", "idle")

RxFree_Tail == Idle /\ LoadPtr("idle", "rxfree_head", rxTail)

RxFree_Head == LoadPtr("rxfree_head", "idle", 0)

\* serialRxCancel in the foreground; serialEnqueueRtCommand gets here too.
RxCancel_Begin == Idle /\ rxAcc < MaxRx /\ LoadPtr("idle", "cancel_data", rxHead)

RxCancel_Data ==
    /\ Goto("cancel_data", "cancel_load")
    /\ rxData' = [rxData EXCEPT ![ptr] = rxAcc + 1] /\ ptr' = 0
    /\ UNCHANGED <<uart, txRing, rxHead, rxTail, rxOverflow, port, reg, val, txHist, rxHist>>

RxCancel_Load == LoadPtr("cancel_load", "cancel_tail", rxHead)
RxCancel_Tail == DropInput("cancel_tail", "cancel_next")
RxCancel_Next == LoadPtr("cancel_next", "cancel_head", rxHead)

RxCancel_Head ==
    /\ Goto("cancel_head", "idle")
    /\ rxHead' = BufNext(ptr, RxSize) /\ rxAcc' = rxAcc + 1 /\ ptr' = 0
    /\ UNCHANGED <<uart, txRing, rxTail, rxData, rxOverflow, port, reg, val, txHist, rxRead, rxCut>>

RxCancel == RxCancel_Data \/ RxCancel_Load \/ RxCancel_Tail \/ RxCancel_Next \/ RxCancel_Head

-----------------------------------------------------------------------------
(* Configuration: serialSetBaudRate, serialSetFormat, serialDisable,        *)
(* serialSetRtHandler, serialInit and uart_release.                         *)

MayReconfigure == "TXEIE" \notin cr1 \/ "reconfig_busy" \in Races

SetBaudRate_Begin == Idle /\ MayReconfigure /\ LoadCR1("idle", "baud_off")

SetBaudRate ==
    \/ StoreCR1("baud_off", "baud_load", reg \ Enable)
    \/ LoadCR1("baud_load", "baud_on")
    \/ StoreCR1("baud_on", "baud_rx", reg \union Enable)
    \/ LoadPtr("baud_rx", "baud_rx_store", rxHead)
    \/ DropInput("baud_rx_store", "baud_tx")
    \/ DropOutput("baud_tx", "idle")

SetFormat_Begin == Idle /\ MayReconfigure /\ LoadCR1("idle", "format_off")

\* The bits for word length and parity are data here, the rewriting of CR1 is not;
\* it is done once more if there is a parity bit.
SetFormat ==
    \/ \E to \in {"format_parity", "format_load"} : StoreCR1("format_off", to, reg \ {"UE"})
    \/ LoadCR1("format_parity", "format_set")
    \/ StoreCR1("format_set", "format_load", reg)
    \/ LoadCR1("format_load", "format_on")
    \/ StoreCR1("format_on", "idle", reg \union {"UE"})

Disable_Begin ==
    /\ Idle /\ MayReconfigure
    /\ \E to \in {"disable_store", "enable_store"} : LoadCR1("idle", to)

Disable ==
    \/ StoreCR1("disable_store", "idle", reg \ {"RXNEIE"})
    \/ StoreCR1("enable_store", "idle", reg \union {"RXNEIE"})

SetRtHandler(h) ==
    /\ Idle /\ rtHandler' = h
    /\ UNCHANGED <<uart, txRing, rxRing, claimed, local, txHist, rxHist>>

\* serialInit refuses a claimed port; stream_set_defaults then sets the baud rate.
Claim ==
    /\ Goto("idle", "baud_off") /\ ~claimed /\ MayReconfigure
    /\ claimed' = TRUE /\ reg' = cr1
    /\ UNCHANGED <<uart, txRing, rxRing, rtHandler, ptr, val, txHist, rxHist>>

Release ==
    /\ Idle /\ claimed' = FALSE
    /\ UNCHANGED <<uart, txRing, rxRing, rtHandler, local, txHist, rxHist>>

-----------------------------------------------------------------------------
(* UART0_IRQHandler.                                                        *)

PutWindow    == {"put_load", "put_store"}
ReadWindow   == {"get_test", "get_data", "get_store", "rxflush_store", "rxfree_head", "baud_rx_store"}
CancelWindow == {"cancel_data", "cancel_load", "cancel_tail", "cancel_next", "cancel_head"}

TxReady == tdr = NoChar /\ "TXEIE" \in cr1

Stripped == rtHandler = "protocol" /\ rdr \in {"command", "cancel"}

NoCharacter == rdr = "none" /\ UNCHANGED <<rxRing, rxHist>>

CommandOnly == Stripped /\ rdr = "command" /\ UNCHANGED <<rxRing, rxHist>>

Bad_CancelInput ==
    /\ Stripped /\ rdr = "cancel"
    /\ rxData' = [rxData EXCEPT ![rxHead] = rxAcc + 1]
    /\ rxHead' = BufNext(rxHead, RxSize)
    /\ rxAcc' = rxAcc + 1 /\ rxCut' = rxAcc
    /\ UNCHANGED <<rxTail, rxOverflow, rxRead>>

\* The command handler calls serialRxCancel.
CancelInput ==
    /\ Stripped /\ rdr = "cancel"
    /\ rxData' = [rxData EXCEPT ![rxHead] = rxAcc + 1]
    /\ rxTail' = rxHead /\ rxHead' = BufNext(rxHead, RxSize)
    /\ rxAcc' = rxAcc + 1 /\ rxCut' = rxAcc
    /\ UNCHANGED <<rxOverflow, rxRead>>

RingFull ==
    /\ rdr # "none" /\ ~Stripped /\ BufNext(rxHead, RxSize) = rxTail
    /\ rxOverflow' = TRUE
    /\ UNCHANGED <<rxHead, rxTail, rxData, rxHist>>

StoreInput ==
    /\ rdr # "none" /\ ~Stripped /\ BufNext(rxHead, RxSize) # rxTail
    /\ rxData' = [rxData EXCEPT ![rxHead] = rxAcc + 1]
    /\ rxHead' = BufNext(rxHead, RxSize) /\ rxAcc' = rxAcc + 1
    /\ UNCHANGED <<rxTail, rxOverflow, rxRead, rxCut>>

Receive == NoCharacter \/ CommandOnly \/ CancelInput \/ RingFull \/ StoreInput

Bad_SendNext ==
    /\ TxReady
    /\ tdr' = txData[txTail] /\ sent' = txData[txTail]
    /\ txTail' = BufNext(txTail, TxSize)
    /\ cr1' = cr1 \ {"TXEIE"}
    /\ txTaken' = (pc \in PutWindow)

\* The handler sends without looking at the head: it trusts the enable bit.
SendNext ==
    /\ TxReady
    /\ tdr' = txData[txTail] /\ sent' = txData[txTail]
    /\ txTail' = BufNext(txTail, TxSize)
    /\ cr1' = IF BufNext(txTail, TxSize) = txHead THEN cr1 \ {"TXEIE"} ELSE cr1
    /\ txTaken' = (pc \in PutWindow)

SendNothing == ~TxReady /\ UNCHANGED <<tdr, sent, txTail, cr1, txTaken>>

Preempts ==
    /\ (TxReady /\ pc \in PutWindow /\ txTaken)  => "long_window" \in Races
    /\ (rdr = "cancel" /\ Stripped /\ pc \in ReadWindow) => "cancel_in_read" \in Races
    /\ (rdr # "none" /\ pc \in CancelWindow)     => "receive_in_cancel" \in Races

UART0_IRQHandler ==
    /\ "UE" \in cr1
    /\ TxReady \/ (rdr # "none" /\ "RXNEIE" \in cr1)
    /\ Preempts
    /\ Receive
    /\ SendNext \/ SendNothing
    /\ rdr' = "none"
    /\ UNCHANGED <<tsr, txHead, txData, port, local, acc, txCut>>

-----------------------------------------------------------------------------
(* The line.                                                                *)

\* The shift register has finished and takes over the data register.
ShiftOut ==
    /\ {"UE", "TE"} \subseteq cr1 /\ (tsr # NoChar \/ tdr # NoChar)
    /\ tsr' = tdr /\ tdr' = NoChar
    /\ UNCHANGED <<cr1, rdr, txRing, rxRing, port, local, txHist, rxHist>>

\* A character has come in; with OVRDIS it replaces one that was not fetched.
ShiftIn(kind) ==
    /\ {"UE", "RE"} \subseteq cr1 /\ rxAcc < MaxRx
    /\ rdr' = kind
    /\ UNCHANGED <<cr1, tdr, tsr, txRing, rxRing, port, local, txHist, rxHist>>

-----------------------------------------------------------------------------
Call ==
    \/ PutC_Begin \/ TxFlush_Load \/ TxCount_Tail
    \/ GetC_Tail \/ RxFlush_Head \/ RxFree_Tail \/ RxCancel_Begin
    \/ SetBaudRate_Begin \/ SetFormat_Begin \/ Disable_Begin
    \/ \E h \in {"protocol", "buffer"} : SetRtHandler(h)
    \/ Claim \/ Release

Continue ==
    \/ PutC \/ TxFlush \/ TxCount_TC
    \/ GetC \/ RxFlush_Store \/ RxFree_Head \/ RxCancel
    \/ SetBaudRate \/ SetFormat \/ Disable

Next ==
    \/ Call \/ Continue \/ PutC_Abort
    \/ UART0_IRQHandler
    \/ ShiftOut \/ \E kind \in Kinds : ShiftIn(kind)

Spec == Init /\ [][Next]_vars

\* The foreground goes on with a call it has begun, except that nobody promises
\* to give up on a full ring; a pending interrupt is taken; the line shifts.
Fairness ==
    /\ WF_vars(Continue)
    /\ SF_vars(UART0_IRQHandler)
    /\ WF_vars(ShiftOut)

FairSpec == Spec /\ Fairness

-----------------------------------------------------------------------------
(* Properties.                                                              *)

\* Every variable keeps its type (counters are bounded by the configuration).
TypeOK ==
    /\ cr1 \subseteq Bits /\ reg \subseteq Bits
    /\ tdr \in Nat \union {NoChar} /\ tsr \in Nat \union {NoChar}
    /\ rdr \in Kinds \union {"none"}
    /\ txHead \in 0..TxSize-1 /\ txTail \in 0..TxSize-1 /\ txData \in [0..TxSize-1 -> Nat]
    /\ rxHead \in 0..RxSize-1 /\ rxTail \in 0..RxSize-1 /\ rxData \in [0..RxSize-1 -> Nat]
    /\ rxOverflow \in BOOLEAN /\ claimed \in BOOLEAN
    /\ rtHandler \in {"protocol", "buffer"}
    /\ ptr \in Nat /\ val \in Nat
    /\ acc \in Nat /\ sent \in Nat /\ txCut \in Nat /\ txTaken \in BOOLEAN
    /\ rxAcc \in Nat /\ rxRead \in Nat /\ rxCut \in Int

\* The transmit interrupt is enabled only while the ring holds a character: the
\* handler (serial.c:781) sends data[tail] without comparing tail with head.
NoStaleTransmit == "TXEIE" \in cr1 => txHead # txTail

\* Every character accepted by serialPutC is in the ring, has been written to
\* TDR or has been flushed: none is lost, none is in two of these places.
TxAccounted == TxCount = acc - TxGone

\* A character in the ring has its interrupt enabled, or the call that put it
\* there or that is flushing it has not returned: no output is left stranded.
NoStrandedOutput ==
    txHead # txTail =>
        \/ "TXEIE" \in cr1
        \/ pc \in {"put_load", "put_store", "txflush_tail"}

\* The three together: whatever calls touch the output ring and CR1 while the
\* handler runs, no accepted character is lost, sent twice or left stranded.
OutputSound == NoStaleTransmit /\ TxAccounted /\ NoStrandedOutput

\* TDR gets the oldest character that was neither sent nor flushed: the line
\* sees the output in the order written, nothing twice, nothing out of the blue.
TxInOrder == [][sent' # sent => sent' = TxGone + 1]_vars

\* serialTxCount returns 0 only when ring, data register and shift register are
\* all empty, although the handler runs between its two reads.
DrainedWhenZero ==
    [][(TxCount_TC /\ TxCount_Result = 0) => (TxCount = 0 /\ tdr = NoChar /\ tsr = NoChar)]_vars

\* Every accepted character is in the ring, has been returned by serialGetC or
\* has been discarded by a flush or a cancel.
RxAccounted == pc \notin CancelWindow => RxCount = rxAcc - RxGone

\* What a flush or a cancel has discarded does not come back into the ring.
Occupied(s) == s # rxHead /\ BufCount(rxHead, s, RxSize) <= RxCount
DiscardedStaysOut ==
    \A s \in 0..RxSize-1 : Occupied(s) => rxData[s] > rxCut

\* Both together: full ring, flush and cancel lose or resurrect nothing.
InputSound == RxAccounted /\ DiscardedStaysOut

\* Everything accepted leaves the ring in the end, sent or flushed.
TxDrains == \A n \in 1..MaxTx : (acc >= n) ~> (TxGone >= n)

-----------------------------------------------------------------------------
(* Both rings implement a bounded first in, first out pipe.                 *)

Contents(data, tail, count, size) ==
    [i \in 1..count |-> data[IF tail + i - 1 < size THEN tail + i - 1 ELSE tail + i - 1 - size]]

TxPipe == INSTANCE CharPipe WITH
    Capacity <- TxSize - 1, count <- acc, last <- sent,
    queue <- Contents(txData, txTail, TxCount, TxSize)

RxPipe == INSTANCE CharPipe WITH
    Capacity <- RxSize - 1, count <- rxAcc, last <- rxRead,
    queue <- Contents(rxData, rxTail, RxCount, RxSize)

\* The output side, from serialPutC to TDR, is a bounded pipe.
TxIsPipe == TxPipe!Spec

\* The input side, from RDR to serialGetC, is a bounded pipe.
RxIsPipe == RxPipe!Spec
=============================================================================
