------------------------------ MODULE UsbOutput ------------------------------
(***************************************************************************)
(* The output side of src/Src/usb_serial.c: text is gathered in one of two *)
(* buffers and handed to the CDC class, which reads it from there while    *)
(* the other buffer is filled.  Characters are numbered in the order they  *)
(* are written.  The USB interrupt preempts the program, the only writer.  *)
(* A definition named Bad_X is X with a mistake the properties must        *)
(* notice; no action uses it.                                              *)
(***************************************************************************)
EXTENDS Integers, Sequences

CONSTANTS
    MaxLength,   \* txbuf.max_length
    Packet,      \* 64: a transfer of a multiple of it is followed by an empty one
    Fifo,        \* what the endpoint's transmit FIFO holds
    MaxText,     \* longest text written at once
    MaxChars,    \* bound on the characters written in a behaviour
    Races        \* the sequences of calls nothing in the code rules out that are admitted

(***************************************************************************)
(* The sequences that break the output, excluded unless in Races:          *)
(*   aborted    the blocking callback ends the wait of usb_write;          *)
(*   overtaken  usbPutC is called when a text that does not end in a line  *)
(*              feed is still in the buffer.                               *)
(***************************************************************************)
AllRaces == {"aborted", "overtaken"}

ASSUME SizesAssumption ==
    MaxLength \in Nat \ {0} /\ Packet \in Nat \ {0} /\ Fifo \in Nat \ {0} /\ MaxText \in Nat
ASSUME RacesAssumption == Races \subseteq AllRaces /\ MaxChars \in Nat

VARIABLES
    data,             \* the two buffers, the one of usbPutC, and the dummy
    cur,              \* use_tx2data: the buffer that is filled
    length, s,        \* txbuf.length, and txbuf.s as an offset
    flight,           \* the transfer under way: buffer, length, how much was read
    pc,               \* where the writer is
    text,             \* characters of its text still to copy, whether to send it
    written,          \* characters written so far
    (* history *)
    host,             \* what the host receives, until a wait is given up
    gaveUp            \* the waits of usb_write that have been given up

buffer == <<data, cur, length, s>>
writer == <<pc, text, written>>
vars   == <<buffer, flight, writer, host, gaveUp>>

Buffers == {"data", "data2", "char", "dummy"}
Other(b) == IF b = "data" THEN "data2" ELSE "data"

NoFlight == [of |-> "none", len |-> 0, done |-> 0]
Busy     == flight # NoFlight                \* TxState

Smaller(a, b) == IF a <= b THEN a ELSE b

Init ==
    /\ data = [b \in Buffers |-> [i \in 1..MaxLength |-> 0]]
    /\ cur = "data" /\ length = 0 /\ s = 0 /\ flight = NoFlight
    /\ pc = "idle" /\ text = [left |-> 0, send |-> FALSE]
    /\ written = 0 /\ host = <<>> /\ gaveUp = {}

-----------------------------------------------------------------------------
(* The CDC class and the USB interrupt.                                     *)

\* The interrupt copies what the FIFO has room for.
Load ==
    /\ Busy /\ flight.done < flight.len
    /\ LET end == Smaller(flight.done + Fifo, flight.len) IN
        /\ flight' = [flight EXCEPT !.done = end]
        /\ host' = IF gaveUp # {} THEN host
                   ELSE host \o [i \in 1..(end - flight.done) |-> data[flight.of][flight.done + i]]
    /\ UNCHANGED <<buffer, writer, gaveUp>>

TransmitCplt ==
    /\ Busy /\ flight.done = flight.len
    /\ flight' = NoFlight
    /\ UNCHANGED <<buffer, writer, host, gaveUp>>

\* CDC_Transmit when it is not busy.
Transmit(b, len) == ~Busy /\ flight' = [of |-> b, len |-> len, done |-> 0]

\* The first load comes at once: the FIFO is empty when a transfer starts.
Runs == Busy => flight.done >= Smaller(Fifo, flight.len)

-----------------------------------------------------------------------------
(* The writer.                                                              *)

Goto(from, to) == Runs /\ pc = from /\ pc' = to

\* usbWriteS and usbWrite; the one sends only what ends in a line feed.
Write(n, send) ==
    /\ Goto("idle", IF length > 0 /\ length + n > MaxLength THEN "flush" ELSE "copy")
    /\ written + n <= MaxChars
    /\ text' = [left |-> n, send |-> send]
    /\ UNCHANGED <<buffer, flight, written, host, gaveUp>>

\* memcpy to the position of txbuf.s
Copied(n) ==
    data' = [data EXCEPT ![cur] = [i \in 1..MaxLength |->
                IF i \in s + 1..s + n THEN written + i - s ELSE @[i]]]

\* The text is longer than a buffer.
Copy_Part ==
    /\ Goto("copy", "part") /\ text.left > MaxLength
    /\ Copied(MaxLength) /\ length' = MaxLength
    /\ text' = [text EXCEPT !.left = @ - MaxLength] /\ written' = written + MaxLength
    /\ UNCHANGED <<cur, s, flight, host, gaveUp>>

Bad_Copy_Rest ==
    /\ Goto("copy", IF text.send THEN "send" ELSE "idle") /\ text.left <= MaxLength
    /\ Copied(text.left) /\ length' = length + text.left /\ UNCHANGED s
    /\ text' = [text EXCEPT !.left = 0] /\ written' = written + text.left
    /\ UNCHANGED <<cur, flight, host, gaveUp>>

Copy_Rest ==
    /\ Goto("copy", IF text.send THEN "send" ELSE "idle") /\ text.left <= MaxLength
    /\ Copied(text.left) /\ length' = length + text.left /\ s' = s + text.left
    /\ text' = [text EXCEPT !.left = 0] /\ written' = written + text.left
    /\ UNCHANGED <<cur, flight, host, gaveUp>>

\* usb_write: where it was called from, and where the writer goes on after it.
Sending == {"flush", "part", "send"}
After   == [flush |-> "copy", part |-> "copy", send |-> "idle"]
Zlp     == [flush |-> "flush_zlp", part |-> "part_zlp", send |-> "send_zlp"]

Bad_Swap == cur' = cur /\ s' = 0 /\ length' = 0

Swap == cur' = Other(cur) /\ s' = 0 /\ length' = 0

Bad_Send ==
    /\ \E from \in Sending : Goto(from, After[from]) /\ Swap
    /\ flight' = IF Busy THEN flight ELSE [of |-> cur, len |-> length, done |-> 0]
    /\ UNCHANGED <<data, text, written, host, gaveUp>>

\* The first transfer; txbuf.s is set to the start of the buffer before it.
Send ==
    /\ \E from \in Sending :
        \/ length % Packet = 0 /\ Goto(from, Zlp[from]) /\ s' = 0 /\ UNCHANGED <<cur, length>>
        \/ length % Packet # 0 /\ Goto(from, After[from]) /\ Swap
    /\ Transmit(cur, length)
    /\ UNCHANGED <<data, text, written, host, gaveUp>>

Send_Zlp ==
    /\ \E from \in Sending : Goto(Zlp[from], After[from])
    /\ Transmit("dummy", 0) /\ Swap
    /\ UNCHANGED <<data, text, written, host, gaveUp>>

\* hal.stream_blocking_callback returns false: all callers return.
Abort ==
    /\ Busy /\ "aborted" \in Races
    /\ \E from \in Sending :
        \/ Goto(from, "idle") /\ gaveUp' = gaveUp \union {"text"}
        \/ Goto(Zlp[from], "idle") /\ gaveUp' = gaveUp \union {"empty"}
    /\ s' = 0
    /\ UNCHANGED <<data, cur, length, flight, text, written, host>>

\* usbPutC: the character is stored first, then the transfer is tried.
PutC ==
    /\ Goto("idle", "char") /\ written < MaxChars
    /\ length > 0 => "overtaken" \in Races
    /\ data' = [data EXCEPT !["char"][1] = written + 1] /\ written' = written + 1
    /\ UNCHANGED <<cur, length, s, flight, text, host, gaveUp>>

PutC_Send ==
    /\ Goto("char", "idle") /\ Transmit("char", 1)
    /\ UNCHANGED <<buffer, text, written, host, gaveUp>>

PutC_Abort ==
    /\ Goto("char", "idle") /\ Busy
    /\ UNCHANGED <<buffer, flight, text, written, host, gaveUp>>

-----------------------------------------------------------------------------
Usb == Load \/ TransmitCplt

Writer ==
    \/ \E n \in 1..MaxText, send \in BOOLEAN : Write(n, send)
    \/ Copy_Part \/ Copy_Rest \/ Send \/ Send_Zlp \/ Abort
    \/ PutC \/ PutC_Send \/ PutC_Abort

Next == Usb \/ Writer

Spec == Init /\ [][Next]_vars

\* The host takes what it is offered, and a write goes on when it can.
FairSpec == Spec /\ WF_vars(Usb) /\ WF_vars(Copy_Part \/ Copy_Rest \/ Send \/ Send_Zlp)

-----------------------------------------------------------------------------
(* Properties.                                                              *)

Places == {"idle", "copy", "char"} \union Sending \union {Zlp[f] : f \in Sending}

\* Every variable keeps its type; no copy goes beyond a buffer.
TypeOK ==
    /\ data \in [Buffers -> [1..MaxLength -> 0..MaxChars]]
    /\ cur \in {"data", "data2"} /\ length \in 0..MaxLength /\ s \in 0..MaxLength
    /\ flight \in {NoFlight} \union
         [of : Buffers, len : 0..MaxLength, done : 0..MaxLength]
    /\ pc \in Places /\ text \in [left : 0..MaxText, send : BOOLEAN]
    /\ written \in 0..MaxChars /\ host \in Seq(0..MaxChars)
    /\ gaveUp \subseteq {"text", "empty"}

\* Until a wait for the class is given up, the host receives the characters in
\* the order they were written, none twice and nothing that was not written.
HostReadsInOrder ==
    /\ \A i \in DOMAIN host : host[i] > 0
    /\ \A i, j \in DOMAIN host : i < j => host[i] < host[j]

\* A transfer under way is not written over: what the class has yet to read of
\* it is in neither buffer being filled.  Giving up the wait for a transfer does
\* not change that, unless it was the wait for the empty one.
FlightUntouched ==
    [][flight' = flight /\ "empty" \notin gaveUp =>
        \A i \in flight.done + 1..flight.len : data'[flight.of][i] = data[flight.of][i]]_vars

\* Whatever is written to be sent reaches the host in the end, or a wait is
\* given up.
TextArrives == \A n \in 1..MaxChars :
    (pc = "send" /\ written = n) ~> (gaveUp # {} \/ (host # <<>> /\ host[Len(host)] >= n))
=============================================================================
