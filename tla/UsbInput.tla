------------------------------ MODULE UsbInput ------------------------------
(***************************************************************************)
(* The input side of src/Src/usb_serial.c: a ring that the USB interrupt   *)
(* fills a packet at a time and the foreground empties a character at a    *)
(* time, and a sender that goes by the room reported to it.  Characters    *)
(* are numbered as they are stored.  A definition named Bad_X is X with a  *)
(* mistake the properties must notice; no action uses it.                  *)
(***************************************************************************)
EXTENDS Integers

CONSTANTS
    Size,       \* RX_BUFFER_SIZE
    MaxPacket,  \* longest packet
    Margins,    \* how many characters of the room reported a sender may leave free
    MaxChars,   \* bound on the characters stored in a behaviour
    Races       \* the interleavings nothing in the code rules out that are admitted

(***************************************************************************)
(* Excluded unless in Races:                                               *)
(*   receive_in_cancel, receive_in_flush                                   *)
(*                   a packet comes between the stores of usbRxCancel, or  *)
(*                   of usbRxFlush;                                        *)
(*   cancel_in_read, cancel_in_flush                                       *)
(*                   a real time command cancels the input while usbGetC   *)
(*                   or usbRxFree holds a copy of the tail, or within      *)
(*                   usbRxFlush.                                           *)
(***************************************************************************)
AllRaces == {"receive_in_cancel", "receive_in_flush", "cancel_in_read", "cancel_in_flush"}

ASSUME SizesAssumption ==
    /\ Size \in Nat /\ Size > 1 /\ MaxPacket \in Nat \ {0}
    /\ Margins \subseteq Nat /\ MaxChars \in Nat
ASSUME RacesAssumption == Races \subseteq AllRaces

VARIABLES
    data, head, tail, overflow,   \* rxbuf
    pc, reg,                      \* where the foreground is, its copy of tail
    (* history *)
    count,                        \* characters stored
    got,                          \* the last one read
    gone,                         \* those up to here were flushed
    credit,                       \* room the sender still counts on
    margin                        \* what this sender leaves free

ring == <<data, head, tail, overflow>>
vars == <<ring, pc, reg, count, got, gone, credit, margin>>

Slots    == 0..Size - 1
Next_(i) == (i + 1) % Size                       \* BUFNEXT
Count(h, t) == (h - t + Size) % Size             \* BUFCOUNT
Larger(a, b) == IF a >= b THEN a ELSE b

Init ==
    /\ data = [i \in Slots |-> 0] /\ head = 0 /\ tail = 0 /\ overflow = FALSE
    /\ pc = "idle" /\ reg = 0
    /\ count = 0 /\ got = 0 /\ gone = 0 /\ credit = 0
    /\ margin \in Margins

-----------------------------------------------------------------------------
(* usbBufferInput, in the USB interrupt: the foreground does not run.  A     *)
(* packet is of plain characters, or is one real time command.              *)

\* As many characters of a packet as there is room for.
Stored(n) == IF n <= Size - 1 - Count(head, tail) THEN n ELSE Size - 1 - Count(head, tail)

BufferInput(n) ==
    /\ n <= credit - margin /\ credit' = credit - n
    /\ count + n <= MaxChars
    /\ pc \in {"cancel", "cancelled"} => "receive_in_cancel" \in Races
    /\ pc = "flush" => "receive_in_flush" \in Races
    /\ data' = [i \in Slots |-> IF Count(i, head) < Stored(n) THEN count + 1 + Count(i, head) ELSE data[i]]
    /\ head' = (head + Stored(n)) % Size
    /\ overflow' = (overflow \/ Stored(n) < n)
    /\ count' = count + Stored(n)
    /\ UNCHANGED <<tail, pc, reg, got, gone, margin>>

\* A real time command is stripped; what the core does with it may be to call
\* usbRxCancel from here.
CommandCancels ==
    /\ count < MaxChars
    /\ pc \in {"cancel", "cancelled"} => "receive_in_cancel" \in Races
    /\ pc = "flush" => "cancel_in_flush" \in Races
    /\ pc \in {"read", "free"} => "cancel_in_read" \in Races
    /\ data' = [data EXCEPT ![head] = count + 1]
    /\ tail' = head /\ head' = Next_(head)
    /\ count' = count + 1 /\ gone' = count
    /\ UNCHANGED <<overflow, pc, reg, got, credit, margin>>

-----------------------------------------------------------------------------
(* The foreground.                                                          *)

Goto(from, to) == pc = from /\ pc' = to

\* usbGetC: the read, and the store of the tail.
GetC_Read ==
    /\ Goto("idle", "read") /\ tail # head
    /\ reg' = tail /\ got' = data[tail]
    /\ UNCHANGED <<ring, count, gone, credit, margin>>

GetC_Store ==
    /\ Goto("read", "idle")
    /\ tail' = Next_(reg) /\ reg' = 0
    /\ UNCHANGED <<data, head, overflow, count, got, gone, credit, margin>>

\* usbRxFree, when the core reports the room: tail first, then head.
Free_Tail ==
    /\ Goto("idle", "free") /\ reg' = tail
    /\ UNCHANGED <<ring, count, got, gone, credit, margin>>

Bad_Free_Head ==
    /\ Goto("free", "idle") /\ reg' = 0
    /\ credit' = Size - Count(reg, head)
    /\ UNCHANGED <<ring, count, got, gone, margin>>

Free_Head ==
    /\ Goto("free", "idle") /\ reg' = 0
    /\ credit' = Size - Count(head, reg)
    /\ UNCHANGED <<ring, count, got, gone, margin>>

\* usbRxFlush: tail, then head.
Flush_Tail ==
    /\ Goto("idle", "flush") /\ tail' = 0
    /\ UNCHANGED <<data, head, overflow, reg, count, got, gone, credit, margin>>

Bad_Flush_Head ==
    /\ Goto("flush", "idle") /\ gone' = count
    /\ UNCHANGED <<ring, reg, count, got, credit, margin>>

Flush_Head ==
    /\ Goto("flush", "idle") /\ head' = 0 /\ gone' = count
    /\ UNCHANGED <<data, tail, overflow, reg, count, got, credit, margin>>

\* usbRxCancel: the CAN character, which is numbered like the others.
Cancel_Store ==
    /\ Goto("idle", "cancel") /\ count < MaxChars
    /\ data' = [data EXCEPT ![head] = count + 1] /\ count' = count + 1
    /\ gone' = count
    /\ UNCHANGED <<head, tail, overflow, reg, got, credit, margin>>

Cancel_Tail ==
    /\ Goto("cancel", "cancelled") /\ tail' = head
    /\ UNCHANGED <<data, head, overflow, reg, count, got, gone, credit, margin>>

Cancel_Head ==
    /\ Goto("cancelled", "idle") /\ head' = Next_(head)
    /\ UNCHANGED <<data, tail, overflow, reg, count, got, gone, credit, margin>>

Foreground ==
    \/ GetC_Read \/ GetC_Store \/ Free_Tail \/ Free_Head
    \/ Flush_Tail \/ Flush_Head \/ Cancel_Store \/ Cancel_Tail \/ Cancel_Head

Next == (\E n \in 1..MaxPacket : BufferInput(n)) \/ CommandCancels \/ Foreground

Spec == Init /\ [][Next]_vars

-----------------------------------------------------------------------------
(* Properties.                                                              *)

\* Every variable keeps its type.
TypeOK ==
    /\ data \in [Slots -> 0..MaxChars] /\ head \in Slots /\ tail \in Slots
    /\ overflow \in BOOLEAN /\ reg \in Slots
    /\ pc \in {"idle", "read", "free", "flush", "cancel", "cancelled"}
    /\ count \in 0..MaxChars /\ got \in 0..MaxChars /\ gone \in 0..MaxChars
    /\ credit \in 0..Size /\ margin \in Margins

\* The characters read are the stored ones in their order, none is read twice
\* or left out, and none after it was flushed or cancelled: after a cancel the
\* CAN character is the next one.
ReadsInOrder == [][got' # got => got' = Larger(got, gone) + 1]_vars

\* No character of a sender that goes by the room reported to it is dropped.
RoomAsReported == ~overflow

\* A sender that leaves two characters of that room free, the slot a full ring
\* keeps empty and one for the CAN of a cancel, has nothing dropped, unless it
\* sends in the middle of a flush, which discards it anyway.
RoomIsThere == [][margin >= 2 /\ overflow' # overflow => pc = "flush"]_vars
=============================================================================
