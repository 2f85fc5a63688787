----------------------------- MODULE SdTransfer -----------------------------
(***************************************************************************)
(* The disk of FatFs over SDMMC (src/FATFS/Target/sd_diskio.c): SD_read    *)
(* and SD_write start a DMA transfer and wait for the flag its interrupt   *)
(* sets, with a time out.  Memory the DMA reaches is used directly (fast), *)
(* for other memory each sector passes through one scratch buffer.         *)
(* Bad_X is X with a mistake; no action uses it.                           *)
(***************************************************************************)
EXTENDS Integers

CONSTANTS
    Areas,         \* the areas asked for: intervals of sectors
    Sectors, Values, NoRequest, Blank, NoTransfer,
    SdRaces        \* the races nothing in the code rules out that are admitted

(***************************************************************************)
(*   late_write, late_read   a transfer through the scratch buffer goes on *)
(*                           after it was given up, and completes;         *)
(*   late_in_check           a write does so when the next write has       *)
(*                           cleared the flag and waits for the card.      *)
(* A transfer of the other kind is taken to have ended when its time is    *)
(* out: it would go on in memory that is no longer the caller's.           *)
(***************************************************************************)

VARIABLES
    disk,                      \* the card
    transfer,                  \* the transfer under way
    readStatus, writeStatus,   \* the flags
    scratch,
    request, fast, memory,     \* the call, its path and its memory
    result,                    \* what it returned
    at, sector                 \* where it is, and the sector it is at

call  == <<request, fast, memory, result, at, sector>>
flags == <<readStatus, writeStatus>>
vars  == <<disk, transfer, flags, scratch, call>>

Init ==
    /\ disk \in [Sectors -> Values]
    /\ transfer = NoTransfer /\ readStatus = FALSE /\ writeStatus = FALSE /\ scratch = Blank
    /\ request = NoRequest /\ fast = FALSE /\ memory = <<>> /\ result = "none"
    /\ at = "idle" /\ sector = 0

First(area) == CHOOSE s \in area : \A t \in area : s <= t
Reads  == request.op = "read"
Idle   == transfer = NoTransfer

Call(op, f) ==
    /\ at = "idle" /\ at' = "check"
    /\ request' = [op |-> op, area |-> DOMAIN f] /\ fast' \in BOOLEAN /\ memory' = f
    /\ result' = "none" /\ sector' = First(DOMAIN f)
    /\ writeStatus' = (writeStatus /\ op = "read")
    /\ UNCHANGED <<disk, transfer, readStatus, scratch>>

Return(res) ==
    /\ request' = NoRequest /\ fast' = FALSE /\ memory' = <<>> /\ result' = res
    /\ at' = "idle" /\ sector' = 0

\* SD_CheckStatusWithTimeout: the card is ready when no transfer is under way.
Check ==
    /\ at = "check"
    /\ \/ Idle /\ at' = "start" /\ UNCHANGED <<request, fast, memory, result, sector>>
       \/ Return("error")
    /\ UNCHANGED <<disk, transfer, flags, scratch>>

\* BSP_SD_ReadBlocks_DMA and BSP_SD_WriteBlocks_DMA: refused while another one is
\* under way or when the card does not take the command.  A write clears its
\* flag and fills the scratch buffer first, a fast read clears it afterwards.
Bad_Cleared == writeStatus
Cleared     == writeStatus /\ (fast \/ Reads)

Start ==
    /\ at = "start"
    /\ writeStatus' = Cleared
    /\ scratch' = IF fast \/ Reads THEN scratch ELSE memory[sector]
    /\ \/ /\ Idle
          /\ transfer' = [op |-> request.op, area |-> IF fast THEN request.area ELSE {sector},
                          fast |-> fast]
          /\ at' = (IF fast /\ Reads THEN "clear" ELSE "wait")
          /\ UNCHANGED <<request, fast, memory, result, sector>>
       \/ Return("error") /\ UNCHANGED transfer
    /\ UNCHANGED <<disk, readStatus>>

Clear ==
    /\ at = "clear" /\ at' = "wait" /\ readStatus' = FALSE
    /\ UNCHANGED <<disk, transfer, writeStatus, scratch, request, fast, memory, result, sector>>

\* The flag of a fast transfer, and of every read, is cleared again.
Flag == IF Reads THEN readStatus ELSE writeStatus

Wait ==
    /\ at = "wait" /\ Flag
    /\ readStatus' = (readStatus /\ ~Reads) /\ writeStatus' = (writeStatus /\ (Reads \/ ~fast))
    /\ LET copied == IF Reads /\ ~fast THEN [memory EXCEPT ![sector] = scratch] ELSE memory
       IN \/ /\ fast /\ at' = "ready" /\ UNCHANGED <<memory, sector>>
          \/ /\ ~fast /\ sector + 1 \in request.area /\ memory' = copied
             /\ sector' = sector + 1 /\ at' = "start"
          \/ /\ ~fast /\ sector + 1 \notin request.area /\ memory' = copied
             /\ at' = "done" /\ UNCHANGED sector
    /\ UNCHANGED <<disk, transfer, scratch, request, fast, result>>

TimeOut ==
    /\ at = "wait" /\ ~Flag
    /\ ~Idle => ~fast /\ transfer.op = request.op
                     /\ (IF Reads THEN "late_read" ELSE "late_write") \in SdRaces
    /\ Return("error")
    /\ UNCHANGED <<disk, transfer, flags, scratch>>

\* A fast transfer waits once more for the card to be ready.
Ready ==
    /\ at = "ready" /\ Idle
    /\ \/ at' = "done" /\ UNCHANGED <<request, fast, memory, result, sector>>
       \/ Return("error")
    /\ UNCHANGED <<disk, transfer, flags, scratch>>

Ok ==
    /\ at = "done" /\ Return("ok")
    /\ UNCHANGED <<disk, transfer, flags, scratch>>

\* The DMA moves the sectors of S; the transfer ends with it.
Move(S) ==
    /\ transfer' = NoTransfer
    /\ IF transfer.op = "write"
       THEN /\ disk' = [s \in Sectors |->
                  IF s \notin S THEN disk[s] ELSE IF transfer.fast THEN memory[s] ELSE scratch]
            /\ UNCHANGED <<memory, scratch>>
       ELSE /\ scratch' = IF transfer.fast \/ S = {} THEN scratch ELSE disk[First(S)]
            /\ memory' = IF transfer.fast THEN [s \in DOMAIN memory |->
                             IF s \in S THEN disk[s] ELSE memory[s]] ELSE memory
            /\ UNCHANGED disk

\* BSP_SD_ReadCpltCallback, BSP_SD_WriteCpltCallback.
Complete ==
    /\ ~Idle /\ Move(transfer.area)
    /\ (at = "check" /\ fast /\ ~Reads) => "late_in_check" \in SdRaces
    /\ readStatus' = (readStatus \/ transfer.op = "read")
    /\ writeStatus' = (writeStatus \/ transfer.op = "write")
    /\ UNCHANGED <<request, fast, result, at, sector>>

\* An error ends a transfer as well, and no callback is defined for it.
Error ==
    /\ ~Idle /\ \E S \in SUBSET transfer.area : Move(S)
    /\ UNCHANGED <<flags, request, fast, result, at, sector>>

Next ==
    \/ \E area \in Areas : Call("read", [s \in area |-> Blank])
    \/ \E area \in Areas : \E f \in [area -> Values] : Call("write", f)
    \/ Check \/ Start \/ Clear \/ Wait \/ TimeOut \/ Ready \/ Ok \/ Complete \/ Error

Spec == Init /\ [][Next]_vars

-----------------------------------------------------------------------------
SdTypeOK ==
    /\ disk \in [Sectors -> Values] /\ scratch \in Values \union {Blank}
    /\ {readStatus, writeStatus, fast} \subseteq BOOLEAN
    /\ at \in {"idle", "check", "start", "clear", "wait", "ready", "done"}
    /\ request # NoRequest => memory \in [request.area -> Values \union {Blank}]

\* What may get to the disk: what the call has to write, and what is under way.
UnderWay == IF ~Idle /\ transfer.op = "write" /\ ~transfer.fast
            THEN {<<s, scratch>> : s \in transfer.area} ELSE {}
Asked    == IF request # NoRequest /\ ~Reads
            THEN {<<s, memory[s]>> : s \in request.area} ELSE {}

Device == INSTANCE BlockDevice WITH wanted <- UnderWay \union Asked

\* The driver is a block device: whatever fails or is given up, a read that is
\* done has returned what is on the card and a write that is done is on it, and
\* nothing given up before reaches the card after that.
IsBlockDevice == Device!Spec

\* sd_diskio.c:295: "wait until the read is successful or a timeout occurs".  A
\* sector is copied from the scratch buffer when its transfer is over.
ReadWasSuccessful ==
    [][at = "wait" /\ at' \in {"start", "done"} /\ Reads => transfer = NoTransfer]_vars
=============================================================================
