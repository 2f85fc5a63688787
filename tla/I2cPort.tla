------------------------------ MODULE I2cPort ------------------------------
(***************************************************************************)
(* The calls of src/Src/i2c.c over the interrupt driven transfers of the   *)
(* vendor library: send, receive, and a key code fetched with a callback.  *)
(* await_rx is TRUE from the start of a receive to its completion and is   *)
(* what the next call waits for, with the flag that the bus is busy.       *)
(* A callback is a number, 0 is NULL, as is a key code when there is none. *)
(* Bad_X is X with a mistake; no action uses it.                           *)
(***************************************************************************)
EXTENDS Naturals

CONSTANTS
    Keypads,     \* the callbacks of those who ask for a key
    Keys,        \* the key codes
    I2cRaces     \* the races nothing in the code rules out that are admitted

(***************************************************************************)
(*   done_in_call  a receive completes before the call that started it has *)
(*                 set await_rx, or cleared the key code;                  *)
(*   nack          a receive ends with an error: nothing clears await_rx;  *)
(*   busy_late     a call waits for a send before the bus is busy with it. *)
(***************************************************************************)

VARIABLES
    awaitRx, keycode, keypad,   \* await_rx, keycode, keypad_callback
    bus, begun,                 \* the transfer under way, and whether the bus is busy
    i2cAt, wish,                \* where the call is, and the call
    returned,                   \* what the last call returned
    (* history *)
    keyFor, told                \* who asked for the key; who was called back

wire == <<bus, begun>>
rx   == <<awaitRx, keycode, keypad>>
hist == <<keyFor, told>>
i2cVars == <<rx, wire, i2cAt, wish, returned, hist>>

NoCall == [op |-> "none", block |-> FALSE, for |-> 0]
Wishes ==
    [op : {"send", "receive"}, block : BOOLEAN, for : {0}]
    \union [op : {"probe"}, block : {FALSE}, for : {0}]
    \union [op : {"key"}, block : {FALSE}, for : Keypads]

I2cInit ==
    /\ awaitRx = FALSE /\ keycode = 0 /\ keypad = 0
    /\ bus = "none" /\ begun = FALSE
    /\ i2cAt = "idle" /\ wish = NoCall /\ returned = FALSE
    /\ keyFor = 0 /\ told = 0

Receives == wish.op \in {"receive", "key"}

Return(ok) == i2cAt' = "idle" /\ wish' = NoCall /\ returned' = ok

Call(w) ==
    /\ i2cAt = "idle" /\ i2cAt' = "ready" /\ wish' = w /\ told' = 0
    /\ UNCHANGED <<rx, wire, returned, keyFor>>

\* The condition of wait_ready.
Waits == awaitRx \/ (bus # "none" /\ begun)

Ready ==
    /\ i2cAt = "ready" /\ ~Waits /\ i2cAt' = "start"
    /\ UNCHANGED <<rx, wire, wish, returned, hist>>

\* hal.stream_blocking_callback says so.
GiveUp ==
    /\ i2cAt \in {"ready", "wait"} /\ Waits /\ Return(FALSE)
    /\ awaitRx' = (awaitRx /\ wish.op # "key")
    /\ UNCHANGED <<keycode, keypad, wire, hist>>

\* The library refuses when a transfer is under way.  A blocking transfer, as of
\* i2c_probe and i2c_transfer, is over when its call returns.
Start ==
    /\ i2cAt = "start"
    /\ \/ /\ bus = "none" /\ wish.op # "probe"
          /\ bus' = wish.op /\ i2cAt' = "store" /\ keyFor' = wish.for
          /\ UNCHANGED <<awaitRx, wish, returned>>
       \/ /\ \E ok \in BOOLEAN : Return(ok /\ bus = "none" /\ wish.op = "probe")
          /\ awaitRx' = (awaitRx /\ ~Receives)
          /\ UNCHANGED <<bus, keyFor>>
    /\ UNCHANGED <<keycode, keypad, begun, told>>

\* A mistake: await_rx is set only for a receive that does not block.
Bad_Awaited == awaitRx \/ (Receives /\ ~wish.block)
Awaited     == awaitRx \/ Receives

Store ==
    /\ i2cAt = "store"
    /\ awaitRx' = Awaited
    /\ keycode' = (IF wish.op = "key" THEN 0 ELSE keycode)
    /\ keypad' = (IF wish.op = "key" THEN wish.for ELSE keypad)
    /\ IF wish.block THEN i2cAt' = "wait" /\ UNCHANGED <<wish, returned>> ELSE Return(TRUE)
    /\ UNCHANGED <<wire, hist>>

Wait ==
    /\ i2cAt = "wait" /\ ~Waits
    /\ bus = "send" => "busy_late" \in I2cRaces
    /\ Return(TRUE)
    /\ UNCHANGED <<rx, wire, hist>>

-----------------------------------------------------------------------------
(* The bus and its interrupts.                                              *)

Begin ==
    /\ bus # "none" /\ ~begun /\ begun' = TRUE
    /\ UNCHANGED <<rx, bus, i2cAt, wish, returned, hist>>

Ends == begun /\ bus' = "none" /\ begun' = FALSE /\ UNCHANGED <<i2cAt, wish, returned, keyFor>>

Sent ==
    /\ bus = "send" /\ Ends
    /\ told' = 0 /\ UNCHANGED rx

\* HAL_I2C_MasterRxCpltCallback.
Called(code) ==
    /\ told' = (IF code # 0 THEN keypad ELSE 0)
    /\ keypad' = (IF code # 0 THEN 0 ELSE keypad)

Received(code) ==
    /\ bus \in {"receive", "key"} /\ Ends
    /\ i2cAt = "store" => "done_in_call" \in I2cRaces
    /\ bus = "receive" => code = keycode
    /\ keycode' = code /\ awaitRx' = FALSE
    /\ Called(code)

Failed ==
    /\ bus \in {"receive", "key"} => "nack" \in I2cRaces
    /\ bus # "none" /\ Ends
    /\ told' = 0 /\ UNCHANGED rx

I2cNext ==
    \/ \E w \in Wishes : Call(w)
    \/ Ready \/ GiveUp \/ Start \/ Store \/ Wait
    \/ Begin \/ Sent \/ Failed
    \/ \E code \in Keys \union {0} : Received(code)

I2cSpec == I2cInit /\ [][I2cNext]_i2cVars

-----------------------------------------------------------------------------
I2cTypeOK ==
    /\ {awaitRx, begun, returned} \subseteq BOOLEAN
    /\ keycode \in Keys \union {0} /\ {keypad, keyFor, told} \subseteq Keypads \union {0}
    /\ bus \in {"none", "send", "receive", "key"}
    /\ i2cAt \in {"idle", "ready", "start", "store", "wait"} /\ wish \in Wishes \union {NoCall}

\* A call that blocks returns TRUE only when its transfer is over; await_rx is
\* left set only while a receive is under way that will clear it, so that no
\* later call waits for ever; and a key is told to the one who asked for it
\* last, once, and nobody is called for a receive that is not of a key.
ReceivesAreAwaited ==
    [][/\ i2cAt = "wait" /\ i2cAt' = "idle" /\ returned' => bus = "none"
       /\ i2cAt' = "idle" /\ awaitRx' => bus' \in {"receive", "key"}
       /\ bus # "none" /\ bus' = "none" =>
            told' = (IF bus = "key" /\ keycode' # 0 THEN keyFor ELSE 0)]_i2cVars
=============================================================================
