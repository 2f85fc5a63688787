----------------------------- MODULE CanFilters -----------------------------
(***************************************************************************)
(* Receiving over CAN (src/Src/can.c): filters are added in the foreground *)
(* while the interrupt empties the receive FIFO and passes each frame on   *)
(* with the callback of the filter that let it in.                         *)
(* Bad_X is X with a mistake; no action uses it.                           *)
(***************************************************************************)
EXTENDS Naturals, Sequences

CONSTANTS
    MaxFilters,   \* CAN_MAX_FILTERS
    FifoSize,     \* frames the peripheral holds
    Owners        \* the callbacks

VARIABLES
    filters,            \* the filters the peripheral uses
    rxCallbacks, index, \* rx_callbacks, and the next free one
    adding,             \* the callback of a filter being added, or 0
    fifo, newMessage,   \* the frames by filter, and the interrupt flag
    inCallback,         \* HAL_FDCAN_RxFifo0Callback is running
    passedOn,           \* the frame passed on last: filter and callback
    (* history *)
    owner               \* who has asked for each filter

canVars == <<filters, rxCallbacks, index, adding, fifo, newMessage, inCallback, passedOn, owner>>

Indices == 0..MaxFilters - 1

CanInit ==
    /\ filters = {} /\ rxCallbacks = [i \in Indices |-> 0] /\ index = 0 /\ adding = 0
    /\ fifo = <<>> /\ newMessage = FALSE /\ inCallback = FALSE
    /\ passedOn = <<>> /\ owner = [i \in Indices |-> 0]

\* can_add_filter: the callback is stored, then the filter is set up.
AddFilter(cb) ==
    /\ ~inCallback /\ adding = 0 /\ index < MaxFilters
    /\ adding' = cb /\ owner' = [owner EXCEPT ![index] = cb]
    /\ rxCallbacks' = [rxCallbacks EXCEPT ![index] = cb] /\ index' = index + 1
    /\ UNCHANGED <<filters, fifo, newMessage, inCallback, passedOn>>

\* A mistake: the filter is set up at the index that is free now.
Bad_ConfigFilter ==
    /\ ~inCallback /\ adding # 0 /\ adding' = 0
    /\ \/ filters' = filters \union {index % MaxFilters}
       \/ UNCHANGED filters
    /\ UNCHANGED <<rxCallbacks, index, fifo, newMessage, inCallback, passedOn, owner>>

ConfigFilter ==
    /\ ~inCallback /\ adding # 0 /\ adding' = 0
    /\ \/ filters' = filters \union {index - 1}
       \/ UNCHANGED filters
    /\ UNCHANGED <<rxCallbacks, index, fifo, newMessage, inCallback, passedOn, owner>>

\* A frame that a filter lets in; the others, and all when there is no room, are
\* rejected by the peripheral.
Frame(i) ==
    /\ i \in filters /\ Len(fifo) < FifoSize
    /\ fifo' = Append(fifo, i) /\ newMessage' = TRUE
    /\ UNCHANGED <<filters, rxCallbacks, index, adding, inCallback, passedOn, owner>>

\* The handler of the library clears the flag and calls the callback.
Interrupt ==
    /\ newMessage /\ ~inCallback
    /\ newMessage' = FALSE /\ inCallback' = TRUE
    /\ UNCHANGED <<filters, rxCallbacks, index, adding, fifo, passedOn, owner>>

RxFrame ==
    /\ inCallback /\ fifo # <<>>
    /\ fifo' = Tail(fifo)
    /\ passedOn' = <<Head(fifo), rxCallbacks[Head(fifo)]>>
    /\ UNCHANGED <<filters, rxCallbacks, index, adding, newMessage, inCallback, owner>>

RxDone ==
    /\ inCallback /\ fifo = <<>> /\ inCallback' = FALSE
    /\ UNCHANGED <<filters, rxCallbacks, index, adding, fifo, newMessage, passedOn, owner>>

CanNext ==
    \/ \E cb \in Owners : AddFilter(cb)
    \/ \E i \in Indices : Frame(i)
    \/ ConfigFilter \/ Interrupt \/ RxFrame \/ RxDone

CanSpec == CanInit /\ [][CanNext]_canVars

-----------------------------------------------------------------------------
CanTypeOK ==
    /\ filters \subseteq Indices /\ index \in 0..MaxFilters
    /\ {rxCallbacks, owner} \subseteq [Indices -> Owners \union {0}] /\ adding \in Owners \union {0}
    /\ fifo \in Seq(Indices) /\ {newMessage, inCallback} \subseteq BOOLEAN

\* A frame is passed on with the callback of the one who asked for its filter,
\* also when it arrives while the filter is being added, and none is left in the
\* FIFO without an interrupt to come.
FramesReachTheirOwner ==
    /\ passedOn # <<>> => passedOn[2] = owner[passedOn[1]] /\ passedOn[2] # 0
    /\ fifo # <<>> => newMessage \/ inCallback
=============================================================================
