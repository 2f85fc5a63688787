SPECIFICATION FairSpec
CONSTANTS
    RxSize = 3
    TxSize = 3
    MaxRx = 1
    MaxTx = 3
    Races = {"cancel_in_read", "receive_in_cancel"}
INVARIANTS
    TypeOK
    OutputSound
PROPERTIES
    TxInOrder
    DrainedWhenZero
    TxIsPipe
    TxDrains
