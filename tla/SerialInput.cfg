SPECIFICATION Spec
CONSTANTS
    RxSize = 3
    TxSize = 3
    MaxRx = 4
    MaxTx = 1
    Races = {"long_window", "reconfig_busy"}
INVARIANTS
    InputSound
PROPERTIES
    RxIsPipe
