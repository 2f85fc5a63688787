---------------------------- MODULE MC_Transfers ----------------------------
(***************************************************************************)
(* The storage and the buses, whose transfers end in an interrupt, fail or *)
(* are given up.  They share no state: device is the one that runs, the    *)
(* others stay as they start.                                              *)
(***************************************************************************)
EXTENDS I2cPort, FlashStore, CanFilters, NeopixelBuffer

CONSTANTS Sectors, Areas, Values, NoRequest, NoTransfer, Blank, SdRaces

ASSUME TransfersAssumption ==
    /\ Sectors \subseteq Nat /\ Areas \subseteq (SUBSET Sectors) \ {{}}
    /\ \A area \in Areas, s, t \in Sectors : {s, t} \subseteq area => s..t \subseteq area
    /\ SdRaces \subseteq {"late_write", "late_read", "late_in_check"}
    /\ Keypads \union Keys \union Owners \subseteq Nat \ {0}
    /\ I2cRaces \subseteq {"done_in_call", "nack", "busy_late"}
    /\ {Words, MaxFilters, FifoSize} \union Lengths \subseteq Nat \ {0}

VARIABLES
    device,
    disk, transfer, readStatus, writeStatus, scratch, request, fast, memory,
    result, at, sector

sdVars ==
    <<disk, transfer, readStatus, writeStatus, scratch, request, fast, memory,
      result, at, sector>>
vars == <<device, sdVars, i2cVars, flashVars, canVars, ledsVars>>

Sd == INSTANCE SdTransfer

Runs(name) == device = name /\ UNCHANGED device

\* The choices of a device are made only where it runs.
Chosen(name, variable, value) == device # name => variable = value

Init ==
    /\ device \in {"sd", "i2c", "flash", "can", "leds"}
    /\ Sd!Init /\ I2cInit /\ FlashInit /\ CanInit /\ LedsInit
    /\ Chosen("sd", disk, CHOOSE d \in [Sectors -> Values] : TRUE)
    /\ Chosen("flash", ram, CHOOSE f \in Images : TRUE) /\ Chosen("flash", flash, ram)
    /\ Chosen("leds", numLeds, CHOOSE n \in Lengths : TRUE)

Next ==
    \/ Runs("sd")    /\ Sd!Next   /\ UNCHANGED <<i2cVars, flashVars, canVars, ledsVars>>
    \/ Runs("i2c")   /\ I2cNext   /\ UNCHANGED <<sdVars, flashVars, canVars, ledsVars>>
    \/ Runs("flash") /\ FlashNext /\ UNCHANGED <<sdVars, i2cVars, canVars, ledsVars>>
    \/ Runs("can")   /\ CanNext   /\ UNCHANGED <<sdVars, i2cVars, flashVars, ledsVars>>
    \/ Runs("leds")  /\ LedsNext  /\ UNCHANGED <<sdVars, i2cVars, flashVars, canVars>>

Spec == Init /\ [][Next]_vars

\* The types of the five devices.
TypesOK == Sd!SdTypeOK /\ I2cTypeOK /\ FlashTypeOK /\ CanTypeOK /\ LedsTypeOK

\* Each says what the property of its name says in SdTransfer.
IsBlockDevice     == Sd!IsBlockDevice
ReadWasSuccessful == Sd!ReadWasSuccessful
=============================================================================
