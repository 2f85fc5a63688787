--------------------------- MODULE NeopixelBuffer ---------------------------
(***************************************************************************)
(* The LED strip of src/Src/neopixel_spi.c: colours are packed into a      *)
(* buffer in the foreground, and a DMA transfer sends the buffer to the    *)
(* strip; nothing keeps the buffer from being packed into meanwhile.       *)
(* Bad_X is X with a mistake; no action uses it.                           *)
(***************************************************************************)
EXTENDS Naturals

CONSTANTS
    Lengths,       \* the lengths of strip
    Colours, Off   \* Off is what every colour is at intensity 0

VARIABLES
    numLeds, bright,   \* num_leds, and whether the intensity is not 0
    leds,              \* the buffer
    sending,           \* the LED that is sent next, or 0 when the DMA is idle
    strip,             \* what the LEDs show
    repacking,         \* the LEDs neopixels_set_intensity has still to pack again
    writing,           \* a _write waits for the transfer before
    (* history *)
    changed            \* something was packed since the last transfer started

ledsVars == <<numLeds, bright, leds, sending, strip, repacking, writing, changed>>

LedsInit ==
    /\ numLeds \in Lengths /\ bright = TRUE
    /\ leds = [d \in 1..numLeds |-> Off] /\ strip = leds
    /\ sending = 0 /\ repacking = 0 /\ writing = FALSE /\ changed = FALSE

Pack(colour, on) == IF on THEN colour ELSE Off

Returned == ~writing /\ repacking = 0      \* the foreground is in none of the calls

\* neopixel_out: a strip of one LED is written at once.
Out(d, colour) ==
    /\ Returned /\ d \in 1..numLeds
    /\ leds' = [leds EXCEPT ![d] = Pack(colour, bright)]
    /\ writing' = (numLeds = 1) /\ changed' = TRUE
    /\ UNCHANGED <<numLeds, bright, sending, strip, repacking>>

\* neopixels_write: the caller of a strip of one LED has nothing to do.
Show ==
    /\ Returned /\ numLeds > 1 /\ writing' = TRUE
    /\ UNCHANGED <<numLeds, bright, leds, sending, strip, repacking, changed>>

\* neopixels_set_intensity: from the last LED to the first, every colour is unpacked
\* and packed again, beside the DMA.
SetIntensity ==
    /\ Returned /\ bright' = ~bright /\ repacking' = numLeds
    /\ UNCHANGED <<numLeds, leds, sending, strip, writing, changed>>

Repack ==
    /\ repacking # 0 /\ repacking' = repacking - 1
    /\ leds' = [leds EXCEPT ![repacking] = Pack(@, bright)]
    /\ writing' = (repacking = 1) /\ changed' = TRUE
    /\ UNCHANGED <<numLeds, bright, sending, strip>>

\* _write.  A mistake: it does not wait, and the library refuses the transfer.
Bad_Write ==
    /\ writing /\ writing' = FALSE /\ changed' = FALSE
    /\ sending' = IF sending = 0 THEN 1 ELSE sending
    /\ UNCHANGED <<numLeds, bright, leds, strip, repacking>>

Write ==
    /\ writing /\ sending = 0
    /\ writing' = FALSE /\ changed' = FALSE /\ sending' = 1
    /\ UNCHANGED <<numLeds, bright, leds, strip, repacking>>

\* The DMA reads the buffer LED by LED.  A mistake: it does not stop at the end.
Bad_Dma ==
    /\ sending # 0
    /\ strip' = [strip EXCEPT ![sending] = leds[sending]]
    /\ sending' = sending + 1
    /\ UNCHANGED <<numLeds, bright, leds, repacking, writing, changed>>

Dma ==
    /\ sending # 0
    /\ strip' = [strip EXCEPT ![sending] = leds[sending]]
    /\ sending' = (sending + 1) % (numLeds + 1)
    /\ UNCHANGED <<numLeds, bright, leds, repacking, writing, changed>>

LedsNext ==
    \/ \E d \in 1..numLeds, colour \in Colours : Out(d, colour)
    \/ Show \/ SetIntensity \/ Repack \/ Write \/ Dma

LedsSpec == LedsInit /\ [][LedsNext]_ledsVars

-----------------------------------------------------------------------------
LedsTypeOK ==
    /\ numLeds \in Lengths /\ {bright, writing, changed} \subseteq BOOLEAN
    /\ {leds, strip} \subseteq [1..numLeds -> Colours \union {Off}]
    /\ {sending, repacking} \subseteq 0..numLeds

\* When nothing has been packed since the last transfer was started, the strip
\* shows the buffer once that transfer is over, although packing goes on while
\* one is under way: the next write repairs what was sent half changed.
StripCatchesUp == ~changed /\ ~writing /\ sending = 0 => strip = leds
=============================================================================
