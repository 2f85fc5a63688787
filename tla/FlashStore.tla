----------------------------- MODULE FlashStore -----------------------------
(***************************************************************************)
(* The settings in the last sector of the flash (src/Src/flash.c): a save  *)
(* erases it and programs it word by word, and the power may go at any     *)
(* moment.  Bad_X is X with a mistake; no action uses it.                  *)
(***************************************************************************)
EXTENDS Naturals

CONSTANTS
    Words,           \* number of flash words of the settings
    Contents,        \* what a word may hold
    Erased, Junk     \* an erased word, and one whose programming was broken off

VARIABLES
    flash, ram,       \* the sector and the settings (source)
    saving, word,     \* where a save is, and the word it is at
    saved,            \* what the last one returned, for the present settings
    old, new          \* history: what the last save replaced, and by what

flashVars == <<flash, ram, saving, word, saved, old, new>>

Address == 0..Words - 1
Images  == [Address -> Contents]

FlashInit ==
    /\ flash \in {[w \in Address |-> Erased]} \union Images
    /\ ram \in Images /\ old = flash /\ new = flash
    /\ saving = "no" /\ word = 0 /\ saved = "none"

\* The settings are changed between saves.
Change ==
    /\ saving = "no" /\ saved' = "none"
    /\ \E w \in Address, c \in Contents : ram' = [ram EXCEPT ![w] = c]
    /\ UNCHANGED <<flash, saving, word, old, new>>

End(res) == saving' = "no" /\ word' = 0 /\ saved' = res

\* memcpy_to_flash: nothing is done when the flash holds the settings already.
Save ==
    /\ saving = "no" /\ UNCHANGED <<flash, ram>>
    /\ \/ flash = ram /\ End("ok") /\ UNCHANGED <<old, new>>
       \/ flash # ram /\ End("error") /\ UNCHANGED <<old, new>>
       \/ flash # ram /\ saving' = "erase" /\ old' = flash /\ new' = ram
          /\ UNCHANGED <<word, saved>>

Wiped(S) == [w \in Address |-> IF w \in S THEN Erased ELSE flash[w]]

\* A mistake: the result of the erase is not looked at.
Bad_Erase ==
    /\ saving = "erase" /\ UNCHANGED <<ram, old, new, word, saved>>
    /\ \E S \in SUBSET Address : flash' = Wiped(S)
    /\ saving' = "program"

Erase ==
    /\ saving = "erase" /\ UNCHANGED <<ram, old, new>>
    /\ \/ flash' = Wiped(Address) /\ saving' = "program" /\ UNCHANGED <<word, saved>>
       \/ (\E S \in SUBSET Address : flash' = Wiped(S)) /\ End("error")

Program ==
    /\ saving = "program" /\ UNCHANGED <<ram, old, new>>
    /\ \/ /\ flash' = [flash EXCEPT ![word] = ram[word]]
          /\ IF word = Words - 1 THEN End("ok")
             ELSE word' = word + 1 /\ UNCHANGED <<saving, saved>>
       \/ /\ \E w \in {flash[word], Junk} : flash' = [flash EXCEPT ![word] = w]
          /\ End("error")

\* Power is lost and comes back: a word being erased or programmed is left in
\* any state, and settings that cannot be read give way to others.
PowerLoss ==
    /\ CASE saving = "no"      -> UNCHANGED flash
         [] saving = "erase"   -> \E f \in [Address -> {Erased, Junk}], S \in SUBSET Address :
                                    flash' = [w \in Address |-> IF w \in S THEN f[w] ELSE flash[w]]
         [] saving = "program" -> flash' = [flash EXCEPT ![word] = Junk]
    /\ ram' \in (IF flash' \in Images THEN {flash'} ELSE Images)
    /\ End("none") /\ UNCHANGED <<old, new>>

FlashNext == Change \/ Save \/ Erase \/ Program \/ PowerLoss

FlashSpec == FlashInit /\ [][FlashNext]_flashVars

-----------------------------------------------------------------------------
FlashTypeOK ==
    /\ {flash, old, new} \subseteq [Address -> Contents \union {Erased, Junk}] /\ ram \in Images
    /\ saving \in {"no", "erase", "program"} /\ word \in Address
    /\ saved \in {"none", "ok", "error"}

\* A save that returned true has left the settings in the flash, also when it
\* repeats one that failed or was cut short; and at no time, whatever fails and
\* whenever the power goes, does the flash hold a mixture of old and new: what
\* is not of the one or the other is erased or broken, and found out as such.
SettingsSurvive ==
    /\ saved = "ok" => flash = ram
    /\ \E image \in {old, new} : \A w \in Address : flash[w] \in {image[w], Erased, Junk}
=============================================================================
