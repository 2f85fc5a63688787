---------------------------- MODULE MC_InputPins ----------------------------
(* The pins of the runs: an auxiliary pin below two limits, or one limit       *)
(* between two auxiliary pins.                                               *)
EXTENDS InputPins

TwoLimits == <<7, 8>>
OneLimit  == <<7>>

OnRise == [p \in Aux |-> "rising"]
Mixed  == [p \in Aux |-> IF p \in Debounced THEN "change" ELSE "rising"]
=============================================================================
