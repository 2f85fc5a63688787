---------------------------- MODULE BlockDevice ----------------------------
(***************************************************************************)
(* What FatFs expects of a disk: a request that is done leaves the area of *)
(* the disk and the memory of the caller alike; one that failed leaves the *)
(* memory of a read undefined, and what it asked to be written may still   *)
(* get to the disk later, but not after another request has been done.     *)
(***************************************************************************)
CONSTANTS Sectors, Values, NoRequest, Blank

VARIABLES
    disk,      \* the contents of each sector
    request,   \* the operation and the sectors asked for
    memory,    \* the memory of the caller, by sector
    result,    \* of the last request
    wanted     \* <<sector, value>> that may get to the disk

vars == <<disk, request, memory, result, wanted>>

Pairs(f) == {<<s, f[s]>> : s \in DOMAIN f}

Init ==
    /\ disk \in [Sectors -> Values]
    /\ request = NoRequest /\ memory = <<>> /\ result = "none" /\ wanted = {}

Read(area) ==
    /\ request = NoRequest /\ request' = [op |-> "read", area |-> area]
    /\ memory' = [s \in area |-> Blank] /\ result' = "none"
    /\ UNCHANGED <<disk, wanted>>

Write(f) ==
    /\ request = NoRequest /\ request' = [op |-> "write", area |-> DOMAIN f]
    /\ memory' = f /\ result' = "none" /\ wanted' = wanted \union Pairs(f)
    /\ UNCHANGED disk

\* Some of what is wanted gets to the disk, and some is given up.
Store ==
    /\ wanted' \subseteq wanted /\ UNCHANGED <<request, memory, result>>
    /\ \A s \in Sectors : disk'[s] # disk[s] => <<s, disk'[s]>> \in wanted
    /\ DOMAIN disk' = Sectors

Fill ==
    /\ request # NoRequest /\ request.op = "read"
    /\ DOMAIN memory' = request.area
    /\ UNCHANGED <<disk, request, result, wanted>>

Done ==
    /\ request # NoRequest
    /\ \A s \in request.area : disk[s] = memory[s]
    /\ request' = NoRequest /\ memory' = <<>> /\ result' = "ok" /\ wanted' = {}
    /\ UNCHANGED disk

Fail ==
    /\ request # NoRequest /\ request' = NoRequest /\ memory' = <<>> /\ result' = "error"
    /\ wanted' \subseteq wanted /\ UNCHANGED disk

Next ==
    \/ \E area \in SUBSET Sectors : Read(area) \/ \E f \in [area -> Values] : Write(f)
    \/ Store \/ Fill \/ Done \/ Fail

Spec == Init /\ [][Next]_vars
=============================================================================
