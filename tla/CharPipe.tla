------------------------------ MODULE CharPipe ------------------------------
(***************************************************************************)
(* What a stream buffer promises: characters come out in the order they    *)
(* went in, each at most once, at most Capacity are held, and the oldest   *)
(* ones may be discarded.  A character is the number of its acceptance.    *)
(***************************************************************************)
EXTENDS Naturals, Sequences

CONSTANT Capacity

VARIABLES queue, count, last

Init == queue = <<>> /\ count = 0 /\ last = 0

Accept ==
    /\ Len(queue) < Capacity
    /\ queue' = Append(queue, count + 1) /\ count' = count + 1
    /\ UNCHANGED last

Deliver ==
    /\ queue # <<>>
    /\ last' = Head(queue) /\ queue' = Tail(queue)
    /\ UNCHANGED count

Discard ==
    /\ \E n \in 1..Len(queue) : queue' = SubSeq(queue, n + 1, Len(queue))
    /\ UNCHANGED <<count, last>>

\* Discard everything and put one character in its place.
Replace ==
    /\ queue' = <<count + 1>> /\ count' = count + 1
    /\ UNCHANGED last

Next == Accept \/ Deliver \/ Discard \/ Replace

Spec == Init /\ [][Next]_<<queue, count, last>>
=============================================================================
