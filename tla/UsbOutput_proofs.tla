-------------------------- MODULE UsbOutput_proofs --------------------------
(***************************************************************************)
(* Theorems about UsbOutput for buffers, packets and texts of any length.  *)
(***************************************************************************)
EXTENDS UsbOutput, SequenceTheorems, TLAPS

USE SizesAssumption, RacesAssumption DEF SizesAssumption, RacesAssumption

-----------------------------------------------------------------------------
(* The invariant.                                                           *)

ZlpPlaces == {Zlp[f] : f \in Sending}

\* Where the writer is tells what is in the buffer it fills.
WriterOK ==
    /\ pc \in {"flush", "copy", "part", "flush_zlp", "part_zlp"} => written + text.left <= MaxChars
    /\ pc = "copy" => length = 0 \/ length + text.left <= MaxLength
    /\ pc \in {"flush", "part"} => length > 0
    /\ pc = "part" => s = 0
    /\ s <= length

\* A transfer is of a buffer that is not being filled, of one character, or is
\* the empty one, unless the wait for that was given up.
FlightOK ==
    /\ flight.done <= flight.len
    /\ flight.of = "char" => flight.len = 1
    /\ flight.of \in {"none", "dummy"} => flight.len = 0
    /\ "empty" \notin gaveUp /\ flight.of = cur => pc \in ZlpPlaces

OutputTypes == TypeOK /\ WriterOK /\ FlightOK

\* What the host has received, what the transfer under way has left, and what is
\* in the buffer, in this order, are written characters in their order.
Unread == flight.done + 1..flight.len
Unsent == IF pc \in ZlpPlaces THEN {} ELSE 1..length

InOrder ==
    /\ \A i \in Unread : data[flight.of][i] \in 1..written
    /\ \A i, j \in Unread : i < j => data[flight.of][i] < data[flight.of][j]
    /\ \A i \in Unsent : data[cur][i] \in 1..written
    /\ \A i, j \in Unsent : i < j => data[cur][i] < data[cur][j]
    /\ \A i \in Unread, j \in Unsent : data[flight.of][i] < data[cur][j]
    /\ \A k \in DOMAIN host : host[k] <= written
    /\ \A k \in DOMAIN host, i \in Unread : host[k] < data[flight.of][i]
    /\ \A k \in DOMAIN host, i \in Unsent : host[k] < data[cur][i]
    /\ pc = "char" =>
        /\ length = 0 /\ data["char"][1] = written /\ written > 0
        /\ \A k \in DOMAIN host : host[k] < written
        /\ \A i \in Unread : data[flight.of][i] < written
    /\ pc \notin {"part"} \union ZlpPlaces => s = length

OutputInv == OutputTypes /\ HostReadsInOrder /\ (gaveUp = {} => InOrder)

-----------------------------------------------------------------------------
(* Where usb_write is called from, and the types.                           *)

\* The places usb_write is called from, and those it waits at for the empty one.
LEMMA PlacesAre ==
    /\ Sending = {"flush", "part", "send"}
    /\ ZlpPlaces = {"flush_zlp", "part_zlp", "send_zlp"}
    /\ After["flush"] = "copy" /\ After["part"] = "copy" /\ After["send"] = "idle"
    /\ Zlp["flush"] = "flush_zlp" /\ Zlp["part"] = "part_zlp" /\ Zlp["send"] = "send_zlp"
    /\ Places = {"idle", "copy", "char", "flush", "part", "send", "flush_zlp", "part_zlp", "send_zlp"}
<1>1. Sending = {"flush", "part", "send"}
  BY DEF Sending
<1>2. /\ Zlp["flush"] = "flush_zlp" /\ Zlp["part"] = "part_zlp" /\ Zlp["send"] = "send_zlp"
      /\ After["flush"] = "copy" /\ After["part"] = "copy" /\ After["send"] = "idle"
  BY DEF Zlp, After
<1>3. ZlpPlaces = {"flush_zlp", "part_zlp", "send_zlp"}
  BY <1>1, <1>2 DEF ZlpPlaces
<1>4. Places = {"idle", "copy", "char"} \union Sending \union ZlpPlaces
  BY Zenon DEF Places, ZlpPlaces
<1> QED BY <1>1, <1>2, <1>3, <1>4

\* The first transfer of a text, and the empty one after it.
LEMMA SendIs ==
    ASSUME Send
    PROVE  /\ pc \in Sending /\ ~Busy /\ s' = 0
           /\ flight' = [of |-> cur, len |-> length, done |-> 0]
           /\ UNCHANGED <<data, text, written, host, gaveUp>>
           /\ \/ pc' = Zlp[pc] /\ cur' = cur /\ length' = length
              \/ pc' = After[pc] /\ cur' = Other(cur) /\ length' = 0
<1>1. PICK from \in Sending :
        \/ length % Packet = 0 /\ Goto(from, Zlp[from]) /\ s' = 0 /\ UNCHANGED <<cur, length>>
        \/ length % Packet # 0 /\ Goto(from, After[from]) /\ Swap
  BY DEF Send
<1>2. pc = from
  BY <1>1 DEF Goto
<1> QED BY <1>1, <1>2 DEF Send, Transmit, Goto, Swap

\* The empty transfer after a full packet.
LEMMA SendZlpIs ==
    ASSUME Send_Zlp
    PROVE  /\ pc \in ZlpPlaces /\ pc' \in {"copy", "idle"} /\ ~Busy
           /\ flight' = [of |-> "dummy", len |-> 0, done |-> 0]
           /\ UNCHANGED <<data, text, written, host, gaveUp>>
           /\ cur' = Other(cur) /\ s' = 0 /\ length' = 0
           /\ pc' = "copy" => pc # "send_zlp"
<1>1. PICK from \in Sending : Goto(Zlp[from], After[from])
  BY DEF Send_Zlp
<1>2. pc = Zlp[from] /\ pc' = After[from]
  BY <1>1 DEF Goto
<1>3. Zlp[from] \in ZlpPlaces
  BY DEF ZlpPlaces
<1>4. After[from] \in {"copy", "idle"} /\ (After[from] = "copy" => Zlp[from] # "send_zlp")
  BY PlacesAre
<1> QED BY <1>2, <1>3, <1>4 DEF Send_Zlp, Transmit, Swap

\* A wait that is given up.
LEMMA AbortIs ==
    ASSUME Abort
    PROVE  /\ pc' = "idle" /\ s' = 0 /\ gaveUp' # {}
           /\ UNCHANGED <<data, cur, length, flight, text, written, host>>
           /\ \/ pc \in Sending /\ gaveUp' = gaveUp \union {"text"}
              \/ pc \in ZlpPlaces /\ gaveUp' = gaveUp \union {"empty"}
<1>1. PICK from \in Sending :
        \/ Goto(from, "idle") /\ gaveUp' = gaveUp \union {"text"}
        \/ Goto(Zlp[from], "idle") /\ gaveUp' = gaveUp \union {"empty"}
  BY DEF Abort
<1>2. Zlp[from] \in ZlpPlaces
  BY DEF ZlpPlaces
<1> QED BY <1>1, <1>2 DEF Abort, Goto

\* What a copy puts into the buffer.
LEMMA CopiedIs ==
    ASSUME TypeOK, NEW n \in Nat, Copied(n), written + n <= MaxChars, NEW m \in 0..MaxChars,
           m = written + n
    PROVE  /\ data' \in [Buffers -> [1..MaxLength -> 0..MaxChars]]
           /\ \A b \in Buffers : b # cur => data'[b] = data[b]
           /\ \A i \in 1..MaxLength :
                data'[cur][i] = IF i \in s + 1..s + n THEN written + i - s ELSE data[cur][i]
<1>1. /\ data \in [Buffers -> [1..MaxLength -> 0..MaxChars]] /\ cur \in Buffers
      /\ s \in Nat /\ written \in Nat
  <2>1. /\ data \in [Buffers -> [1..MaxLength -> 0..MaxChars]] /\ cur \in {"data", "data2"}
        /\ s \in Nat /\ written \in Nat
    BY DEF TypeOK
  <2> QED BY <2>1 DEF Buffers
<1>2. PICK new : new = [i \in 1..MaxLength |-> IF i \in s + 1..s + n THEN written + i - s ELSE data[cur][i]]
  OBVIOUS
<1>3. data' = [data EXCEPT ![cur] = new]
  BY <1>2 DEF Copied
<1>4. new \in [1..MaxLength -> 0..MaxChars]
  <2> SUFFICES ASSUME NEW i \in 1..MaxLength
               PROVE  (IF i \in s + 1..s + n THEN written + i - s ELSE data[cur][i]) \in 0..MaxChars
    BY <1>2
  <2>1. data[cur][i] \in 0..MaxChars
    BY <1>1
  <2>2. i \in s + 1..s + n => written + i - s \in 0..MaxChars
    BY <1>1
  <2> QED BY <2>1, <2>2
<1>5. data' \in [Buffers -> [1..MaxLength -> 0..MaxChars]]
  BY <1>1, <1>3, <1>4
<1> QED BY <1>1, <1>2, <1>3, <1>5

\* The initial state.
LEMMA OutputInit == Init => OutputInv
<1> SUFFICES ASSUME Init PROVE OutputInv
  OBVIOUS
<1>1. TypeOK
  <2>1. text \in [left : 0..MaxText, send : BOOLEAN]
    <3>1. FALSE \in BOOLEAN /\ 0 \in 0..MaxText
      OBVIOUS
    <3> QED BY <3>1, Zenon DEF Init
  <2>2. data \in [Buffers -> [1..MaxLength -> 0..MaxChars]]
    BY DEF Init
  <2>3. host \in Seq(0..MaxChars)
    BY DEF Init
  <2>4. pc \in Places
    BY PlacesAre DEF Init
  <2> QED BY <2>1, <2>2, <2>3, <2>4 DEF Init, TypeOK
<1>2. flight.of = "none" /\ flight.len = 0 /\ flight.done = 0
  BY DEF Init, NoFlight
<1>3. WriterOK /\ FlightOK
  BY <1>2 DEF Init, WriterOK, FlightOK
<1>4. Unread = {} /\ Unsent = {} /\ DOMAIN host = {}
  <2>1. Unread = {}
    BY <1>2 DEF Unread
  <2>2. Unsent = {}
    BY DEF Init, Unsent
  <2> QED BY <2>1, <2>2 DEF Init
<1>5. HostReadsInOrder
  BY <1>4 DEF HostReadsInOrder
<1>6. InOrder
  BY <1>4 DEF Init, InOrder
<1> QED BY <1>1, <1>3, <1>5, <1>6 DEF OutputInv, OutputTypes

\* A load appends what the FIFO has room for to what the host receives.
LEMMA LoadIs ==
    ASSUME OutputTypes, Load
    PROVE  \E end \in flight.done + 1..flight.len, new \in Seq(0..MaxChars) :
              /\ flight' \in [of : Buffers, len : 0..MaxLength, done : 0..MaxLength]
              /\ flight'.of = flight.of /\ flight'.len = flight.len /\ flight'.done = end
              /\ flight.of \in Buffers /\ flight.done \in Nat /\ flight.len \in 0..MaxLength
              /\ Len(new) = end - flight.done
              /\ \A i \in 1..end - flight.done : new[i] = data[flight.of][flight.done + i]
              /\ host' = IF gaveUp # {} THEN host ELSE host \o new
<1>1. /\ flight \in [of : Buffers, len : 0..MaxLength, done : 0..MaxLength]
      /\ data \in [Buffers -> [1..MaxLength -> 0..MaxChars]] /\ flight.done < flight.len
  BY DEF OutputTypes, TypeOK, Load, Busy
<1>2. PICK end : end = Smaller(flight.done + Fifo, flight.len)
  OBVIOUS
<1>3. flight' = [flight EXCEPT !.done = end]
  BY <1>2 DEF Load
<1>4. end \in flight.done + 1..flight.len
  BY <1>1, <1>2 DEF Smaller
<1>5. PICK new : new = [i \in 1..(end - flight.done) |-> data[flight.of][flight.done + i]]
  OBVIOUS
<1>6. host' = IF gaveUp # {} THEN host ELSE host \o new
  BY <1>2, <1>5 DEF Load
<1>7. new \in Seq(0..MaxChars) /\ Len(new) = end - flight.done
  <2>1. end - flight.done \in Nat
    BY <1>1, <1>4
  <2>2. new \in [1..(end - flight.done) -> 0..MaxChars]
    <3> SUFFICES ASSUME NEW i \in 1..(end - flight.done)
                 PROVE  data[flight.of][flight.done + i] \in 0..MaxChars
      BY <1>5
    <3>1. flight.done + i \in 1..MaxLength
      BY <1>1, <1>4, SMTT(30)
    <3> QED BY <1>1, <3>1
  <2> QED BY <2>1, <2>2
<1>8. flight' \in [of : Buffers, len : 0..MaxLength, done : 0..MaxLength]
  BY <1>1, <1>3, <1>4, SMTT(30)
<1>9. flight'.of = flight.of /\ flight'.len = flight.len /\ flight'.done = end
  BY <1>1, <1>3
<1>10. \A i \in 1..end - flight.done : new[i] = data[flight.of][flight.done + i]
  BY <1>5
<1>11. flight.of \in Buffers /\ flight.done \in Nat /\ flight.len \in 0..MaxLength
  BY <1>1
<1> QED BY <1>4, <1>6, <1>7, <1>8, <1>9, <1>10, <1>11, Zenon

\* Every step keeps the types, the sizes and the places.
LEMMA OutputTypesStep ==
    ASSUME OutputTypes, [Next]_vars
    PROVE  OutputTypes'
<1> USE PlacesAre
<1>1. /\ data \in [Buffers -> [1..MaxLength -> 0..MaxChars]]
      /\ cur \in {"data", "data2"} /\ length \in 0..MaxLength /\ s \in 0..MaxLength
      /\ flight \in {NoFlight} \union [of : Buffers, len : 0..MaxLength, done : 0..MaxLength]
      /\ pc \in Places /\ text.left \in 0..MaxText /\ text.send \in BOOLEAN
      /\ text \in [left : 0..MaxText, send : BOOLEAN]
      /\ written \in 0..MaxChars /\ host \in Seq(0..MaxChars) /\ gaveUp \subseteq {"text", "empty"}
  BY DEF OutputTypes, TypeOK
<1>2. WriterOK /\ FlightOK
  BY DEF OutputTypes
<1>3. CASE UNCHANGED vars
  <2>1. UNCHANGED <<data, cur, length, s, flight, pc, text, written, host, gaveUp>>
    BY <1>3 DEF vars, buffer, writer
  <2> QED BY <2>1, <1>1, <1>2 DEF OutputTypes, TypeOK, WriterOK, FlightOK
<1>4. CASE Load
  <2>1. UNCHANGED <<data, cur, length, s, pc, text, written, gaveUp>>
    BY <1>4 DEF Load, buffer, writer
  <2>2. PICK end \in flight.done + 1..flight.len, new \in Seq(0..MaxChars) :
              /\ flight' \in [of : Buffers, len : 0..MaxLength, done : 0..MaxLength]
              /\ flight'.of = flight.of /\ flight'.len = flight.len /\ flight'.done = end
              /\ host' = IF gaveUp # {} THEN host ELSE host \o new
    BY <1>4, LoadIs, Zenon
  <2>3. host' \in Seq(0..MaxChars)
    <3>1. host \o new \in Seq(0..MaxChars)
      BY <1>1, ConcatProperties
    <3> QED BY <1>1, <2>2, <3>1
  <2>4. TypeOK'
    BY <1>1, <2>1, <2>2, <2>3 DEF TypeOK
  <2>5. WriterOK' /\ FlightOK'
    BY <1>2, <2>1, <2>2 DEF WriterOK, FlightOK
  <2> QED BY <2>4, <2>5 DEF OutputTypes
<1>5. CASE TransmitCplt
  <2>1. UNCHANGED <<data, cur, length, s, pc, text, written, host, gaveUp>> /\ flight' = NoFlight
    BY <1>5 DEF TransmitCplt, buffer, writer
  <2>2. TypeOK'
    BY <1>1, <2>1 DEF TypeOK
  <2>3. WriterOK'
    BY <1>2, <2>1 DEF WriterOK
  <2>4. FlightOK'
    BY <1>1, <2>1 DEF FlightOK, NoFlight
  <2> QED BY <2>2, <2>3, <2>4 DEF OutputTypes
<1>6. ASSUME NEW n \in 1..MaxText, NEW send \in BOOLEAN, Write(n, send)
      PROVE  OutputTypes'
  <2>1. /\ UNCHANGED <<data, cur, length, s, flight, written, host, gaveUp>>
        /\ text' = [left |-> n, send |-> send] /\ written + n <= MaxChars /\ pc = "idle"
        /\ pc' = IF length > 0 /\ length + n > MaxLength THEN "flush" ELSE "copy"
    BY <1>6 DEF Write, Goto, buffer
  <2>2. TypeOK'
    BY <1>1, <2>1 DEF TypeOK
  <2>3. WriterOK'
    BY <1>1, <1>2, <2>1 DEF WriterOK
  <2>4. FlightOK'
    BY <1>2, <2>1 DEF FlightOK
  <2> QED BY <2>2, <2>3, <2>4 DEF OutputTypes
<1>7. CASE Copy_Part
  <2>1. /\ UNCHANGED <<cur, s, flight, host, gaveUp>> /\ pc = "copy" /\ pc' = "part"
        /\ text.left > MaxLength /\ Copied(MaxLength) /\ length' = MaxLength
        /\ text' = [text EXCEPT !.left = @ - MaxLength] /\ written' = written + MaxLength
    BY <1>7 DEF Copy_Part, Goto
  <2>2. length = 0 /\ s = 0 /\ written + text.left <= MaxChars
    BY <1>1, <1>2, <2>1 DEF WriterOK
  <2>3. text'.left = text.left - MaxLength /\ text' \in [left : 0..MaxText, send : BOOLEAN]
    <3>1. text' = [left |-> text.left - MaxLength, send |-> text.send]
      BY <1>1, <2>1
    <3>2. text.left - MaxLength \in 0..MaxText
      BY <1>1, <2>1
    <3>3. text' \in [left : 0..MaxText, send : BOOLEAN]
      BY <1>1, <3>1, <3>2, Zenon
    <3> QED BY <3>1, <3>3
  <2>4. written + MaxLength <= MaxChars /\ written' \in 0..MaxChars
    BY <1>1, <2>1, <2>2
  <2>5. data' \in [Buffers -> [1..MaxLength -> 0..MaxChars]]
    <3>1. TypeOK
      BY DEF OutputTypes
    <3> QED BY <2>1, <2>4, <3>1, CopiedIs
  <2>6. TypeOK'
    BY <1>1, <2>1, <2>3, <2>4, <2>5 DEF TypeOK
  <2>7. WriterOK'
    BY <1>1, <2>1, <2>2, <2>3, <2>4 DEF WriterOK
  <2>8. FlightOK'
    BY <1>2, <2>1 DEF FlightOK
  <2> QED BY <2>6, <2>7, <2>8 DEF OutputTypes
<1>8. CASE Copy_Rest
  <2>1. /\ UNCHANGED <<cur, flight, host, gaveUp>> /\ pc = "copy" /\ pc' \in {"send", "idle"}
        /\ text.left <= MaxLength /\ Copied(text.left)
        /\ length' = length + text.left /\ s' = s + text.left
        /\ text' = [text EXCEPT !.left = 0] /\ written' = written + text.left
    BY <1>8 DEF Copy_Rest, Goto
  <2>2. length + text.left <= MaxLength /\ s <= length /\ written + text.left <= MaxChars
    BY <1>1, <1>2, <2>1 DEF WriterOK
  <2>3. text' \in [left : 0..MaxText, send : BOOLEAN]
    <3>1. text' = [left |-> 0, send |-> text.send]
      BY <1>1, <2>1
    <3>2. 0 \in 0..MaxText
      OBVIOUS
    <3> QED BY <1>1, <3>1, <3>2, Zenon
  <2>4. written' \in 0..MaxChars /\ length' \in 0..MaxLength /\ s' \in 0..MaxLength /\ s' <= length'
    BY <1>1, <2>1, <2>2
  <2>5. data' \in [Buffers -> [1..MaxLength -> 0..MaxChars]]
    <3>1. TypeOK
      BY DEF OutputTypes
    <3> QED BY <1>1, <2>1, <2>2, <2>4, <3>1, CopiedIs, SMTT(30)
  <2>6. TypeOK'
    BY <1>1, <2>1, <2>3, <2>4, <2>5 DEF TypeOK
  <2>7. WriterOK'
    BY <2>1, <2>4 DEF WriterOK
  <2>8. FlightOK'
    BY <1>2, <2>1 DEF FlightOK
  <2> QED BY <2>6, <2>7, <2>8 DEF OutputTypes
<1>9. CASE Send
  <2>1. /\ pc \in Sending /\ s' = 0 /\ flight' = [of |-> cur, len |-> length, done |-> 0]
        /\ UNCHANGED <<data, text, written, host, gaveUp>>
        /\ \/ pc' = Zlp[pc] /\ cur' = cur /\ length' = length
           \/ pc' = After[pc] /\ cur' = Other(cur) /\ length' = 0
    BY <1>9, SendIs
  <2>2. cur' \in {"data", "data2"} /\ length' \in 0..MaxLength /\ pc' \in Places
    BY <1>1, <2>1 DEF Other
  <2>3. flight' \in [of : Buffers, len : 0..MaxLength, done : 0..MaxLength]
    BY <1>1, <2>1 DEF Buffers
  <2>4. TypeOK'
    BY <1>1, <2>1, <2>2, <2>3 DEF TypeOK
  <2>5. WriterOK'
    BY <1>1, <1>2, <2>1, <2>2 DEF WriterOK
  <2>6. FlightOK'
    BY <1>1, <2>1 DEF FlightOK, Other
  <2> QED BY <2>4, <2>5, <2>6 DEF OutputTypes
<1>10. CASE Send_Zlp
  <2>1. /\ pc \in ZlpPlaces /\ pc' \in {"copy", "idle"} /\ flight' = [of |-> "dummy", len |-> 0, done |-> 0]
        /\ UNCHANGED <<data, text, written, host, gaveUp>>
        /\ cur' = Other(cur) /\ s' = 0 /\ length' = 0 /\ (pc' = "copy" => pc # "send_zlp")
    BY <1>10, SendZlpIs
  <2>2. cur' \in {"data", "data2"} /\ pc' \in Places
    BY <1>1, <2>1 DEF Other
  <2>3. flight' \in [of : Buffers, len : 0..MaxLength, done : 0..MaxLength]
    BY <1>1, <2>1 DEF Buffers
  <2>4. TypeOK'
    BY <1>1, <2>1, <2>2, <2>3 DEF TypeOK
  <2>5. WriterOK'
    BY <1>1, <1>2, <2>1, <2>2 DEF WriterOK
  <2>6. FlightOK'
    BY <1>1, <2>1, <2>2 DEF FlightOK
  <2> QED BY <2>4, <2>5, <2>6 DEF OutputTypes
<1>11. CASE Abort
  <2>1. /\ pc' = "idle" /\ s' = 0 /\ UNCHANGED <<data, cur, length, flight, text, written, host>>
        /\ \/ pc \in Sending /\ gaveUp' = gaveUp \union {"text"}
           \/ pc \in ZlpPlaces /\ gaveUp' = gaveUp \union {"empty"}
    BY <1>11, AbortIs
  <2>2. TypeOK'
    <3>1. gaveUp' \subseteq {"text", "empty"}
      BY <1>1, <2>1
    <3>2. pc' \in Places /\ s' \in 0..MaxLength
      BY <2>1
    <3> QED BY <1>1, <2>1, <3>1, <3>2 DEF TypeOK
  <2>3. WriterOK'
    BY <1>1, <2>1 DEF WriterOK
  <2>4. FlightOK'
    BY <1>1, <1>2, <2>1 DEF FlightOK
  <2> QED BY <2>2, <2>3, <2>4 DEF OutputTypes
<1>12. CASE PutC
  <2>1. /\ UNCHANGED <<cur, length, s, flight, text, host, gaveUp>> /\ pc = "idle" /\ pc' = "char"
        /\ data' = [data EXCEPT !["char"][1] = written + 1] /\ written' = written + 1
        /\ written < MaxChars
    BY <1>12 DEF PutC, Goto
  <2>2. data' \in [Buffers -> [1..MaxLength -> 0..MaxChars]] /\ written' \in 0..MaxChars
    BY <1>1, <2>1, SMTT(30) DEF Buffers
  <2>3. TypeOK'
    BY <1>1, <2>1, <2>2 DEF TypeOK
  <2>4. WriterOK' /\ FlightOK'
    BY <1>2, <2>1 DEF WriterOK, FlightOK
  <2> QED BY <2>3, <2>4 DEF OutputTypes
<1>13. CASE PutC_Send \/ PutC_Abort
  <2>1. /\ UNCHANGED <<data, cur, length, s, text, written, host, gaveUp>> /\ pc = "char" /\ pc' = "idle"
        /\ flight' = flight \/ flight' = [of |-> "char", len |-> 1, done |-> 0]
    BY <1>13 DEF PutC_Send, PutC_Abort, Transmit, Goto, buffer
  <2>2. flight' \in {NoFlight} \union [of : Buffers, len : 0..MaxLength, done : 0..MaxLength]
    BY <1>1, <2>1 DEF Buffers
  <2>3. TypeOK'
    BY <1>1, <2>1, <2>2 DEF TypeOK
  <2>4. WriterOK'
    BY <1>2, <2>1 DEF WriterOK
  <2>5. FlightOK'
    BY <1>1, <1>2, <2>1 DEF FlightOK
  <2> QED BY <2>3, <2>4, <2>5 DEF OutputTypes
<1> QED BY <1>3, <1>4, <1>5, <1>6, <1>7, <1>8, <1>9, <1>10, <1>11, <1>12, <1>13 DEF Next, Usb, Writer

-----------------------------------------------------------------------------
(* The order of the characters, until a wait is given up.                   *)

\* What every case needs of the types.
LEMMA OutputFacts ==
    ASSUME OutputTypes
    PROVE  /\ data \in [Buffers -> [1..MaxLength -> 0..MaxChars]] /\ TypeOK
           /\ cur \in {"data", "data2"} /\ length \in 0..MaxLength /\ s \in 0..MaxLength
           /\ flight.done \in Nat /\ flight.len \in 0..MaxLength /\ flight.done <= flight.len
           /\ flight.of \in Buffers \/ flight = NoFlight
           /\ flight = NoFlight => Unread = {}
           /\ text.left \in 0..MaxText /\ written \in 0..MaxChars /\ host \in Seq(0..MaxChars)
           /\ DOMAIN host = 1..Len(host) /\ \A k \in DOMAIN host : host[k] \in Nat
<1>1. /\ data \in [Buffers -> [1..MaxLength -> 0..MaxChars]] /\ TypeOK
      /\ cur \in {"data", "data2"} /\ length \in 0..MaxLength /\ s \in 0..MaxLength
      /\ flight \in {NoFlight} \union [of : Buffers, len : 0..MaxLength, done : 0..MaxLength]
      /\ flight.done <= flight.len
      /\ text.left \in 0..MaxText /\ written \in 0..MaxChars /\ host \in Seq(0..MaxChars)
  <2>1. TypeOK /\ FlightOK
    BY DEF OutputTypes
  <2> QED BY <2>1 DEF TypeOK, FlightOK
<1>2. flight = NoFlight => flight.len = 0 /\ flight.done = 0
  BY DEF NoFlight
<1>3. flight.done \in Nat /\ flight.len \in 0..MaxLength /\ (flight.of \in Buffers \/ flight = NoFlight)
  BY <1>1, <1>2
<1>4. flight = NoFlight => Unread = {}
  BY <1>2 DEF Unread
<1>5. DOMAIN host = 1..Len(host) /\ \A k \in DOMAIN host : host[k] \in Nat
  BY <1>1
<1> QED BY <1>1, <1>3, <1>4, <1>5

\* The host receives the next characters of the transfer.
LEMMA OrderLoad ==
    ASSUME OutputInv, Load, gaveUp = {}
    PROVE  InOrder' /\ HostReadsInOrder'
<1>1. OutputTypes /\ HostReadsInOrder /\ InOrder
  BY DEF OutputInv
<1>2. PICK end \in flight.done + 1..flight.len, new \in Seq(0..MaxChars) :
              /\ flight'.of = flight.of /\ flight'.len = flight.len /\ flight'.done = end
              /\ flight.of \in Buffers /\ flight.done \in Nat /\ flight.len \in 0..MaxLength
              /\ Len(new) = end - flight.done
              /\ \A i \in 1..end - flight.done : new[i] = data[flight.of][flight.done + i]
              /\ host' = IF gaveUp # {} THEN host ELSE host \o new
  BY <1>1, LoadIs, Zenon
<1>3. UNCHANGED <<data, cur, length, s, pc, text, written, gaveUp>>
  BY DEF Load, buffer, writer
<1> DEFINE L == Len(host)
<1>4. L \in Nat /\ DOMAIN host = 1..L /\ host \in Seq(0..MaxChars)
  BY <1>1, OutputFacts
<1>5. /\ Len(host') = L + Len(new) /\ DOMAIN host' = 1..L + Len(new)
      /\ \A k \in 1..L + Len(new) : host'[k] = IF k <= L THEN host[k] ELSE new[k - L]
  <2>1. host' = host \o new
    BY <1>2
  <2>2. host \o new \in Seq(0..MaxChars)
    BY <1>2, <1>4, ConcatProperties
  <2>3. /\ Len(host \o new) = L + Len(new)
        /\ \A k \in 1..L + Len(new) : (host \o new)[k] = IF k <= L THEN host[k] ELSE new[k - L]
    BY <1>2, <1>4, ConcatProperties, ZenonT(60)
  <2> QED BY <2>1, <2>2, <2>3
<1> HIDE DEF L
<1> DEFINE F(i) == data[flight.of][i]
<1>6. \A k \in DOMAIN host' :
        \/ k \in DOMAIN host /\ host'[k] = host[k]
        \/ k > L /\ flight.done + (k - L) \in Unread /\ flight.done + (k - L) <= end
           /\ host'[k] = F(flight.done + (k - L))
  <2> SUFFICES ASSUME NEW k \in 1..L + Len(new)
               PROVE  \/ k \in DOMAIN host /\ host'[k] = host[k]
                      \/ k > L /\ flight.done + (k - L) \in Unread /\ flight.done + (k - L) <= end
                         /\ host'[k] = F(flight.done + (k - L))
    BY <1>5
  <2>1. CASE k <= L
    BY <1>4, <1>5, <2>1
  <2>2. CASE k > L
    <3>1. k - L \in 1..end - flight.done /\ end <= flight.len /\ end \in Nat
      BY <1>2, <1>4, <2>2
    <3>2. host'[k] = new[k - L]
      BY <1>4, <1>5, <2>2
    <3>3. flight.done + (k - L) \in Unread /\ flight.done + (k - L) <= end
      <4>1. PICK m \in 1..end - flight.done : m = k - L
        BY <3>1
      <4>2. flight.done \in Int /\ flight.len \in Int /\ end \in Int /\ m \in Int /\ 1 <= m /\ m <= end - flight.done
        BY <1>2, <3>1, <4>1, SMTT(30)
      <4>3. flight.done + m \in flight.done + 1..flight.len /\ flight.done + m <= end
        BY <3>1, <4>2, SMTT(30)
      <4> QED BY <4>1, <4>3 DEF Unread
    <3> QED BY <1>2, <2>2, <3>1, <3>2, <3>3
  <2> QED BY <1>4, <2>1, <2>2
<1>7. /\ Unread' \subseteq Unread /\ (\A i \in Unread' : i > end)
      /\ Unsent' = Unsent /\ Unread \subseteq Nat
  <2>1. Unread' = end + 1..flight.len
    BY <1>2 DEF Unread
  <2> QED BY <1>2, <1>3, <2>1 DEF Unread, Unsent
<1>8. HostReadsInOrder'
  <2>1. ASSUME NEW k \in DOMAIN host' PROVE host'[k] > 0
    <3>1. \A i \in Unread : F(i) \in 1..written
      BY <1>1 DEF InOrder
    <3>2. \A j \in DOMAIN host : host[j] > 0
      BY <1>1 DEF HostReadsInOrder
    <3> HIDE DEF F
    <3>3. \A i \in Unread : F(i) > 0
      BY <1>1, <3>1, OutputFacts
    <3> QED BY <1>6, <3>2, <3>3
  <2>2. ASSUME NEW k \in DOMAIN host', NEW j \in DOMAIN host', k < j PROVE host'[k] < host'[j]
    <3>1. /\ \A i, m \in Unread : i < m => F(i) < F(m)
          /\ \A m \in DOMAIN host, i \in Unread : host[m] < F(i)
          /\ \A m, i \in DOMAIN host : m < i => host[m] < host[i]
      BY <1>1 DEF InOrder, HostReadsInOrder
    <3> HIDE DEF F
    <3>2. k \in Int /\ j \in Int
      BY <1>4, <1>5
    <3>3. flight.done \in Int /\ L \in Int /\ (j \in DOMAIN host => j <= L)
      BY <1>2, <1>4
    <3>4. CASE k \in DOMAIN host /\ host'[k] = host[k]
      BY <1>6, <2>2, <3>1, <3>4
    <3>5. CASE k > L /\ flight.done + (k - L) \in Unread /\ host'[k] = F(flight.done + (k - L))
      <4>1. j > L
        BY <3>2, <3>3, <3>5, <2>2
      <4>2. flight.done + (j - L) \in Unread /\ host'[j] = F(flight.done + (j - L))
        BY <1>6, <3>2, <3>3, <4>1
      <4>3. flight.done + (k - L) < flight.done + (j - L)
        BY <2>2, <3>2, <3>3
      <4> QED BY <3>1, <3>5, <4>2, <4>3
    <3> QED BY <1>6, <3>4, <3>5
  <2> QED BY <2>1, <2>2 DEF HostReadsInOrder
<1>9. InOrder'
  <2>1. /\ \A i \in Unread : F(i) \in 1..written
        /\ \A i, j \in Unread : i < j => F(i) < F(j)
        /\ \A i \in Unread, j \in Unsent : F(i) < data[cur][j]
        /\ \A k \in DOMAIN host : host[k] <= written
        /\ \A k \in DOMAIN host, i \in Unread : host[k] < F(i)
        /\ \A k \in DOMAIN host, i \in Unsent : host[k] < data[cur][i]
        /\ pc = "char" =>
            /\ length = 0 /\ data["char"][1] = written /\ written > 0
            /\ \A k \in DOMAIN host : host[k] < written
            /\ \A i \in Unread : F(i) < written
    BY <1>1 DEF InOrder
  <2>2. \A i : F(i)' = F(i)
    BY <1>2, <1>3
  <2> HIDE DEF F
  <2>3. \A i \in Unread : F(i) <= written
    BY <1>1, <2>1, OutputFacts
  <2>4. \A k \in DOMAIN host' : host'[k] <= written
    BY <1>6, <2>1, <2>3
  <2>5. \A k \in DOMAIN host', i \in Unread' : host'[k] < F(i)
    <3> SUFFICES ASSUME NEW k \in DOMAIN host', NEW i \in Unread' PROVE host'[k] < F(i)
      OBVIOUS
    <3>1. CASE k \in DOMAIN host /\ host'[k] = host[k]
      BY <1>7, <2>1, <3>1
    <3>2. CASE k > L /\ flight.done + (k - L) \in Unread /\ flight.done + (k - L) <= end
               /\ host'[k] = F(flight.done + (k - L))
      <4>1. flight.done + (k - L) < i /\ i \in Unread
        <5>1. i > end /\ i \in Unread
          BY <1>7
        <5>2. i \in Nat /\ flight.done + (k - L) \in Nat
          BY <1>7, <3>2, <5>1
        <5>3. end \in Int
          BY <1>2
        <5> QED BY <3>2, <5>1, <5>2, <5>3
      <4> QED BY <2>1, <3>2, <4>1
    <3> QED BY <1>6, <3>1, <3>2
  <2>6. \A k \in DOMAIN host', i \in Unsent : host'[k] < data[cur][i]
    BY <1>6, <2>1
  <2>7. pc = "char" => \A k \in DOMAIN host' : host'[k] < written
    BY <1>6, <2>1
  <2>8. /\ \A i \in Unsent : data[cur][i] \in 1..written
        /\ \A i, j \in Unsent : i < j => data[cur][i] < data[cur][j]
        /\ pc \notin {"part"} \union ZlpPlaces => s = length
    BY <1>1 DEF InOrder
  <2>9. /\ \A i \in Unread' : F(i)' \in 1..written
        /\ \A i, j \in Unread' : i < j => F(i)' < F(j)'
        /\ \A i \in Unread', j \in Unsent : F(i)' < data[cur][j]
        /\ \A k \in DOMAIN host', i \in Unread' : host'[k] < F(i)'
        /\ pc = "char" => \A i \in Unread' : F(i)' < written
    BY <1>7, <2>1, <2>2, <2>5
  <2> USE DEF F
  <2> QED BY <1>3, <1>7, <2>1, <2>4, <2>6, <2>7, <2>8, <2>9 DEF InOrder
<1> QED BY <1>8, <1>9

\* A text is copied behind what the buffer holds.
LEMMA OrderCopy ==
    ASSUME OutputInv, gaveUp = {}, pc = "copy", NEW n \in Nat, Copied(n), n <= text.left,
           length' = length + n, written' = written + n, length' <= MaxLength,
           UNCHANGED <<cur, flight, host, gaveUp>>, pc' \notin {"char"} \union ZlpPlaces,
           pc' # "part" => s' = length'
    PROVE  InOrder'
<1>1. OutputTypes /\ InOrder /\ WriterOK /\ FlightOK
  BY DEF OutputInv, OutputTypes
<1>2. /\ data \in [Buffers -> [1..MaxLength -> 0..MaxChars]] /\ TypeOK
      /\ cur \in {"data", "data2"} /\ length \in 0..MaxLength
      /\ flight.done \in Nat /\ flight.len \in 0..MaxLength
      /\ flight.of \in Buffers \/ flight = NoFlight
      /\ flight = NoFlight => Unread = {}
      /\ text.left \in 0..MaxText /\ written \in 0..MaxChars
      /\ \A k \in DOMAIN host : host[k] \in Nat
  BY <1>1, OutputFacts
<1>3. pc \notin ZlpPlaces /\ s = length /\ written + n <= MaxChars
  <2>1. pc \notin ZlpPlaces /\ pc # "part"
    BY PlacesAre
  <2>2. s = length
    BY <1>1, <2>1 DEF InOrder
  <2>3. written + text.left <= MaxChars
    BY <1>1 DEF WriterOK
  <2> QED BY <1>2, <2>1, <2>2, <2>3
<1>4. /\ \A b \in Buffers : b # cur => data'[b] = data[b]
      /\ \A i \in 1..MaxLength :
           data'[cur][i] = IF i \in s + 1..s + n THEN written + i - s ELSE data[cur][i]
  <2>1. PICK m \in 0..MaxChars : m = written + n
    BY <1>2, <1>3
  <2> QED BY <1>2, <1>3, <2>1, CopiedIs
<1>5. Unsent = 1..length /\ Unsent' = 1..length + n /\ Unread' = Unread
  BY <1>3 DEF Unsent, Unread
<1>6. flight.of # cur
  <2>1. "empty" \notin gaveUp /\ pc \notin ZlpPlaces
    BY <1>3
  <2> QED BY <1>1, <2>1 DEF FlightOK
<1>7. \A i \in Unread : data'[flight.of][i] = data[flight.of][i]
  BY <1>2, <1>4, <1>6
<1> DEFINE F(i) == data[flight.of][i]
           C(i) == data[cur][i]
           D(i) == data'[cur][i]
<1>8. /\ \A i \in Unread : F(i) \in 1..written
      /\ \A i, j \in Unread : i < j => F(i) < F(j)
      /\ \A i \in Unsent : C(i) \in 1..written
      /\ \A i, j \in Unsent : i < j => C(i) < C(j)
      /\ \A i \in Unread, j \in Unsent : F(i) < C(j)
      /\ \A k \in DOMAIN host : host[k] <= written
      /\ \A k \in DOMAIN host, i \in Unread : host[k] < F(i)
      /\ \A k \in DOMAIN host, i \in Unsent : host[k] < C(i)
  BY <1>1 DEF InOrder
<1>9. \A i \in Unsent' : \/ i \in Unsent /\ D(i) = C(i)
                         \/ i \notin Unsent /\ D(i) = written + i - length
  <2> SUFFICES ASSUME NEW i \in 1..length + n
               PROVE  \/ i \in 1..length /\ D(i) = C(i)
                      \/ i \notin 1..length /\ D(i) = written + i - length
    BY <1>5
  <2>1. i \in 1..MaxLength
    BY <1>2
  <2>2. i \in s + 1..s + n <=> i \notin 1..length
    BY <1>2, <1>3
  <2>3. D(i) = IF i \in s + 1..s + n THEN written + i - s ELSE C(i)
    BY <1>4, <2>1
  <2> HIDE DEF C, D
  <2> QED BY <1>3, <2>2, <2>3
<1> HIDE DEF F, C, D
<1>10. Unsent' \subseteq Nat /\ length \in Int /\ written \in Int /\ n \in Int
       /\ \A i \in Unsent' : i \notin Unsent => i > length /\ i <= length + n
  BY <1>2, <1>5
<1>11. \A i \in Unsent : i <= length
  BY <1>2, <1>5
<1>12. /\ \A i \in Unread : F(i) \in 1..written'
       /\ \A k \in DOMAIN host : host[k] <= written'
  BY <1>2, <1>8
<1>13. \A i \in Unsent' : D(i) \in 1..written'
  <2> SUFFICES ASSUME NEW i \in Unsent' PROVE D(i) \in 1..written'
    OBVIOUS
  <2>1. CASE i \in Unsent /\ D(i) = C(i)
    <3>1. C(i) \in 1..written
      BY <1>8, <2>1
    <3> QED BY <1>10, <2>1, <3>1
  <2>2. CASE i \notin Unsent /\ D(i) = written + i - length
    <3>1. i > length /\ i <= length + n /\ i \in Int
      BY <1>10, <2>2
    <3> QED BY <1>2, <1>10, <2>2, <3>1
  <2> QED BY <1>9, <2>1, <2>2
<1>14. \A i \in Unsent' : i \notin Unsent => D(i) > written
  <2> SUFFICES ASSUME NEW i \in Unsent', i \notin Unsent PROVE D(i) > written
    OBVIOUS
  <2>1. i > length /\ i \in Int /\ D(i) = written + i - length
    BY <1>9, <1>10
  <2> QED BY <1>10, <2>1
<1>15. \A i, j \in Unsent' : i < j => D(i) < D(j)
  <2> SUFFICES ASSUME NEW i \in Unsent', NEW j \in Unsent', i < j PROVE D(i) < D(j)
    OBVIOUS
  <2>1. i \in Int /\ j \in Int
    BY <1>10
  <2>2. CASE i \in Unsent /\ j \in Unsent
    BY <1>8, <1>9, <2>2
  <2>3. CASE i \in Unsent /\ j \notin Unsent
    <3>1. D(i) \in 1..written /\ D(j) > written
      BY <1>8, <1>9, <1>14, <2>3
    <3>2. D(j) \in Int
      BY <1>9, <1>10, <2>1, <2>3
    <3> QED BY <1>10, <3>1, <3>2
  <2>4. CASE i \notin Unsent /\ j \notin Unsent
    <3>1. D(i) = written + i - length /\ D(j) = written + j - length
      BY <1>9, <2>4
    <3> QED BY <1>10, <2>1, <3>1
  <2>5. CASE i \notin Unsent /\ j \in Unsent
    <3>1. i > length /\ j <= length
      BY <1>10, <1>11, <2>5
    <3> QED BY <1>10, <2>1, <3>1
  <2> QED BY <2>2, <2>3, <2>4, <2>5
<1>16. \A i \in Unsent' : D(i) \in Int
  BY <1>2, <1>10, <1>13
<1>17. \A i \in Unread, j \in Unsent' : F(i) < D(j)
  <2> SUFFICES ASSUME NEW i \in Unread, NEW j \in Unsent' PROVE F(i) < D(j)
    OBVIOUS
  <2>1. CASE j \in Unsent
    BY <1>8, <1>9, <2>1
  <2>2. CASE j \notin Unsent
    <3>1. F(i) \in 1..written /\ D(j) > written /\ D(j) \in Int
      BY <1>8, <1>14, <1>16, <2>2
    <3> QED BY <1>10, <3>1
  <2> QED BY <2>1, <2>2
<1>18. \A k \in DOMAIN host, i \in Unsent' : host[k] < D(i)
  <2> SUFFICES ASSUME NEW k \in DOMAIN host, NEW i \in Unsent' PROVE host[k] < D(i)
    OBVIOUS
  <2>1. CASE i \in Unsent
    BY <1>8, <1>9, <2>1
  <2>2. CASE i \notin Unsent
    <3>1. host[k] <= written /\ host[k] \in Int /\ D(i) > written /\ D(i) \in Int
      BY <1>2, <1>8, <1>14, <1>16, <2>2
    <3> QED BY <1>10, <3>1
  <2> QED BY <2>1, <2>2
<1>19. \A i \in Unread : data'[flight.of][i] = F(i)
  BY <1>7 DEF F
<1>20. \A i : D(i) = data'[cur][i]
  BY DEF D
<1>21. /\ \A i \in Unread : data'[flight.of][i] \in 1..written'
       /\ \A i, j \in Unread : i < j => data'[flight.of][i] < data'[flight.of][j]
       /\ \A i \in Unread, j \in Unsent' : data'[flight.of][i] < data'[cur][j]
       /\ \A k \in DOMAIN host, i \in Unread : host[k] < data'[flight.of][i]
  BY <1>8, <1>12, <1>17, <1>19, <1>20
<1>22. /\ \A i \in Unsent' : data'[cur][i] \in 1..written'
       /\ \A i, j \in Unsent' : i < j => data'[cur][i] < data'[cur][j]
       /\ \A k \in DOMAIN host, i \in Unsent' : host[k] < data'[cur][i]
  BY <1>13, <1>15, <1>18, <1>20
<1>23. flight' = flight /\ cur' = cur /\ host' = host /\ Unread' = Unread
  BY <1>5
<1>24. pc' # "char" /\ (pc' \notin {"part"} \union ZlpPlaces => s' = length')
  OBVIOUS
<1> HIDE DEF InOrder
<1> QED BY <1>12, <1>21, <1>22, <1>23, <1>24 DEF InOrder

\* What is sent is what the buffer holds.
LEMMA OrderSend ==
    ASSUME OutputInv, gaveUp = {}, Send
    PROVE  InOrder'
<1>1. OutputTypes /\ InOrder
  BY DEF OutputInv
<1>2. /\ pc \in Sending /\ ~Busy /\ s' = 0
      /\ flight' = [of |-> cur, len |-> length, done |-> 0]
      /\ UNCHANGED <<data, text, written, host, gaveUp>>
      /\ \/ pc' = Zlp[pc] /\ cur' = cur /\ length' = length
         \/ pc' = After[pc] /\ cur' = Other(cur) /\ length' = 0
  BY SendIs
<1>3. pc \notin ZlpPlaces /\ pc' \in {"copy", "idle"} \union ZlpPlaces /\ length \in Nat
      /\ (pc' \in ZlpPlaces \/ length' = 0)
  BY <1>1, <1>2, PlacesAre, OutputFacts
<1>4. Unsent = 1..length /\ Unread' = 1..length
  <2>1. flight'.len = length /\ flight'.done = 0
    BY <1>2
  <2> QED BY <1>3, <2>1 DEF Unsent, Unread
<1>5. Unsent' = {}
  <2>1. length' = 0 => 1..length' = {}
    OBVIOUS
  <2> QED BY <1>3, <2>1 DEF Unsent
<1>6. flight'.of = cur /\ data' = data /\ host' = host /\ written' = written
  BY <1>2
<1>7. pc' # "char" /\ (pc' \notin {"part"} \union ZlpPlaces => s' = length')
  BY <1>2, <1>3, PlacesAre
<1>8. /\ \A i \in 1..length : data[cur][i] \in 1..written
      /\ \A i, j \in 1..length : i < j => data[cur][i] < data[cur][j]
      /\ \A k \in DOMAIN host : host[k] <= written
      /\ \A k \in DOMAIN host, i \in 1..length : host[k] < data[cur][i]
  BY <1>1, <1>4 DEF InOrder
<1> QED BY <1>4, <1>5, <1>6, <1>7, <1>8 DEF InOrder

\* A character overtakes nothing: the buffer is empty, and the FIFO has taken
\* the one before it.
LEMMA OrderPutC ==
    ASSUME OutputInv, gaveUp = {}, PutC, "overtaken" \notin Races
    PROVE  InOrder'
<1>1. OutputTypes /\ InOrder /\ FlightOK
  BY DEF OutputInv, OutputTypes
<1>2. /\ data \in [Buffers -> [1..MaxLength -> 0..MaxChars]]
      /\ cur \in {"data", "data2"}
      /\ flight.done \in Nat /\ flight.len \in 0..MaxLength
      /\ flight.of \in Buffers \/ flight = NoFlight
      /\ flight = NoFlight => Unread = {}
      /\ written \in Nat /\ length \in Nat
      /\ \A k \in DOMAIN host : host[k] \in Nat
  BY <1>1, OutputFacts
<1>3. /\ UNCHANGED <<cur, length, s, flight, host, gaveUp>> /\ pc = "idle" /\ pc' = "char"
      /\ data' = [data EXCEPT !["char"][1] = written + 1] /\ written' = written + 1
      /\ Runs /\ length = 0
  <2>1. length > 0 => "overtaken" \in Races
    BY DEF PutC
  <2> QED BY <1>2, <2>1 DEF PutC, Goto
<1>4. pc \notin ZlpPlaces /\ pc' \notin ZlpPlaces
  BY <1>3, PlacesAre
<1>5. Unsent = {} /\ Unsent' = {} /\ Unread' = Unread
  <2>1. 1..length = {}
    BY <1>3
  <2> QED BY <1>3, <1>4, <2>1 DEF Unsent, Unread
<1>6. flight.of = "char" => Unread = {}
  <2> SUFFICES ASSUME flight.of = "char", flight # NoFlight PROVE Unread = {}
    BY <1>2
  <2>1. flight.len = 1
    BY <1>1 DEF FlightOK
  <2>2. flight.done >= 1
    BY <1>3, <2>1 DEF Runs, Busy, Smaller
  <2> QED BY <1>2, <2>1, <2>2 DEF Unread
<1>7. \A i \in Unread : data'[flight.of][i] = data[flight.of][i]
  BY <1>2, <1>3, <1>6
<1>8. data'["char"][1] = written + 1
  BY <1>2, <1>3 DEF Buffers
<1> DEFINE F(i) == data[flight.of][i]
<1>9. /\ \A i \in Unread : F(i) \in 1..written
      /\ \A i, j \in Unread : i < j => F(i) < F(j)
      /\ \A k \in DOMAIN host : host[k] <= written
      /\ \A k \in DOMAIN host, i \in Unread : host[k] < F(i)
      /\ s = length
  BY <1>1, <1>3, <1>4 DEF InOrder
<1>10. \A i \in Unread : data'[flight.of][i] = F(i)
  BY <1>7
<1> HIDE DEF F
<1>11. /\ \A i \in Unread : F(i) \in 1..written + 1 /\ F(i) < written + 1
       /\ \A k \in DOMAIN host : host[k] <= written + 1 /\ host[k] < written + 1
  BY <1>2, <1>9
<1>12. written + 1 > 0
  BY <1>2
<1>13. data'["char"][1] = written' /\ written' > 0 /\ length' = 0 /\ s' = length'
  BY <1>3, <1>8, <1>9, <1>12
<1>14. /\ \A i \in Unread : data'[flight.of][i] \in 1..written' /\ data'[flight.of][i] < written'
       /\ \A i, j \in Unread : i < j => data'[flight.of][i] < data'[flight.of][j]
       /\ \A k \in DOMAIN host, i \in Unread : host[k] < data'[flight.of][i]
       /\ \A k \in DOMAIN host : host[k] <= written' /\ host[k] < written'
  BY <1>3, <1>9, <1>10, <1>11
<1>15. flight' = flight /\ host' = host
  BY <1>3
<1> QED BY <1>5, <1>13, <1>14, <1>15 DEF InOrder

\* The character is the last that was written.
LEMMA OrderPutCSend ==
    ASSUME OutputInv, gaveUp = {}, PutC_Send
    PROVE  InOrder'
<1>1. OutputTypes /\ InOrder
  BY DEF OutputInv
<1>2. /\ UNCHANGED <<data, cur, length, s, written, host, gaveUp>> /\ pc = "char" /\ pc' = "idle"
      /\ flight' = [of |-> "char", len |-> 1, done |-> 0]
  BY DEF PutC_Send, Transmit, Goto, buffer
<1>3. /\ length = 0 /\ data["char"][1] = written /\ written > 0 /\ s = length
      /\ \A k \in DOMAIN host : host[k] < written
      /\ \A k \in DOMAIN host : host[k] <= written
  <2>1. pc \notin {"part"} \union ZlpPlaces
    BY <1>2, PlacesAre
  <2> QED BY <1>1, <1>2, <2>1 DEF InOrder
<1>4. Unsent' = {} /\ Unread' = {1} /\ flight'.of = "char"
  <2>1. flight'.len = 1 /\ flight'.done = 0 /\ flight'.of = "char"
    BY <1>2
  <2>2. pc' \notin ZlpPlaces /\ length' = 0
    BY <1>2, <1>3, PlacesAre
  <2>3. 1..0 = {} /\ 0 + 1..1 = {1}
    OBVIOUS
  <2> QED BY <2>1, <2>2, <2>3 DEF Unsent, Unread
<1>5. written \in 1..written /\ ~(1 < 1)
  BY <1>1, <1>3, OutputFacts
<1> QED BY <1>2, <1>3, <1>4, <1>5 DEF InOrder

\* Every step keeps the order.
LEMMA OrderStep ==
    ASSUME OutputInv, [Next]_vars, "overtaken" \notin Races
    PROVE  OutputInv'
<1>1. OutputTypes /\ HostReadsInOrder /\ WriterOK /\ FlightOK
  BY DEF OutputInv, OutputTypes
<1>2. OutputTypes'
  BY <1>1, OutputTypesStep
<1>3. CASE Load /\ gaveUp = {}
  <2>1. InOrder' /\ HostReadsInOrder'
    BY <1>3, OrderLoad
  <2> QED BY <1>2, <2>1 DEF OutputInv
<1>4. (Load /\ gaveUp = {}) \/ host' = host
  BY DEF Next, Usb, Writer, Load, TransmitCplt, Write, Copy_Part, Copy_Rest, Send, Send_Zlp,
         Abort, PutC, PutC_Send, PutC_Abort, vars
<1>5. host' = host => HostReadsInOrder'
  BY <1>1 DEF HostReadsInOrder
<1>6. SUFFICES ASSUME ~Load, gaveUp = {}, gaveUp' = {}
               PROVE  InOrder'
  <2>1. gaveUp' = {} => gaveUp = {}
    BY DEF Next, Usb, Writer, Load, TransmitCplt, Write, Copy_Part, Copy_Rest, Send, Send_Zlp,
           Abort, PutC, PutC_Send, PutC_Abort, vars
  <2>2. Load => gaveUp' = gaveUp
    BY DEF Load
  <2> QED BY <1>2, <1>3, <1>4, <1>5, <1>6, <2>1, <2>2 DEF OutputInv
<1>7. InOrder
  BY <1>6 DEF OutputInv
<1>8. CASE UNCHANGED vars
  <2>1. UNCHANGED <<data, cur, length, s, flight, pc, text, written, host, gaveUp>>
    BY <1>8 DEF vars, buffer, writer
  <2> QED BY <2>1, <1>7 DEF InOrder, Unread, Unsent
<1>9. CASE TransmitCplt
  <2>1. UNCHANGED <<data, cur, length, s, pc, text, written, host, gaveUp>> /\ flight' = NoFlight
    BY <1>9 DEF TransmitCplt, buffer, writer
  <2>2. Unread' = {} /\ Unsent' = Unsent
    <3>1. flight'.len = 0 /\ flight'.done = 0
      BY <2>1 DEF NoFlight
    <3>2. 0 + 1..0 = {}
      OBVIOUS
    <3> QED BY <2>1, <3>1, <3>2 DEF Unread, Unsent
  <2> QED BY <2>1, <2>2, <1>7 DEF InOrder
<1>10. ASSUME NEW n \in 1..MaxText, NEW send \in BOOLEAN, Write(n, send)
       PROVE  InOrder'
  <2>1. /\ UNCHANGED <<data, cur, length, s, flight, written, host, gaveUp>>
        /\ pc = "idle" /\ pc' \in {"flush", "copy"}
    BY <1>10 DEF Write, Goto, buffer
  <2>2. Unread' = Unread /\ Unsent' = Unsent /\ pc \notin {"part"} \union ZlpPlaces /\ pc' # "char"
    BY <2>1, PlacesAre DEF Unread, Unsent
  <2> QED BY <2>1, <2>2, <1>7 DEF InOrder
<1>11. CASE Copy_Part
  <2>1. /\ UNCHANGED <<cur, s, flight, host, gaveUp>> /\ pc = "copy" /\ pc' = "part"
        /\ text.left > MaxLength /\ Copied(MaxLength) /\ length' = MaxLength
        /\ written' = written + MaxLength
    BY <1>11 DEF Copy_Part, Goto
  <2>2. length = 0
    BY <1>1, <2>1, OutputFacts DEF WriterOK
  <2>3. length' = length + MaxLength /\ length' <= MaxLength /\ MaxLength <= text.left /\ MaxLength \in Nat
    BY <1>1, <2>1, <2>2, OutputFacts
  <2>4. pc' \notin {"char"} \union ZlpPlaces
    BY <2>1, PlacesAre
  <2> QED BY <1>6, <2>1, <2>3, <2>4, OrderCopy
<1>12. CASE Copy_Rest
  <2>1. /\ UNCHANGED <<cur, flight, host, gaveUp>> /\ pc = "copy" /\ pc' \in {"send", "idle"}
        /\ text.left <= MaxLength /\ Copied(text.left)
        /\ length' = length + text.left /\ s' = s + text.left
        /\ written' = written + text.left
    BY <1>12 DEF Copy_Rest, Goto
  <2>2. text.left \in Nat /\ length' <= MaxLength /\ text.left <= text.left
    BY <1>1, <2>1, OutputFacts, SMTT(30) DEF WriterOK
  <2>3. pc' \notin {"char"} \union ZlpPlaces /\ s' = length'
    <3>1. pc \notin {"part"} \union ZlpPlaces
      BY <2>1, PlacesAre
    <3>2. s = length
      BY <1>7, <3>1 DEF InOrder
    <3> QED BY <2>1, <3>2, PlacesAre
  <2> QED BY <1>6, <2>1, <2>2, <2>3, OrderCopy
<1>13. CASE Send
  BY <1>6, <1>13, OrderSend
<1>14. CASE Send_Zlp
  <2>1. /\ pc' \in {"copy", "idle"} /\ flight' = [of |-> "dummy", len |-> 0, done |-> 0]
        /\ UNCHANGED <<data, text, written, host, gaveUp>> /\ s' = 0 /\ length' = 0
    BY <1>14, SendZlpIs
  <2>2. Unread' = {} /\ Unsent' = {}
    <3>1. flight'.len = 0 /\ flight'.done = 0
      BY <2>1
    <3>2. 0 + 1..0 = {} /\ 1..0 = {}
      OBVIOUS
    <3> QED BY <2>1, <3>1, <3>2 DEF Unread, Unsent
  <2>3. pc' # "char" /\ \A k \in DOMAIN host : host[k] <= written
    BY <1>7, <2>1 DEF InOrder
  <2> QED BY <2>1, <2>2, <2>3 DEF InOrder
<1>15. CASE Abort
  <2>1. gaveUp' # {}
    BY <1>15, AbortIs
  <2> QED BY <1>6, <2>1
<1>16. CASE PutC
  BY <1>6, <1>16, OrderPutC
<1>17. CASE PutC_Send
  BY <1>6, <1>17, OrderPutCSend
<1>18. CASE PutC_Abort
  <2>1. UNCHANGED <<data, cur, length, s, flight, written, host, gaveUp>> /\ pc = "char" /\ pc' = "idle"
    BY <1>18 DEF PutC_Abort, Goto, buffer
  <2>2. Unread' = Unread /\ Unsent' = Unsent /\ pc \notin {"part"} \union ZlpPlaces
    BY <2>1, PlacesAre DEF Unread, Unsent
  <2> QED BY <2>1, <2>2, <1>7 DEF InOrder
<1> QED BY <1>6, <1>8, <1>9, <1>10, <1>11, <1>12, <1>13, <1>14, <1>15, <1>16, <1>17, <1>18 DEF Next, Usb, Writer

\* The host reads the characters in the order they were written, whatever waits
\* are given up, when a character is sent on its own only behind an empty buffer.
THEOREM OutputIsInOrder ==
    ASSUME "overtaken" \notin Races
    PROVE  Spec => []HostReadsInOrder
<1>1. Init => OutputInv
  BY OutputInit
<1>2. OutputInv /\ [Next]_vars => OutputInv'
  BY OrderStep
<1>3. OutputInv => HostReadsInOrder
  BY DEF OutputInv
<1> QED BY <1>1, <1>2, <1>3, PTL DEF Spec

-----------------------------------------------------------------------------
(* The transfer under way.                                                  *)

\* Nothing is stored into what the class has yet to read.
LEMMA StepLeavesFlight ==
    ASSUME OutputTypes, [Next]_vars, flight' = flight, "empty" \notin gaveUp,
           NEW i \in flight.done + 1..flight.len
    PROVE  data'[flight.of][i] = data[flight.of][i]
<1>1. /\ data \in [Buffers -> [1..MaxLength -> 0..MaxChars]] /\ TypeOK
      /\ cur \in {"data", "data2"} /\ flight.done \in Nat /\ flight.len \in 0..MaxLength
      /\ flight.of \in Buffers \/ flight = NoFlight
      /\ flight = NoFlight => Unread = {}
      /\ text.left \in 0..MaxText /\ written \in 0..MaxChars
  BY OutputFacts
<1>2. WriterOK /\ FlightOK
  BY DEF OutputTypes
<1>3. flight # NoFlight /\ flight.of \in Buffers
  BY <1>1 DEF Unread
<1>4. ASSUME pc = "copy", NEW n \in Nat, n <= text.left, Copied(n)
      PROVE  data'[flight.of][i] = data[flight.of][i]
  <2>1. written + n <= MaxChars
    BY <1>1, <1>2, <1>4 DEF WriterOK
  <2>2. PICK m \in 0..MaxChars : m = written + n
    BY <1>1, <2>1
  <2>3. \A b \in Buffers : b # cur => data'[b] = data[b]
    BY <1>1, <1>4, <2>1, <2>2, CopiedIs
  <2>4. pc \notin ZlpPlaces
    BY <1>4, PlacesAre
  <2>5. flight.of # cur
    BY <1>2, <2>4 DEF FlightOK
  <2> QED BY <1>3, <2>3, <2>5
<1>5. CASE Copy_Part
  <2>1. pc = "copy" /\ MaxLength <= text.left /\ MaxLength \in Nat /\ Copied(MaxLength)
    BY <1>1, <1>5 DEF Copy_Part, Goto
  <2> QED BY <1>4, <2>1
<1>6. CASE Copy_Rest
  <2>1. pc = "copy" /\ text.left <= text.left /\ text.left \in Nat /\ Copied(text.left)
    BY <1>1, <1>6 DEF Copy_Rest, Goto
  <2> QED BY <1>4, <2>1
<1>7. CASE PutC
  <2>1. data' = [data EXCEPT !["char"][1] = written + 1] /\ Runs
    BY <1>7 DEF PutC, Goto
  <2>2. flight.of # "char"
    <3> SUFFICES ASSUME flight.of = "char" PROVE FALSE
      OBVIOUS
    <3>1. flight.len = 1
      BY <1>2 DEF FlightOK
    <3>2. flight.done >= 1
      BY <1>3, <2>1, <3>1 DEF Runs, Busy, Smaller
    <3> QED BY <1>1, <3>1, <3>2
  <2> QED BY <1>1, <1>3, <2>1, <2>2
<1>8. Copy_Part \/ Copy_Rest \/ PutC \/ data' = data
  BY DEF Next, Usb, Writer, Load, TransmitCplt, Write, Send, Send_Zlp, Abort, PutC_Send,
         PutC_Abort, vars, buffer
<1> QED BY <1>5, <1>6, <1>7, <1>8

\* A transfer under way is not written over, also after the wait for it has been
\* given up, unless the wait for the empty one was.
THEOREM FlightIsUntouched == Spec => FlightUntouched
<1>1. Init => OutputTypes
  BY OutputInit DEF OutputInv
<1>2. OutputTypes /\ [Next]_vars => OutputTypes'
  BY OutputTypesStep
<1>3. OutputTypes /\ [Next]_vars =>
        [flight' = flight /\ "empty" \notin gaveUp =>
          \A i \in flight.done + 1..flight.len : data'[flight.of][i] = data[flight.of][i]]_vars
  BY StepLeavesFlight
<1> QED BY <1>1, <1>2, <1>3, PTL DEF Spec, FlightUntouched

\* Every variable keeps its type, and no copy goes beyond a buffer.
THEOREM OutputTypeOK == Spec => []TypeOK
<1>1. Init => OutputTypes
  BY OutputInit DEF OutputInv
<1>2. OutputTypes /\ [Next]_vars => OutputTypes'
  BY OutputTypesStep
<1>3. OutputTypes => TypeOK
  BY DEF OutputTypes
<1> QED BY <1>1, <1>2, <1>3, PTL DEF Spec
=============================================================================
