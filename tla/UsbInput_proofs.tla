--------------------------- MODULE UsbInput_proofs ---------------------------
(***************************************************************************)
(* Theorems about UsbInput for rings and packets of any size.              *)
(***************************************************************************)
EXTENDS UsbInput, TLAPS

USE SizesAssumption DEF SizesAssumption, Slots

-----------------------------------------------------------------------------
(* The ring arithmetic, without remainders.                                 *)

\* How many characters there are from slot t up to the head h.
LEMMA CountIs ==
    ASSUME NEW h \in Slots, NEW t \in Slots
    PROVE  /\ Count(h, t) = IF h >= t THEN h - t ELSE h - t + Size
           /\ Count(h, t) \in Slots
           /\ Count(h, t) = 0 <=> h = t
<1>1. CASE h >= t
  <2>1. h - t + Size \in Size..2*Size-1
    BY <1>1
  <2>2. (h - t + Size) % Size = h - t
    BY <2>1
  <2> QED BY <1>1, <2>2 DEF Count
<1>2. CASE h < t
  <2>1. h - t + Size \in Slots
    BY <1>2
  <2>2. (h - t + Size) % Size = h - t + Size
    BY <2>1
  <2> QED BY <1>2, <2>2 DEF Count
<1> QED BY <1>1, <1>2

\* Going on by up to a whole ring.
LEMMA SlotAfter ==
    ASSUME NEW h \in Slots, NEW k \in Slots
    PROVE  (h + k) % Size = IF h + k < Size THEN h + k ELSE h + k - Size
<1>1. CASE h + k < Size
  <2>1. h + k \in Slots
    BY <1>1
  <2> QED BY <1>1, <2>1
<1>2. CASE h + k >= Size
  <2>1. h + k \in Size..2*Size-1
    BY <1>2
  <2> QED BY <1>2, <2>1
<1> QED BY <1>1, <1>2

\* The next slot.
LEMMA NextIs ==
    ASSUME NEW i \in Slots
    PROVE  /\ Next_(i) = IF i = Size - 1 THEN 0 ELSE i + 1
           /\ Next_(i) \in Slots
<1>1. (i + 1) % Size = IF i + 1 < Size THEN i + 1 ELSE i + 1 - Size
  <2>1. 1 \in Slots
    OBVIOUS
  <2> QED BY <2>1, SlotAfter
<1> QED BY <1>1 DEF Next_

\* As much of a packet is stored as there is room for.
LEMMA StoredIs ==
    ASSUME NEW n \in Nat, head \in Slots, tail \in Slots
    PROVE  /\ Stored(n) \in Slots /\ Stored(n) <= n
           /\ Stored(n) + Count(head, tail) <= Size - 1
           /\ Stored(n) < n => n > Size - 1 - Count(head, tail)
<1>1. Count(head, tail) \in Slots
  BY CountIs
<1> QED BY <1>1 DEF Stored

-----------------------------------------------------------------------------
(* The invariant.                                                           *)

InRing == Count(head, tail)

\* The characters in the ring are the last ones stored, in order.
Contents ==
    \A i \in Slots :
        i # head /\ Count(head, i) <= InRing => data[i] = count + 1 - Count(head, i)

\* What has left the ring: read, flushed or cancelled.  While usbGetC holds a
\* copy of the tail it has read a character that is still in the ring.
Accounted ==
    /\ got <= count /\ gone <= count
    /\ pc \in {"idle", "free"} => Larger(got, gone) = count - InRing
    /\ pc = "read" => Larger(got, gone) = count - InRing + 1 /\ InRing > 0
    /\ pc \in {"idle", "free", "read"} => Contents
    /\ pc \in {"free", "read"} => reg = tail
    /\ pc \in {"cancel", "cancelled"} => got < count /\ gone = count - 1 /\ data[head] = count
    /\ pc = "cancelled" => tail = head
    /\ pc = "flush" => tail = 0

\* What a sender counts on is in the ring's room, but for one slot and the CAN
\* of a cancel.
CreditOK == pc # "flush" => credit + InRing <= Size + 1

InputInv == TypeOK /\ Accounted /\ CreditOK

\* Packets between the two stores of a flush are admitted, the other three are not.
NoRace == Races \intersect {"receive_in_cancel", "cancel_in_read", "cancel_in_flush"} = {}

\* The initial state.
LEMMA InputInit == Init => InputInv
<1> SUFFICES ASSUME Init PROVE InputInv
  OBVIOUS
<1>1. InRing = 0
  BY CountIs DEF Init, InRing
<1>2. TypeOK
  <2>1. overflow \in BOOLEAN
    BY Zenon DEF Init
  <2> QED BY <2>1 DEF Init, TypeOK
<1>3. Contents
  <2> SUFFICES ASSUME NEW i \in Slots, i # head, Count(head, i) <= InRing PROVE FALSE
    BY DEF Contents
  <2> QED BY <1>1, CountIs DEF Init
<1> QED BY <1>1, <1>2, <1>3 DEF Init, InputInv, Accounted, CreditOK, Larger

\* The types, the range of the counters included.
LEMMA InputTypes ==
    ASSUME InputInv, [Next]_vars
    PROVE  TypeOK'
<1>1. TypeOK
  BY DEF InputInv
<1>2. Next_(head) \in Slots /\ Next_(reg) \in Slots /\ Count(head, reg) \in Slots
  BY <1>1, NextIs, CountIs DEF TypeOK
<1>3. overflow' \in BOOLEAN
  <2>1. overflow \in BOOLEAN
    BY <1>1 DEF TypeOK
  <2>2. CASE \E n \in 1..MaxPacket : BufferInput(n)
    BY <2>1, <2>2, Zenon DEF BufferInput
  <2>3. CASE ~(\E n \in 1..MaxPacket : BufferInput(n))
    <3>1. overflow' = overflow
      BY <2>3 DEF Next, vars, ring, CommandCancels, Foreground, GetC_Read, GetC_Store, Free_Tail, Free_Head,
         Flush_Tail, Flush_Head, Cancel_Store, Cancel_Tail, Cancel_Head
    <3> QED BY <2>1, <3>1
  <2> QED BY <2>2, <2>3
<1>4. CASE \E n \in 1..MaxPacket : BufferInput(n)
  <2>1. PICK n \in 1..MaxPacket : BufferInput(n)
    BY <1>4
  <2>2. Stored(n) \in Slots /\ Stored(n) <= n
    <3>1. n \in Nat /\ head \in Slots /\ tail \in Slots
      BY <1>1 DEF TypeOK
    <3> QED BY <3>1, StoredIs
  <2>3. (head + Stored(n)) % Size \in Slots
    <3>1. head \in Slots
      BY <1>1 DEF TypeOK
    <3>2. (head + Stored(n)) % Size = IF head + Stored(n) < Size THEN head + Stored(n) ELSE head + Stored(n) - Size
      BY <2>2, <3>1, SlotAfter
    <3> QED BY <2>2, <3>1, <3>2
  <2>4. data' \in [Slots -> 0..MaxChars]
    <3> SUFFICES ASSUME NEW i \in Slots
                 PROVE  (IF Count(i, head) < Stored(n) THEN count + 1 + Count(i, head) ELSE data[i]) \in 0..MaxChars
      BY <2>1, Zenon DEF BufferInput
    <3>1. Count(i, head) \in Slots
      BY <1>1, CountIs DEF TypeOK
    <3>2. count \in Nat /\ n \in Nat /\ count + n <= MaxChars /\ data[i] \in 0..MaxChars
      BY <1>1, <2>1 DEF TypeOK, BufferInput
    <3> QED BY <2>2, <3>1, <3>2
  <2>5. credit' \in 0..Size /\ count' \in 0..MaxChars
    BY <1>1, <2>1, <2>2, SMTT(30) DEF TypeOK, BufferInput
  <2> QED BY <1>1, <1>3, <2>1, <2>3, <2>4, <2>5 DEF TypeOK, BufferInput
<1>5. CASE CommandCancels
  BY <1>1, <1>2, <1>3, <1>5, SMTT(30) DEF TypeOK, CommandCancels
<1>6. CASE Foreground
  <2>1. CASE GetC_Read
    BY <1>1, <1>2, <1>3, <2>1 DEF TypeOK, GetC_Read, Goto, ring
  <2>2. CASE GetC_Store
    BY <1>1, <1>2, <1>3, <2>2 DEF TypeOK, GetC_Store, Goto, ring
  <2>3. CASE Free_Tail
    BY <1>1, <1>2, <1>3, <2>3 DEF TypeOK, Free_Tail, Goto, ring
  <2>4. CASE Free_Head
    BY <1>1, <1>2, <1>3, <2>4, SMTT(30) DEF TypeOK, Free_Head, Goto, ring
  <2>5. CASE Flush_Tail
    BY <1>1, <1>2, <1>3, <2>5 DEF TypeOK, Flush_Tail, Goto, ring
  <2>6. CASE Flush_Head
    BY <1>1, <1>2, <1>3, <2>6 DEF TypeOK, Flush_Head, Goto, ring
  <2>7. CASE Cancel_Store
    BY <1>1, <1>2, <1>3, <2>7 DEF TypeOK, Cancel_Store, Goto, ring
  <2>8. CASE Cancel_Tail
    BY <1>1, <1>2, <1>3, <2>8 DEF TypeOK, Cancel_Tail, Goto, ring
  <2>9. CASE Cancel_Head
    BY <1>1, <1>2, <1>3, <2>9 DEF TypeOK, Cancel_Head, Goto, ring
  <2> QED BY <1>6, <2>1, <2>2, <2>3, <2>4, <2>5, <2>6, <2>7, <2>8, <2>9 DEF Foreground
<1>7. CASE UNCHANGED vars
  BY <1>1, <1>7 DEF TypeOK, vars, ring
<1> QED BY <1>4, <1>5, <1>6, <1>7 DEF Next

\* A step that leaves the ring and its history alone and ends in a place where
\* nothing more is known of them than before.
LEMMA RingSame ==
    ASSUME InputInv, UNCHANGED <<data, head, tail, count, gone>>
    PROVE  InRing' = InRing /\ (Contents => Contents')
BY DEF InRing, Contents

\* A packet: as much as there is room for goes behind what is there.
LEMMA PacketStep ==
    ASSUME InputInv, TypeOK', NEW n \in 1..MaxPacket, BufferInput(n), NoRace
    PROVE  /\ Accounted' /\ CreditOK'
           /\ margin >= 2 /\ overflow' # overflow => pc = "flush"
<1> DEFINE k == Stored(n)
<1>1. TypeOK /\ k \in Slots /\ k <= n /\ k + InRing <= Size - 1 /\ InRing \in Slots
      /\ (k < n => n > Size - 1 - InRing)
  <2>1. TypeOK
    BY DEF InputInv
  <2>2. n \in Nat /\ head \in Slots /\ tail \in Slots
    BY <2>1 DEF TypeOK
  <2> QED BY <2>1, <2>2, StoredIs, CountIs DEF InRing
<1>2. /\ head' = IF head + k < Size THEN head + k ELSE head + k - Size
      /\ tail' = tail /\ pc' = pc /\ reg' = reg /\ got' = got /\ gone' = gone
      /\ count' = count + k /\ credit' = credit - n /\ n <= credit - margin
      /\ \A i \in Slots : data'[i] = IF Count(i, head) < k THEN count + 1 + Count(i, head) ELSE data[i]
  BY <1>1, SlotAfter DEF BufferInput, TypeOK
<1>3. pc \notin {"cancel", "cancelled"}
  BY DEF BufferInput, NoRace
<1> HIDE DEF k
<1>4. InRing' = InRing + k
  <2>1. head \in Slots /\ tail \in Slots /\ head' \in Slots /\ tail' \in Slots
    BY <1>1 DEF TypeOK
  <2>2. InRing = IF head >= tail THEN head - tail ELSE head - tail + Size
    BY <2>1, CountIs DEF InRing
  <2>3. InRing' = IF head' >= tail THEN head' - tail ELSE head' - tail + Size
    BY <1>2, <2>1, CountIs DEF InRing
  <2> QED BY <1>1, <1>2, <2>1, <2>2, <2>3
<1>5. Contents => Contents'
  <2> SUFFICES ASSUME Contents, NEW i \in Slots, i # head', Count(head', i) <= InRing'
               PROVE  data'[i] = count' + 1 - Count(head', i)
    BY DEF Contents
  <2>1. /\ Count(i, head) = IF i >= head THEN i - head ELSE i - head + Size
        /\ Count(head, i) = IF head >= i THEN head - i ELSE head - i + Size
        /\ Count(head', i) = IF head' >= i THEN head' - i ELSE head' - i + Size
    BY <1>1, CountIs DEF TypeOK
  <2>2. CASE Count(i, head) < k
    <3>1. Count(head', i) = k - Count(i, head)
      BY <1>1, <1>2, <2>1, <2>2, SMTT(30) DEF TypeOK
    <3>2. data'[i] = count + 1 + Count(i, head)
      BY <1>2, <2>2
    <3>3. Count(i, head) \in Int /\ k \in Int /\ count \in Int
      BY <1>1, CountIs, SMTT(30) DEF TypeOK
    <3> QED BY <1>2, <3>1, <3>2, <3>3
  <2>3. CASE ~(Count(i, head) < k)
    <3>1. Count(head', i) = Count(head, i) + k /\ i # head
      <4>1. head \in Slots /\ head' \in Slots
        BY <1>1 DEF TypeOK
      <4> QED BY <1>1, <1>2, <2>1, <2>3, <4>1
    <3>2. Count(head, i) \in Int /\ k \in Int /\ count \in Int /\ InRing \in Int
      BY <1>1, CountIs, SMTT(30) DEF TypeOK
    <3>3. Count(head, i) <= InRing
      BY <1>4, <3>1, <3>2
    <3>4. data'[i] = data[i] /\ data[i] = count + 1 - Count(head, i)
      BY <1>2, <2>3, <3>1, <3>3 DEF Contents
    <3> QED BY <1>2, <3>1, <3>2, <3>4
  <2> QED BY <2>2, <2>3
<1>6. Accounted'
  <2>1. got \in Nat /\ gone \in Nat /\ count \in Nat
    BY <1>1 DEF TypeOK
  <2>2. Accounted
    BY DEF InputInv
  <2>3. Larger(got', gone') = Larger(got, gone) /\ count' - InRing' = count - InRing
    BY <1>1, <1>2, <1>4, <2>1 DEF Larger
  <2>4. got' <= count' /\ gone' <= count'
    BY <1>1, <1>2, <2>1, <2>2 DEF Accounted
  <2> QED BY <1>1, <1>2, <1>3, <1>4, <1>5, <2>2, <2>3, <2>4 DEF Accounted
<1>7. CreditOK'
  BY <1>1, <1>2, <1>4 DEF InputInv, CreditOK, TypeOK
<1>8. ASSUME margin >= 2, overflow' # overflow, pc # "flush" PROVE FALSE
  <2>1. k < n
    <3>1. overflow' = (overflow \/ Stored(n) < n)
      BY DEF BufferInput
    <3>2. overflow \in BOOLEAN /\ overflow' \in BOOLEAN
      BY <1>1 DEF TypeOK
    <3> QED BY <1>8, <3>1, <3>2 DEF k
  <2> QED BY <1>1, <1>2, <1>8, <2>1 DEF InputInv, CreditOK, TypeOK
<1> QED BY <1>6, <1>7, <1>8


\* The ring after a cancel: the CAN character and nothing else.
LEMMA OneLeft ==
    ASSUME TypeOK, TypeOK', tail' = head, head' = Next_(head), data'[head] = count'
    PROVE  InRing' = 1 /\ Contents'
<1>1. head \in Slots /\ head' \in Slots /\ count' \in Nat
  BY DEF TypeOK
<1>2. head' = IF head = Size - 1 THEN 0 ELSE head + 1
  BY <1>1, NextIs
<1>3. \A i \in Slots : Count(head', i) = IF head' >= i THEN head' - i ELSE head' - i + Size
  BY <1>1, CountIs
<1>4. InRing' = 1
  <2>1. InRing' = Count(head', head)
    BY DEF InRing, Count
  <2> QED BY <1>1, <1>2, <1>3, <2>1
<1>5. ASSUME NEW i \in Slots, i # head', Count(head', i) <= 1
      PROVE  i = head /\ Count(head', i) = 1
  BY <1>1, <1>2, <1>3, <1>5
<1> QED BY <1>1, <1>4, <1>5 DEF Contents

\* A real time command that cancels the input.
LEMMA CommandStep ==
    ASSUME InputInv, TypeOK', CommandCancels, NoRace
    PROVE  Accounted' /\ CreditOK'
<1>1. TypeOK /\ Accounted
  BY DEF InputInv
<1>2. /\ tail' = head /\ head' = Next_(head) /\ count' = count + 1 /\ gone' = count /\ got' = got
      /\ pc' = pc /\ credit' = credit
  BY DEF CommandCancels
<1>3. data'[head] = count'
  BY <1>1, <1>2 DEF CommandCancels, TypeOK
<1>4. pc = "idle"
  BY <1>1 DEF CommandCancels, NoRace, TypeOK
<1>5. InRing' = 1 /\ Contents'
  BY <1>1, <1>2, <1>3, OneLeft
<1>6. got \in Nat /\ count \in Nat /\ got <= count /\ credit \in 0..Size
  BY <1>1 DEF TypeOK, Accounted
<1>7. Larger(got', gone') = count' - InRing' /\ got' <= count' /\ gone' <= count'
  BY <1>2, <1>5, <1>6 DEF Larger
<1> QED BY <1>2, <1>4, <1>5, <1>6, <1>7 DEF Accounted, CreditOK

\* usbGetC: its read takes the oldest character.
LEMMA ReadStep ==
    ASSUME InputInv, TypeOK', GetC_Read
    PROVE  Accounted' /\ CreditOK' /\ got' = Larger(got, gone) + 1
<1>1. TypeOK /\ Accounted
  BY DEF InputInv
<1>2. /\ UNCHANGED <<data, head, tail, count, gone>> /\ credit' = credit
      /\ pc = "idle" /\ pc' = "read" /\ tail # head /\ reg' = tail /\ got' = data[tail]
  BY DEF GetC_Read, Goto, ring
<1>3. head \in Slots /\ tail \in Slots /\ count \in Nat /\ got \in Nat /\ gone \in Nat
  BY <1>1 DEF TypeOK
<1>4. InRing \in 1..Size-1 /\ InRing' = InRing /\ Contents'
  <2>1. InRing \in Slots /\ InRing # 0
    BY <1>2, <1>3, CountIs DEF InRing
  <2> QED BY <1>1, <1>2, <2>1, RingSame DEF Accounted
<1>5. got' = count + 1 - InRing
  BY <1>1, <1>2, <1>3, <1>4 DEF Accounted, Contents, InRing
<1>6. Larger(got, gone) = count - InRing
  BY <1>1, <1>2 DEF Accounted
<1>7. got' = Larger(got, gone) + 1 /\ got' <= count /\ gone <= count
  BY <1>1, <1>3, <1>4, <1>5, <1>6 DEF Accounted
<1>8. Larger(got', gone') = count' - InRing' + 1
  BY <1>2, <1>3, <1>4, <1>5, <1>6 DEF Larger
<1>9. CreditOK'
  BY <1>2, <1>4 DEF InputInv, CreditOK
<1> QED BY <1>2, <1>4, <1>7, <1>8, <1>9 DEF Accounted

\* The other steps of the foreground.
LEMMA ForegroundStep ==
    ASSUME InputInv, TypeOK', Foreground, ~GetC_Read
    PROVE  Accounted' /\ CreditOK'
<1>1. TypeOK /\ Accounted
  BY DEF InputInv
<1>2. /\ head \in Slots /\ tail \in Slots /\ count \in Nat /\ got \in Nat /\ gone \in Nat
      /\ credit \in 0..Size /\ got <= count /\ gone <= count
  BY <1>1 DEF TypeOK, Accounted
<1>3. InRing \in Slots
  BY <1>2, CountIs DEF InRing
<1>4. CASE GetC_Store
  <2>1. /\ UNCHANGED <<data, head, count, gone, got>> /\ credit' = credit
        /\ pc = "read" /\ pc' = "idle" /\ tail' = Next_(tail)
    BY <1>1, <1>4 DEF GetC_Store, Goto, Accounted
  <2>2. InRing > 0 /\ Larger(got, gone) = count - InRing + 1 /\ Contents
    BY <1>1, <2>1 DEF Accounted
  <2>3. InRing' = InRing - 1
    <3>1. tail' = IF tail = Size - 1 THEN 0 ELSE tail + 1
      BY <1>2, <2>1, NextIs
    <3>2. InRing = IF head >= tail THEN head - tail ELSE head - tail + Size
      BY <1>2, CountIs DEF InRing
    <3>3. tail' \in Slots
      BY <1>2, <3>1
    <3>4. InRing' = IF head >= tail' THEN head - tail' ELSE head - tail' + Size
      BY <1>2, <2>1, <3>3, CountIs DEF InRing
    <3> QED BY <1>2, <2>2, <3>1, <3>2, <3>4
  <2>4. Contents'
    <3> SUFFICES ASSUME NEW i \in Slots, i # head, Count(head, i) <= InRing'
                 PROVE  data[i] = count + 1 - Count(head, i)
      BY <2>1 DEF Contents, Count
    <3>1. Count(head, i) \in Slots
      BY <1>2, CountIs
    <3>2. Count(head, i) <= InRing
      BY <1>3, <2>3, <3>1
    <3> QED BY <2>2, <3>2 DEF Contents
  <2>5. Larger(got', gone') = count' - InRing'
    BY <1>2, <1>3, <2>1, <2>2, <2>3 DEF Larger
  <2>6. CreditOK'
    BY <1>2, <1>3, <2>1, <2>3 DEF InputInv, CreditOK
  <2> QED BY <1>2, <2>1, <2>4, <2>5, <2>6 DEF Accounted
<1>5. CASE Free_Tail
  <2>1. /\ UNCHANGED <<data, head, tail, count, gone, got, credit>>
        /\ pc = "idle" /\ pc' = "free" /\ reg' = tail
    BY <1>5 DEF Free_Tail, Goto, ring
  <2>2. InRing' = InRing /\ Contents'
    BY <1>1, <2>1, RingSame DEF Accounted
  <2> QED BY <1>1, <2>1, <2>2 DEF InputInv, Accounted, CreditOK
<1>6. CASE Free_Head
  <2>1. /\ UNCHANGED <<data, head, tail, count, gone, got>>
        /\ pc = "free" /\ pc' = "idle" /\ reg = tail /\ credit' = Size - Count(head, reg)
    BY <1>1, <1>6 DEF Free_Head, Goto, ring, Accounted
  <2>2. InRing' = InRing /\ Contents'
    BY <1>1, <2>1, RingSame DEF Accounted
  <2>3. credit' = Size - InRing
    BY <2>1 DEF InRing
  <2>4. CreditOK'
    BY <1>3, <2>2, <2>3 DEF CreditOK
  <2> QED BY <1>1, <2>1, <2>2, <2>4 DEF Accounted
<1>7. CASE Flush_Tail
  BY <1>1, <1>7 DEF Flush_Tail, Goto, Accounted, CreditOK
<1>8. CASE Flush_Head
  <2>1. /\ UNCHANGED <<data, tail, count, got, credit>> /\ tail = 0 /\ head' = 0
        /\ gone' = count /\ pc' = "idle"
    BY <1>1, <1>8 DEF Flush_Head, Goto, Accounted
  <2>2. InRing' = 0
    BY <2>1, CountIs DEF InRing
  <2>3. Contents'
    <3> SUFFICES ASSUME NEW i \in Slots, i # 0, Count(0, i) <= 0 PROVE FALSE
      BY <2>1, <2>2 DEF Contents, Count
    <3>1. Count(0, i) \in Slots /\ Count(0, i) # 0
      BY CountIs
    <3> QED BY <3>1
  <2>4. Larger(got', gone') = count' - InRing' /\ CreditOK'
    BY <1>2, <2>1, <2>2 DEF Larger, CreditOK
  <2> QED BY <1>2, <2>1, <2>3, <2>4 DEF Accounted
<1>9. CASE Cancel_Store
  <2>1. /\ UNCHANGED <<head, tail, got, credit>> /\ data'[head] = count + 1
        /\ count' = count + 1 /\ gone' = count /\ pc = "idle" /\ pc' = "cancel"
    BY <1>1, <1>9 DEF Cancel_Store, Goto, TypeOK
  <2>2. InRing' = InRing
    BY <2>1 DEF InRing, Count
  <2> QED BY <1>2, <2>1, <2>2 DEF InputInv, Accounted, CreditOK
<1>10. CASE Cancel_Tail
  <2>1. /\ UNCHANGED <<data, head, count, got, gone, credit>> /\ tail' = head
        /\ pc = "cancel" /\ pc' = "cancelled"
    BY <1>10 DEF Cancel_Tail, Goto
  <2>2. InRing' = 0
    BY <1>2, <2>1, CountIs DEF InRing
  <2>3. CreditOK'
    BY <1>2, <2>1, <2>2 DEF CreditOK
  <2> QED BY <1>1, <2>1, <2>3 DEF Accounted
<1>11. CASE Cancel_Head
  <2>1. /\ UNCHANGED <<data, tail, count, got, gone, credit>> /\ head' = Next_(head)
        /\ pc = "cancelled" /\ pc' = "idle"
    BY <1>11 DEF Cancel_Head, Goto
  <2>2. tail = head /\ data[head] = count /\ got < count /\ gone = count - 1
    BY <1>1, <2>1 DEF Accounted
  <2>3. InRing' = 1 /\ Contents'
    BY <1>1, <2>1, <2>2, OneLeft
  <2>4. Larger(got', gone') = count' - InRing' /\ CreditOK'
    BY <1>2, <2>1, <2>2, <2>3 DEF Larger, CreditOK
  <2> QED BY <1>2, <2>1, <2>3, <2>4 DEF Accounted
<1> QED BY <1>4, <1>5, <1>6, <1>7, <1>8, <1>9, <1>10, <1>11 DEF Foreground

\* The invariant is inductive, reads are in order and nothing with room is dropped.
LEMMA InputStep ==
    ASSUME NoRace
    PROVE  InputInv /\ [Next]_vars =>
              /\ InputInv'
              /\ got' # got => got' = Larger(got, gone) + 1
              /\ margin >= 2 /\ overflow' # overflow => pc = "flush"
<1> SUFFICES ASSUME InputInv, [Next]_vars
             PROVE  /\ InputInv'
                    /\ got' # got => got' = Larger(got, gone) + 1
                    /\ margin >= 2 /\ overflow' # overflow => pc = "flush"
  OBVIOUS
<1>1. TypeOK'
  BY InputTypes
<1>2. CASE \E n \in 1..MaxPacket : BufferInput(n)
  <2>1. PICK n \in 1..MaxPacket : BufferInput(n)
    BY <1>2
  <2>2. got' = got
    BY <2>1 DEF BufferInput
  <2> QED BY <1>1, <2>1, <2>2, PacketStep DEF InputInv
<1>3. CASE CommandCancels
  <2>1. got' = got /\ overflow' = overflow
    BY <1>3 DEF CommandCancels
  <2> QED BY <1>1, <1>3, <2>1, CommandStep DEF InputInv
<1>4. CASE GetC_Read
  <2>1. overflow' = overflow
    BY <1>4 DEF GetC_Read, ring
  <2> QED BY <1>1, <1>4, <2>1, ReadStep DEF InputInv
<1>5. CASE Foreground /\ ~GetC_Read
  <2>1. got' = got /\ overflow' = overflow
    BY <1>5 DEF Foreground, ring, GetC_Store, Free_Tail, Free_Head, Flush_Tail, Flush_Head, Cancel_Store,
       Cancel_Tail, Cancel_Head
  <2> QED BY <1>1, <1>5, <2>1, ForegroundStep DEF InputInv
<1>6. CASE UNCHANGED vars
  <2>1. got' = got /\ overflow' = overflow /\ UNCHANGED <<ring, pc, reg, count, gone, credit>>
    BY <1>6 DEF vars, ring
  <2>2. Accounted' /\ CreditOK'
    BY <2>1 DEF ring, InputInv, Accounted, CreditOK, InRing, Contents
  <2> QED BY <1>1, <2>1, <2>2 DEF InputInv
<1> QED BY <1>2, <1>3, <1>4, <1>5, <1>6 DEF Next

\* For rings and packets of any size, with packets between the two stores of a
\* flush admitted: usbGetC returns the stored characters in their order, none
\* twice, none left out and none after it was flushed or cancelled.
THEOREM ReadsAreInOrder == ASSUME NoRace PROVE Spec => ReadsInOrder
<1>1. InputInv /\ [Next]_vars => [got' # got => got' = Larger(got, gone) + 1]_vars
  BY InputStep
<1>2. InputInv /\ [Next]_vars => InputInv'
  BY InputStep
<1> QED BY <1>1, <1>2, InputInit, PTL DEF Spec, ReadsInOrder

\* Under the same conditions a sender that leaves two characters of the room
\* reported to it free has nothing dropped but in the middle of a flush.
THEOREM RoomSuffices == ASSUME NoRace PROVE Spec => RoomIsThere
<1>1. InputInv /\ [Next]_vars => [margin >= 2 /\ overflow' # overflow => pc = "flush"]_vars
  BY InputStep
<1>2. InputInv /\ [Next]_vars => InputInv'
  BY InputStep
<1> QED BY <1>1, <1>2, InputInit, PTL DEF Spec, RoomIsThere
=============================================================================
