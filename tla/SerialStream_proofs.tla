------------------------ MODULE SerialStream_proofs ------------------------
(***************************************************************************)
(* Theorems about SerialStream for rings of any size.                      *)
(***************************************************************************)
EXTENDS SerialStream, SequenceTheorems, TLAPS

-----------------------------------------------------------------------------
(* The ring arithmetic.                                                     *)

\* A successor is a slot, and is not the slot itself.
LEMMA NextIsSlot ==
    ASSUME NEW n \in Nat \ {0, 1}, NEW i \in 0..n-1
    PROVE  BufNext(i, n) \in 0..n-1 /\ BufNext(i, n) # i
BY DEF BufNext

\* A ring of n slots holds 0 to n - 1 characters, and none when head = tail.
LEMMA CountRange ==
    ASSUME NEW n \in Nat \ {0, 1}, NEW h \in 0..n-1, NEW t \in 0..n-1
    PROVE  /\ BufCount(h, t, n) \in 0..n-1
           /\ BufCount(h, t, n) = 0 <=> h = t
BY DEF BufCount

\* Taking the oldest character leaves one less.
LEMMA CountNextTail ==
    ASSUME NEW n \in Nat \ {0, 1}, NEW h \in 0..n-1, NEW t \in 0..n-1, h # t
    PROVE  BufCount(h, BufNext(t, n), n) = BufCount(h, t, n) - 1
BY DEF BufCount, BufNext

\* Adding a character makes one more, unless the ring is full.
LEMMA CountNextHead ==
    ASSUME NEW n \in Nat \ {0, 1}, NEW h \in 0..n-1, NEW t \in 0..n-1, BufNext(h, n) # t
    PROVE  BufCount(BufNext(h, n), t, n) = BufCount(h, t, n) + 1
BY DEF BufCount, BufNext

-----------------------------------------------------------------------------
(* Type correctness, which needs no discipline of the callers.              *)

TxPtrLabels == {"put_full", "put_head"}
RxPtrLabels == {"get_test", "get_data", "get_store", "rxflush_store", "rxfree_head",
                "cancel_data", "cancel_tail", "cancel_head", "baud_rx_store"}

\* A copy of a ring pointer is a slot of that ring.
PtrOK ==
    /\ pc \in TxPtrLabels => ptr \in 0..TxSize-1
    /\ pc \in RxPtrLabels => ptr \in 0..RxSize-1

USE SizesAssumption DEF SizesAssumption

\* The initial state is well typed.
LEMMA TypeInit == Init => TypeOK /\ PtrOK
<1> SUFFICES ASSUME Init PROVE TypeOK /\ PtrOK
  OBVIOUS
<1>1. rxOverflow \in BOOLEAN /\ claimed \in BOOLEAN /\ txTaken \in BOOLEAN
  BY Zenon DEF Init
<1>2. txData \in [0..TxSize-1 -> Nat] /\ rxData \in [0..RxSize-1 -> Nat]
  BY DEF Init
<1> QED BY <1>1, <1>2 DEF Init, TypeOK, PtrOK, Bits, NoChar, Kinds, TxPtrLabels, RxPtrLabels

\* Every step keeps the types and the range of the copied ring pointers.
LEMMA TypeStep == TypeOK /\ PtrOK /\ [Next]_vars => TypeOK' /\ PtrOK'
<1> SUFFICES ASSUME TypeOK, PtrOK, [Next]_vars PROVE TypeOK' /\ PtrOK'
  OBVIOUS
<1> USE DEF TypeOK, PtrOK, Bits, Enable, NoChar, Kinds, TxPtrLabels, RxPtrLabels,
            uart, txRing, rxRing, port, local, txHist, rxHist
<1>load. ASSUME NEW from, NEW to, to \notin TxPtrLabels \union RxPtrLabels, LoadCR1(from, to)
         PROVE  TypeOK' /\ PtrOK'
  BY <1>load DEF LoadCR1, Goto
<1>store. ASSUME NEW from, NEW to, NEW bits, to \notin TxPtrLabels \union RxPtrLabels,
                 bits \subseteq Bits, StoreCR1(from, to, bits)
          PROVE  TypeOK' /\ PtrOK'
  BY <1>store DEF StoreCR1, Goto
<1>ptr. ASSUME NEW from, NEW to, NEW p \in 0..RxSize-1, to \notin TxPtrLabels, LoadPtr(from, to, p)
        PROVE  TypeOK' /\ PtrOK'
  BY <1>ptr DEF LoadPtr, Goto
<1>count. ASSUME NEW from, NEW to, NEW p \in 0..TxSize-1, to \notin TxPtrLabels \union RxPtrLabels,
                 LoadPtr(from, to, p)
          PROVE  TypeOK' /\ PtrOK'
  BY <1>count DEF LoadPtr, Goto
<1>in. ASSUME NEW from, NEW to, ptr \in 0..RxSize-1, to \notin TxPtrLabels \union RxPtrLabels,
              DropInput(from, to)
       PROVE  TypeOK' /\ PtrOK'
  <2>1. BufCount(rxHead, ptr, RxSize) \in Nat
    BY <1>in, CountRange
  <2>2. rxTail' = ptr /\ ptr' = 0 /\ rxCut' \in Int /\ pc' = to
    BY <1>in, <2>1 DEF DropInput, Goto
  <2> QED BY <1>in, <2>2 DEF DropInput
<1>out. ASSUME NEW from, NEW to, to \notin TxPtrLabels \union RxPtrLabels, DropOutput(from, to)
        PROVE  TypeOK' /\ PtrOK'
  BY <1>out DEF DropOutput, Goto
<1>1. CASE Call
  <2>1. CASE PutC_Begin
    BY <2>1, NextIsSlot, SMTT(30) DEF PutC_Begin
  <2>2. CASE TxFlush_Load
    BY <2>2, <1>load DEF TxFlush_Load
  <2>3. CASE TxCount_Tail
    BY <2>3, <1>count DEF TxCount_Tail
  <2>4. CASE GetC_Tail \/ RxFlush_Head \/ RxFree_Tail \/ RxCancel_Begin
    BY <2>4, <1>ptr DEF GetC_Tail, RxFlush_Head, RxFree_Tail, RxCancel_Begin
  <2>5. CASE SetBaudRate_Begin \/ SetFormat_Begin \/ Disable_Begin
    BY <2>5, <1>load DEF SetBaudRate_Begin, SetFormat_Begin, Disable_Begin
  <2>6. CASE \E h \in {"protocol", "buffer"} : SetRtHandler(h)
    BY <2>6 DEF SetRtHandler
  <2>7. CASE Claim \/ Release
    BY <2>7, ZenonT(60) DEF Claim, Release, Goto
  <2> QED BY <1>1, <2>1, <2>2, <2>3, <2>4, <2>5, <2>6, <2>7 DEF Call
<1>2. CASE Continue
  <2>1. CASE PutC_Data
    BY <2>1 DEF PutC_Data, Goto
  <2>2. CASE PutC_Head
    <3>1. txTaken' \in BOOLEAN
      BY <2>2, Zenon DEF PutC_Head
    <3> QED BY <2>2, <3>1 DEF PutC_Head, Goto
  <2>3. CASE PutC_Load
    BY <2>3, <1>load DEF PutC_Load
  <2>4. CASE PutC_Arm
    BY <2>4, <1>store DEF PutC_Arm
  <2>5. CASE TxFlush
    BY <2>5, <1>store, <1>out DEF TxFlush, TxFlush_Mask, TxFlush_Tail
  <2>6. CASE TxCount_TC \/ RxFree_Head
    <3>1. 0 \in 0..RxSize-1
      OBVIOUS
    <3> QED BY <2>6, <3>1, <1>ptr DEF TxCount_TC, RxFree_Head
  <2>7. CASE GetC_Test
    BY <2>7 DEF GetC_Test
  <2>8. CASE GetC_Data
    BY <2>8 DEF GetC_Data, Goto
  <2>9. CASE GetC_Store
    BY <2>9, NextIsSlot DEF GetC_Store, Goto
  <2>10. CASE RxFlush_Store
    <3>1. DropInput("rxflush_store", "idle") /\ ptr \in 0..RxSize-1
      BY <2>10 DEF RxFlush_Store, DropInput, Goto
    <3> QED BY <3>1, <1>in
  <2>11. CASE RxCancel_Data
    BY <2>11 DEF RxCancel_Data, Goto
  <2>12. CASE RxCancel_Load \/ RxCancel_Next
    BY <2>12, <1>ptr DEF RxCancel_Load, RxCancel_Next
  <2>13. CASE RxCancel_Tail
    <3>1. DropInput("cancel_tail", "cancel_next") /\ ptr \in 0..RxSize-1
      BY <2>13 DEF RxCancel_Tail, DropInput, Goto
    <3> QED BY <3>1, <1>in
  <2>14. CASE RxCancel_Head
    BY <2>14, NextIsSlot DEF RxCancel_Head, Goto
  <2>15. CASE SetBaudRate
    <3>1. CASE DropInput("baud_rx_store", "baud_tx")
      <4>1. ptr \in 0..RxSize-1
        BY <3>1 DEF DropInput, Goto
      <4> QED BY <3>1, <4>1, <1>in
    <3> QED BY <2>15, <3>1, <1>load, <1>store, <1>ptr, <1>out DEF SetBaudRate
  <2>16. CASE SetFormat
    BY <2>16, <1>load, <1>store DEF SetFormat
  <2>17. CASE Disable
    BY <2>17, <1>store DEF Disable
  <2> QED BY <1>2, <2>1, <2>2, <2>3, <2>4, <2>5, <2>6, <2>7, <2>8, <2>9, <2>10, <2>11, <2>12,
             <2>13, <2>14, <2>15, <2>16, <2>17 DEF Continue, PutC, GetC, RxCancel
<1>3. CASE PutC_Abort
  BY <1>3 DEF PutC_Abort, Goto
<1>4. CASE UART0_IRQHandler
  <2>1. rxOverflow' \in BOOLEAN
    <3>1. rxOverflow' = rxOverflow \/ rxOverflow' = TRUE
      BY <1>4, Zenon DEF UART0_IRQHandler, Receive, NoCharacter, CommandOnly, CancelInput,
         RingFull, StoreInput, rxRing
    <3> QED BY <3>1, Zenon
  <2>2. /\ rxHead' \in 0..RxSize-1 /\ rxTail' \in 0..RxSize-1 /\ rxData' \in [0..RxSize-1 -> Nat]
        /\ rxAcc' \in Nat /\ rxRead' \in Nat /\ rxCut' \in Int
    <3>1. Receive
      BY <1>4 DEF UART0_IRQHandler
    <3>2. BufNext(rxHead, RxSize) \in 0..RxSize-1
      BY NextIsSlot
    <3>3. CASE NoCharacter \/ CommandOnly \/ RingFull
      BY <3>3 DEF NoCharacter, CommandOnly, RingFull
    <3>4. CASE CancelInput
      BY <3>2, <3>4 DEF CancelInput
    <3>5. CASE StoreInput
      BY <3>2, <3>5 DEF StoreInput
    <3> QED BY <3>1, <3>3, <3>4, <3>5 DEF Receive
  <2>3. txTaken' \in BOOLEAN
    <3>1. txTaken' = txTaken \/ txTaken' = (pc \in PutWindow)
      BY <1>4, Zenon DEF UART0_IRQHandler, SendNext, SendNothing
    <3>2. (pc \in PutWindow) \in BOOLEAN
      BY SMT
    <3> QED BY <3>1, <3>2, Zenon
  <2>4. /\ cr1' \subseteq Bits /\ tdr' \in Nat \union {NoChar} /\ sent' \in Nat
        /\ txTail' \in 0..TxSize-1
    <3>1. SendNext \/ SendNothing
      BY <1>4 DEF UART0_IRQHandler
    <3>2. BufNext(txTail, TxSize) \in 0..TxSize-1
      BY NextIsSlot
    <3>3. CASE SendNext
      <4>1. /\ tdr' = txData[txTail] /\ sent' = txData[txTail]
            /\ txTail' = BufNext(txTail, TxSize)
            /\ cr1' = cr1 \/ cr1' = cr1 \ {"TXEIE"}
        BY <3>3, Zenon DEF SendNext
      <4> QED BY <3>2, <4>1
    <3>4. CASE SendNothing
      BY <3>4 DEF SendNothing
    <3> QED BY <3>1, <3>3, <3>4
  <2>5. UNCHANGED <<tsr, txHead, txData, port, local, acc, txCut>> /\ rdr' = "none"
    BY <1>4 DEF UART0_IRQHandler
  <2> QED BY <2>1, <2>2, <2>3, <2>4, <2>5
<1>5. CASE ShiftOut
  BY <1>5 DEF ShiftOut
<1>6. CASE \E kind \in Kinds : ShiftIn(kind)
  BY <1>6 DEF ShiftIn
<1>7. CASE UNCHANGED vars
  BY <1>7 DEF vars
<1> QED BY <1>1, <1>2, <1>3, <1>4, <1>5, <1>6, <1>7 DEF Next

\* Every variable keeps its type, whatever the callers do: in particular the
\* handler and the foreground index the two rings within their bounds.
THEOREM TypeCorrect == Spec => [](TypeOK /\ PtrOK)
<1>1. Init => TypeOK /\ PtrOK
  BY TypeInit
<1>2. (TypeOK /\ PtrOK) /\ [Next]_vars => (TypeOK /\ PtrOK)'
  BY TypeStep
<1> QED BY <1>1, <1>2, PTL DEF Spec

-----------------------------------------------------------------------------
(* The output side.  It is sound as long as no second transmit interrupt    *)
(* falls into the window of serialPutC and CR1 is not rewritten while the   *)
(* transmit interrupt is enabled.                                           *)

ConfigLabels == {"baud_off", "baud_load", "baud_on", "baud_rx", "baud_rx_store", "baud_tx",
                 "format_off", "format_parity", "format_set", "format_load", "format_on",
                 "disable_store", "enable_store"}

\* Slot s, going back from the head, holds one of the characters in the ring.
TxOccupied(s) == s # txHead /\ BufCount(txHead, s, TxSize) <= TxCount

\* The characters in the ring are the last ones accepted, in order.
TxContents ==
    \A s \in 0..TxSize-1 :
        TxOccupied(s) => txData[s] = acc + 1 - BufCount(txHead, s, TxSize)

\* Where the foreground is tells what the ring and the enable bit can be.
PutOK ==
    /\ pc \in TxPtrLabels => ptr = BufNext(txHead, TxSize)
    /\ pc = "put_head" => txTail # ptr /\ txData[txHead] = acc + 1
    /\ pc \in PutWindow =>
        /\ txHead # txTail
        /\ ("TXEIE" \in cr1 /\ ~txTaken) => TxCount >= 2

ConfigOK ==
    /\ pc \in ConfigLabels => "TXEIE" \notin cr1 /\ "TXEIE" \notin reg
    /\ pc = "txflush_tail" => "TXEIE" \notin cr1

TxInv ==
    /\ NoStaleTransmit /\ TxAccounted /\ NoStrandedOutput
    /\ sent <= acc /\ txCut <= acc
    /\ TxContents /\ PutOK /\ ConfigOK

\* A step that leaves alone everything the output depends on.
LEMMA TxSame ==
    ASSUME TxInv, UNCHANGED <<cr1, txRing, pc, reg, ptr, txHist>>
    PROVE  TxInv'
BY DEF TxInv, NoStaleTransmit, TxAccounted, NoStrandedOutput, TxContents, TxOccupied, PutOK,
       ConfigOK, TxCount, TxGone, txRing, txHist

\* A step of another call than serialPutC and serialTxFlush, that stores to CR1
\* at most bits without TXEIE while TXEIE is off.
LEMMA TxQuiet ==
    ASSUME TxInv, UNCHANGED <<txRing, txHist>>,
           cr1' = cr1 \/ ("TXEIE" \notin cr1 /\ "TXEIE" \notin cr1'),
           pc \notin PutWindow \union {"txflush_tail"},
           pc' \notin TxPtrLabels \union PutWindow \union {"txflush_tail"},
           pc' \in ConfigLabels => "TXEIE" \notin cr1' /\ "TXEIE" \notin reg'
    PROVE  TxInv'
<1>1. TxAccounted' /\ TxContents' /\ sent' <= acc' /\ txCut' <= acc'
  BY DEF TxInv, TxAccounted, TxContents, TxOccupied, TxCount, TxGone, txRing, txHist
<1>2. PutOK' /\ ConfigOK'
  BY DEF PutOK, ConfigOK, TxPtrLabels
<1>3. NoStaleTransmit' /\ NoStrandedOutput'
  BY DEF TxInv, NoStaleTransmit, NoStrandedOutput, PutWindow, txRing
<1> QED BY <1>1, <1>2, <1>3 DEF TxInv

\* Emptying the ring with the transmit interrupt off.
LEMMA TxDrop ==
    ASSUME TypeOK, TxInv, NEW from, NEW to, DropOutput(from, to), "TXEIE" \notin cr1,
           to = "idle"
    PROVE  TxInv'
<1>1. /\ txTail' = txHead /\ txHead' = txHead /\ txData' = txData /\ cr1' = cr1
      /\ txCut' = acc /\ acc' = acc /\ sent' = sent /\ pc' = "idle"
  BY DEF DropOutput, Goto, uart
<1>2. TxCount' = 0 /\ TxGone' = acc
  BY <1>1 DEF TxInv, TypeOK, TxCount, BufCount, TxGone
<1>3. TxContents'
  BY <1>1, <1>2 DEF TxContents, TxOccupied, TypeOK, BufCount
<1> QED BY <1>1, <1>2, <1>3 DEF TxInv, TypeOK, NoStaleTransmit, TxAccounted, NoStrandedOutput, PutOK,
           ConfigOK, TxPtrLabels, PutWindow, ConfigLabels

\* The handler sends: the ring holds a character, and the oldest is next in line.
LEMMA TxSend ==
    ASSUME TypeOK, TxInv, UART0_IRQHandler, SendNext, "long_window" \notin Races
    PROVE  TxInv' /\ sent' = TxGone + 1
<1>1. /\ sent' = txData[txTail] /\ txTail' = BufNext(txTail, TxSize)
      /\ "TXEIE" \in cr1 /\ txHead # txTail
  BY DEF SendNext, TxReady, TxInv, NoStaleTransmit
<1>2. /\ txHead' = txHead /\ txData' = txData /\ acc' = acc /\ txCut' = txCut
      /\ pc' = pc /\ reg' = reg /\ ptr' = ptr
  BY DEF UART0_IRQHandler, local
<1>3. "TXEIE" \in cr1' <=> BufNext(txTail, TxSize) # txHead
  BY <1>1 DEF SendNext
<1>4. sent' = TxGone + 1 /\ TxCount >= 1 /\ TxCount' = TxCount - 1
  <2>1. TxCount \in 1..TxSize-1
    BY <1>1 DEF TypeOK, TxCount, BufCount
  <2>2. txData[txTail] = acc + 1 - TxCount
    BY <1>1, <2>1 DEF TxInv, TypeOK, TxContents, TxOccupied, TxCount
  <2>3. TxCount' = TxCount - 1
    BY <1>1, <1>2, CountNextTail DEF TypeOK, TxCount
  <2> QED BY <1>1, <2>1, <2>2, <2>3 DEF TxInv, TypeOK, TxAccounted, TxGone
<1>5. TxGone' = TxGone + 1 /\ TxAccounted' /\ sent' <= acc' /\ txCut' <= acc'
  BY <1>2, <1>4, CountRange DEF TxInv, TypeOK, TxAccounted, TxGone
<1>6. TxContents'
  <2> SUFFICES ASSUME NEW s \in 0..TxSize-1, TxOccupied(s)'
               PROVE  txData[s] = acc + 1 - BufCount(txHead, s, TxSize)
    BY <1>2 DEF TxContents
  <2>1. BufCount(txHead, s, TxSize) \in Nat /\ TxCount \in Nat
    BY CountRange DEF TypeOK, TxCount
  <2>2. TxOccupied(s)
    BY <1>2, <1>4, <2>1 DEF TxOccupied
  <2> QED BY <2>2 DEF TxInv, TxContents
<1>7. NoStaleTransmit' /\ NoStrandedOutput'
  BY <1>1, <1>2, <1>3 DEF NoStaleTransmit, NoStrandedOutput
<1>8. ConfigOK'
  BY <1>1, <1>2, <1>3 DEF TxInv, ConfigOK
<1>9. PutOK'
  <2>1. pc = "put_head" => txTail' # ptr
    BY <1>1 DEF TxInv, PutOK, TypeOK, TxPtrLabels, BufNext
  <2>2. CASE pc \in PutWindow
    <3>1. txTaken' /\ ~txTaken
      BY <2>2 DEF SendNext, UART0_IRQHandler, Preempts
    <3>2. TxCount >= 2
      BY <1>1, <2>2, <3>1 DEF TxInv, PutOK
    <3>3. txHead' # txTail'
      <4>1. TxCount' >= 1
        <5>1. TxCount \in Nat
          BY CountRange DEF TypeOK, TxCount
        <5> QED BY <1>4, <3>2, <5>1
      <4> QED BY <1>2, <4>1 DEF TypeOK, TxCount, BufCount
    <3> QED BY <1>2, <2>2, <3>1, <3>3 DEF PutOK, TxPtrLabels, PutWindow
  <2>3. CASE pc \notin PutWindow
    BY <1>2, <2>1, <2>3 DEF TxInv, PutOK, TxPtrLabels
  <2> QED BY <2>2, <2>3
<1> QED BY <1>2, <1>4, <1>5, <1>6, <1>7, <1>8, <1>9 DEF TxInv

\* serialPutC publishes its character.
LEMMA TxPublish ==
    ASSUME TypeOK, TxInv, PutC_Head
    PROVE  TxInv'
<1>1. /\ pc = "put_head" /\ pc' = "put_load" /\ ptr = BufNext(txHead, TxSize)
      /\ txTail # ptr /\ txData[txHead] = acc + 1
  BY DEF PutC_Head, Goto, TxInv, PutOK, TxPtrLabels
<1>2. /\ txHead' = BufNext(txHead, TxSize) /\ txTail' = txTail /\ txData' = txData
      /\ acc' = acc + 1 /\ sent' = sent /\ txCut' = txCut
      /\ cr1' = cr1 /\ reg' = reg
  BY <1>1 DEF PutC_Head, uart
<1>3. TxCount \in Nat /\ TxCount' = TxCount + 1
  BY <1>1, <1>2 DEF TypeOK, TxCount, BufCount, BufNext
<1>4. txHead' # txTail'
  BY <1>1, <1>2
<1>5. TxAccounted' /\ sent' <= acc' /\ txCut' <= acc'
  BY <1>2, <1>3 DEF TxInv, TypeOK, TxAccounted, TxGone
<1>6. TxContents'
  <2> SUFFICES ASSUME NEW s \in 0..TxSize-1, TxOccupied(s)'
               PROVE  txData[s] = acc' + 1 - BufCount(txHead', s, TxSize)
    BY <1>2 DEF TxContents
  <2>1. s # txHead' /\ BufCount(txHead', s, TxSize) <= TxCount + 1
    BY <1>3 DEF TxOccupied
  <2>2. CASE s = txHead
    BY <1>1, <1>2, <2>2 DEF TypeOK, BufCount, BufNext
  <2>3. CASE s # txHead
    <3>1. BufCount(txHead', s, TxSize) = BufCount(txHead, s, TxSize) + 1
      BY <1>2, <2>1, <2>3 DEF TypeOK, BufCount, BufNext
    <3>2. BufCount(txHead, s, TxSize) \in Nat
      BY CountRange DEF TypeOK
    <3>3. TxOccupied(s)
      BY <1>3, <2>1, <2>3, <3>1, <3>2 DEF TxOccupied
    <3>4. txData[s] = acc + 1 - BufCount(txHead, s, TxSize)
      BY <3>3 DEF TxInv, TxContents
    <3>5. acc' = acc + 1 /\ acc \in Nat
      BY <1>2 DEF TypeOK
    <3>6. acc' + 1 - BufCount(txHead', s, TxSize) = acc + 1 - BufCount(txHead, s, TxSize)
      BY <3>1, <3>2, <3>5
    <3> QED BY <3>4, <3>6
  <2> QED BY <2>2, <2>3
<1>7. PutOK'
  <2>1. "TXEIE" \in cr1 => TxCount' >= 2
    BY <1>3 DEF TxInv, NoStaleTransmit, TypeOK, TxCount, BufCount
  <2> QED BY <1>1, <1>2, <1>4, <2>1 DEF PutOK, TxPtrLabels
<1>8. NoStaleTransmit' /\ NoStrandedOutput' /\ ConfigOK'
  BY <1>1, <1>4 DEF NoStaleTransmit, NoStrandedOutput, ConfigOK, ConfigLabels
<1> QED BY <1>5, <1>6, <1>7, <1>8 DEF TxInv

\* The other steps of serialPutC, and those of serialTxFlush.
LEMMA TxPut ==
    ASSUME TypeOK, TxInv,
           PutC_Begin \/ PutC_Abort \/ PutC_Data \/ PutC_Load \/ PutC_Arm \/ TxFlush_Load \/ TxFlush
    PROVE  TxInv'
<1> USE DEF TxPtrLabels, PutWindow, ConfigLabels, Goto
<1>1. CASE PutC_Begin
  <2>1. UNCHANGED <<cr1, reg, txRing, txHist>> /\ pc = "idle" /\ pc' = "put_full" /\ ptr' = BufNext(txHead, TxSize)
    BY <1>1 DEF PutC_Begin, Idle, uart
  <2> QED BY <2>1 DEF TxInv, NoStaleTransmit, TxAccounted, NoStrandedOutput, TxContents, TxOccupied,
             PutOK, ConfigOK, TxCount, TxGone, txRing, txHist
<1>2. CASE PutC_Abort
  BY <1>2, TxQuiet DEF PutC_Abort, uart
<1>3. CASE PutC_Data
  <2>1. /\ UNCHANGED <<cr1, reg, txHead, txTail, ptr, txHist>> /\ pc = "put_full" /\ pc' = "put_head"
        /\ txTail # ptr /\ txData' = [txData EXCEPT ![txHead] = acc + 1]
    BY <1>3 DEF PutC_Data, uart
  <2>2. TxContents'
    BY <2>1 DEF TxInv, TypeOK, TxContents, TxOccupied, TxCount, txHist
  <2>3. PutOK' /\ ConfigOK'
    BY <2>1 DEF TxInv, TypeOK, PutOK, ConfigOK, txHist
  <2> QED BY <2>1, <2>2, <2>3 DEF TxInv, NoStaleTransmit, TxAccounted, NoStrandedOutput, TxCount, TxGone, txHist
<1>4. CASE PutC_Load
  <2>1. UNCHANGED <<cr1, txRing, txHist>> /\ pc = "put_load" /\ pc' = "put_store"
    BY <1>4 DEF PutC_Load, LoadCR1, uart
  <2> QED BY <2>1 DEF TxInv, NoStaleTransmit, TxAccounted, NoStrandedOutput, TxContents, TxOccupied,
             PutOK, ConfigOK, TxCount, TxGone, txRing, txHist
<1>5. CASE PutC_Arm
  <2>1. UNCHANGED <<txRing, txHist>> /\ pc = "put_store" /\ pc' = "idle" /\ "TXEIE" \in cr1'
    BY <1>5 DEF PutC_Arm, StoreCR1
  <2> QED BY <2>1 DEF TxInv, NoStaleTransmit, TxAccounted, NoStrandedOutput, TxContents, TxOccupied,
             PutOK, ConfigOK, TxCount, TxGone, txRing, txHist
<1>6. CASE TxFlush_Load
  BY <1>6, TxQuiet DEF TxFlush_Load, LoadCR1, Idle, uart
<1>7. CASE TxFlush_Mask
  <2>1. /\ UNCHANGED <<txRing, txHist>> /\ pc = "txflush_store" /\ pc' = "txflush_tail"
        /\ "TXEIE" \notin cr1'
    BY <1>7 DEF TxFlush_Mask, StoreCR1
  <2> QED BY <2>1 DEF TxInv, NoStaleTransmit, TxAccounted, NoStrandedOutput, TxContents, TxOccupied,
             PutOK, ConfigOK, TxCount, TxGone, txRing, txHist
<1>8. CASE TxFlush_Tail
  BY <1>8, TxDrop DEF TxFlush_Tail, DropOutput, TxInv, ConfigOK
<1> QED BY <1>1, <1>2, <1>3, <1>4, <1>5, <1>6, <1>7, <1>8 DEF TxFlush

\* The handler, and the line.
LEMMA TxInterrupt ==
    ASSUME TypeOK, TxInv, UART0_IRQHandler, "long_window" \notin Races
    PROVE  TxInv' /\ (sent' # sent => sent' = TxGone + 1)
<1>1. CASE SendNext
  BY <1>1, TxSend
<1>2. CASE SendNothing
  <2>1. UNCHANGED <<cr1, txRing, pc, reg, ptr, txHist>>
    BY <1>2 DEF UART0_IRQHandler, SendNothing, txRing, local, txHist
  <2> QED BY <2>1, TxSame DEF txHist
<1> QED BY <1>1, <1>2 DEF UART0_IRQHandler

\* Starting and finishing a call that rewrites CR1.
LEMMA TxConfigure ==
    ASSUME TypeOK, TxInv, "reconfig_busy" \notin Races,
           \/ SetBaudRate_Begin \/ SetFormat_Begin \/ Disable_Begin \/ Claim
           \/ SetBaudRate \/ SetFormat \/ Disable
    PROVE  TxInv'
<1> USE DEF TxPtrLabels, PutWindow, ConfigLabels, Goto
<1>load. ASSUME NEW from, NEW to, LoadCR1(from, to), "TXEIE" \notin cr1,
                from \notin PutWindow \union {"txflush_tail"}, to \in ConfigLabels
         PROVE  TxInv'
  BY <1>load, TxQuiet DEF LoadCR1, uart
<1>store. ASSUME NEW from, NEW to, NEW bits, StoreCR1(from, to, bits),
                 from \in ConfigLabels, to \in ConfigLabels \union {"idle"}, "TXEIE" \notin bits
          PROVE  TxInv'
  <2>1. "TXEIE" \notin cr1 /\ "TXEIE" \notin cr1' /\ "TXEIE" \notin reg'
    BY <1>store DEF StoreCR1, TxInv, ConfigOK
  <2> QED BY <1>store, <2>1, TxQuiet DEF StoreCR1
<1>1. CASE SetBaudRate_Begin \/ SetFormat_Begin \/ Disable_Begin
  <2>1. "TXEIE" \notin cr1
    BY <1>1 DEF SetBaudRate_Begin, SetFormat_Begin, Disable_Begin, MayReconfigure
  <2> QED BY <1>1, <1>load, <2>1 DEF SetBaudRate_Begin, SetFormat_Begin, Disable_Begin
<1>2. CASE Claim
  BY <1>2, TxQuiet DEF Claim, MayReconfigure, uart
<1>3. ASSUME pc \in ConfigLabels
      PROVE  "TXEIE" \notin cr1 /\ "TXEIE" \notin reg
  BY <1>3 DEF TxInv, ConfigOK
<1>4. CASE SetBaudRate
  <2>1. CASE StoreCR1("baud_off", "baud_load", reg \ Enable)
    BY <1>3, <1>store, <2>1 DEF StoreCR1
  <2>2. CASE LoadCR1("baud_load", "baud_on")
    BY <1>3, <1>load, <2>2 DEF LoadCR1
  <2>3. CASE StoreCR1("baud_on", "baud_rx", reg \union Enable)
    BY <1>3, <1>store, <2>3 DEF StoreCR1, Enable
  <2>4. CASE LoadPtr("baud_rx", "baud_rx_store", rxHead)
    BY <1>3, <2>4, TxQuiet DEF LoadPtr, uart
  <2>5. CASE DropInput("baud_rx_store", "baud_tx")
    BY <1>3, <2>5, TxQuiet DEF DropInput, uart
  <2>6. CASE DropOutput("baud_tx", "idle")
    BY <1>3, <2>6, TxDrop DEF DropOutput
  <2> QED BY <1>4, <2>1, <2>2, <2>3, <2>4, <2>5, <2>6 DEF SetBaudRate
<1>5. CASE SetFormat
  <2>1. CASE \E to \in {"format_parity", "format_load"} : StoreCR1("format_off", to, reg \ {"UE"})
    BY <1>3, <1>store, <2>1 DEF StoreCR1
  <2>4. CASE LoadCR1("format_parity", "format_set")
    BY <1>3, <1>load, <2>4 DEF LoadCR1
  <2>5. CASE StoreCR1("format_set", "format_load", reg)
    BY <1>3, <1>store, <2>5 DEF StoreCR1
  <2>2. CASE LoadCR1("format_load", "format_on")
    BY <1>3, <1>load, <2>2 DEF LoadCR1
  <2>3. CASE StoreCR1("format_on", "idle", reg \union {"UE"})
    BY <1>3, <1>store, <2>3 DEF StoreCR1
  <2> QED BY <1>5, <2>1, <2>2, <2>3, <2>4, <2>5 DEF SetFormat
<1>6. CASE Disable
  <2>1. CASE StoreCR1("disable_store", "idle", reg \ {"RXNEIE"})
    BY <1>3, <1>store, <2>1 DEF StoreCR1
  <2>2. CASE StoreCR1("enable_store", "idle", reg \union {"RXNEIE"})
    BY <1>3, <1>store, <2>2 DEF StoreCR1
  <2> QED BY <1>6, <2>1, <2>2 DEF Disable
<1> QED BY <1>1, <1>2, <1>4, <1>5, <1>6

\* The calls that concern the input, and counting.
LEMMA TxOther ==
    ASSUME TypeOK, TxInv,
           \/ TxCount_Tail \/ TxCount_TC \/ GetC_Tail \/ GetC \/ RxFlush_Head \/ RxFlush_Store
           \/ RxFree_Tail \/ RxFree_Head \/ RxCancel_Begin \/ RxCancel
           \/ Release \/ (\E h \in {"protocol", "buffer"} : SetRtHandler(h))
           \/ ShiftOut \/ (\E kind \in Kinds : ShiftIn(kind))
    PROVE  TxInv'
<1> USE DEF TxPtrLabels, PutWindow, ConfigLabels, Goto, Idle, uart
<1>ptr. ASSUME NEW from, NEW to, NEW p, LoadPtr(from, to, p),
               from \notin PutWindow \union {"txflush_tail"},
               to \notin TxPtrLabels \union PutWindow \union {"txflush_tail"} \union ConfigLabels
        PROVE  TxInv'
  BY <1>ptr, TxQuiet DEF LoadPtr
<1>1. CASE TxCount_Tail \/ TxCount_TC \/ GetC_Tail \/ RxFlush_Head \/ RxFree_Tail \/ RxFree_Head \/ RxCancel_Begin
  BY <1>1, <1>ptr DEF TxCount_Tail, TxCount_TC, GetC_Tail, RxFlush_Head, RxFree_Tail, RxFree_Head, RxCancel_Begin
<1>2. CASE GetC_Test
  BY <1>2, TxQuiet DEF GetC_Test
<1>3. CASE GetC_Data \/ GetC_Store
  BY <1>3, TxQuiet DEF GetC_Data, GetC_Store
<1>4. CASE RxFlush_Store
  BY <1>4, TxQuiet DEF RxFlush_Store, DropInput
<1>5. CASE RxCancel
  <2>1. CASE RxCancel_Data \/ RxCancel_Head
    BY <2>1, TxQuiet DEF RxCancel_Data, RxCancel_Head
  <2>2. CASE RxCancel_Load \/ RxCancel_Next
    BY <2>2, <1>ptr DEF RxCancel_Load, RxCancel_Next
  <2>3. CASE RxCancel_Tail
    BY <2>3, TxQuiet DEF RxCancel_Tail, DropInput
  <2> QED BY <1>5, <2>1, <2>2, <2>3 DEF RxCancel
<1>6. CASE Release \/ (\E h \in {"protocol", "buffer"} : SetRtHandler(h))
  BY <1>6, TxSame DEF Release, SetRtHandler, local
<1>7. CASE ShiftOut \/ (\E kind \in Kinds : ShiftIn(kind))
  BY <1>7, TxSame DEF ShiftOut, ShiftIn, local
<1> QED BY <1>1, <1>2, <1>3, <1>4, <1>5, <1>6, <1>7 DEF GetC

\* The invariant is inductive, and its steps write to TDR in order.
LEMMA TxStep ==
    ASSUME "long_window" \notin Races, "reconfig_busy" \notin Races
    PROVE  TypeOK /\ TxInv /\ [Next]_vars => TxInv' /\ (sent' # sent => sent' = TxGone + 1)
<1> SUFFICES ASSUME TypeOK, TxInv, [Next]_vars
             PROVE  TxInv' /\ (sent' # sent => sent' = TxGone + 1)
  OBVIOUS
<1>1. CASE UART0_IRQHandler
  BY <1>1, TxInterrupt
<1>2. CASE ~UART0_IRQHandler
  <2>1. sent' = sent
    <3> USE DEF txHist, LoadCR1, StoreCR1, LoadPtr, DropInput, DropOutput
    <3>1. CASE Call
      BY <3>1 DEF Call, PutC_Begin, TxFlush_Load, TxCount_Tail, GetC_Tail, RxFlush_Head, RxFree_Tail,
         RxCancel_Begin, SetBaudRate_Begin, SetFormat_Begin, Disable_Begin, SetRtHandler, Claim, Release
    <3>2. CASE PutC \/ TxFlush \/ TxCount_TC \/ PutC_Abort
      BY <3>2 DEF PutC, PutC_Data, PutC_Head, PutC_Load, PutC_Arm, PutC_Abort,
         TxFlush, TxFlush_Mask, TxFlush_Tail, TxCount_TC
    <3>3. CASE GetC \/ RxFlush_Store \/ RxFree_Head \/ RxCancel
      BY <3>3 DEF GetC, GetC_Test, GetC_Data, GetC_Store, RxFlush_Store, RxFree_Head, RxCancel,
         RxCancel_Data, RxCancel_Load, RxCancel_Tail, RxCancel_Next, RxCancel_Head
    <3>4. CASE SetBaudRate \/ SetFormat \/ Disable
      BY <3>4 DEF SetBaudRate, SetFormat, Disable
    <3>5. CASE ShiftOut \/ (\E kind \in Kinds : ShiftIn(kind)) \/ UNCHANGED vars
      BY <3>5 DEF ShiftOut, ShiftIn, vars
    <3> QED BY <1>2, <3>1, <3>2, <3>3, <3>4, <3>5 DEF Next, Continue
  <2>2. TxInv'
    BY <1>2, TxPublish, TxPut, TxConfigure, TxOther, TxSame
       DEF Next, Call, Continue, PutC, vars, uart, local
  <2> QED BY <2>1, <2>2
<1> QED BY <1>1, <1>2

\* The output invariant holds at reset.
LEMMA TxInit == Init => TxInv
<1> SUFFICES ASSUME Init PROVE TxInv
  OBVIOUS
<1>1. TxCount = 0 /\ TxGone = 0
  BY DEF Init, TxCount, BufCount, TxGone
<1>2. TxContents
  BY <1>1 DEF Init, TxContents, TxOccupied, BufCount
<1> QED BY <1>1, <1>2 DEF Init, TxInv, NoStaleTransmit, TxAccounted, NoStrandedOutput, PutOK, ConfigOK,
           TxPtrLabels, PutWindow, ConfigLabels

\* With the two races of the output side excluded, and whatever happens on the
\* input side: the transmit interrupt is never enabled on an empty ring, no
\* accepted character is lost, duplicated or left stranded.
THEOREM OutputSafe ==
    ASSUME "long_window" \notin Races, "reconfig_busy" \notin Races
    PROVE  Spec => []OutputSound
<1>1. Init => TypeOK /\ PtrOK /\ TxInv
  BY TypeInit, TxInit
<1>2. (TypeOK /\ PtrOK /\ TxInv) /\ [Next]_vars => (TypeOK /\ PtrOK /\ TxInv)'
  BY TypeStep, TxStep
<1>3. TypeOK /\ PtrOK /\ TxInv => OutputSound
  BY DEF TxInv, OutputSound
<1> QED BY <1>1, <1>2, <1>3, PTL DEF Spec

\* Under the same condition the UART is given the characters in the order in
\* which serialPutC accepted them.
THEOREM OutputInOrder ==
    ASSUME "long_window" \notin Races, "reconfig_busy" \notin Races
    PROVE  Spec => TxInOrder
<1>1. Init => TypeOK /\ PtrOK /\ TxInv
  BY TypeInit, TxInit
<1>2. (TypeOK /\ PtrOK /\ TxInv) /\ [Next]_vars => (TypeOK /\ PtrOK /\ TxInv)'
  BY TypeStep, TxStep
<1>3. (TypeOK /\ PtrOK /\ TxInv) /\ [Next]_vars => [sent' # sent => sent' = TxGone + 1]_vars
  BY TxStep
<1> QED BY <1>1, <1>2, <1>3, PTL DEF Spec, TxInOrder

-----------------------------------------------------------------------------
(* The input side.  It is sound as long as no real time command cancels the *)
(* input while the foreground holds a copy of a receive pointer, and no     *)
(* character comes in while the foreground cancels the input.               *)

\* The characters in the ring are the last ones accepted, in order.
RxContents ==
    \A s \in 0..RxSize-1 : Occupied(s) => rxData[s] = rxAcc + 1 - BufCount(rxHead, s, RxSize)

\* The copy of the tail is the tail, and the ring is not empty once tested.
ReadOK ==
    /\ pc \in {"get_test", "get_data", "get_store"} => ptr = rxTail
    /\ pc \in {"get_data", "get_store"} => rxHead # rxTail
    /\ pc = "get_store" => val = rxData[rxTail]

\* The copy of the head is no newer than the head, and no older than the tail.
FlushOK ==
    pc \in {"rxflush_store", "baud_rx_store"} => BufCount(rxHead, ptr, RxSize) <= RxCount

\* Nothing moves while the input is being cancelled.
CancelOK ==
    /\ pc \in {"cancel_data", "cancel_tail", "cancel_head"} => ptr = rxHead
    /\ pc \in CancelWindow \ {"cancel_data"} => rxData[rxHead] = rxAcc + 1
    /\ pc \in {"cancel_next", "cancel_head"} => rxHead = rxTail

RxInv ==
    /\ RxCount = rxAcc - RxGone
    /\ rxRead <= rxAcc /\ rxCut <= rxAcc
    /\ RxContents /\ ReadOK /\ FlushOK /\ CancelOK

\* When the ring takes one more, so does every part of it that ends at the head.
LEMMA CountOlder ==
    ASSUME NEW n \in Nat \ {0, 1}, NEW h \in 0..n-1, NEW t \in 0..n-1, NEW s \in 0..n-1,
           BufNext(h, n) # t, BufCount(h, s, n) <= BufCount(h, t, n)
    PROVE  BufCount(BufNext(h, n), s, n) = BufCount(h, s, n) + 1
BY DEF BufCount, BufNext

\* A step that leaves alone everything the input depends on.
LEMMA RxSame ==
    ASSUME RxInv, UNCHANGED <<rxHead, rxTail, rxData, pc, ptr, val, rxHist>>
    PROVE  RxInv'
BY DEF RxInv, RxContents, Occupied, ReadOK, FlushOK, CancelOK, RxCount, RxGone, rxHist

\* A step that leaves the ring alone and ends where no copy of a pointer is held.
LEMMA RxQuiet ==
    ASSUME RxInv, UNCHANGED <<rxHead, rxTail, rxData, rxHist>>,
           pc' \notin ReadWindow \union CancelWindow
    PROVE  RxInv'
<1>1. ReadOK' /\ FlushOK' /\ CancelOK'
  BY DEF ReadOK, FlushOK, CancelOK, ReadWindow, CancelWindow
<1> QED BY <1>1 DEF RxInv, RxContents, Occupied, RxCount, RxGone, rxHist

\* Some character of the ring, the tail's, and how many there are.
LEMMA RxOldest ==
    ASSUME TypeOK, RxInv
    PROVE  /\ RxCount \in 0..RxSize-1 /\ RxCount = rxAcc - RxGone
           /\ RxGone \in Int /\ rxAcc \in Nat /\ rxRead \in Nat /\ rxCut \in Int
           /\ rxRead <= RxGone /\ rxCut <= RxGone
           /\ RxCount = 0 <=> rxHead = rxTail
           /\ rxHead # rxTail => rxData[rxTail] = RxGone + 1
<1>1. RxCount \in 0..RxSize-1 /\ (RxCount = 0 <=> rxHead = rxTail)
  BY CountRange DEF TypeOK, RxCount
<1>2. RxGone \in Int /\ rxRead <= RxGone /\ rxCut <= RxGone
  BY DEF TypeOK, RxGone
<1>3. ASSUME rxHead # rxTail PROVE rxData[rxTail] = RxGone + 1
  <2>1. Occupied(rxTail)
    BY <1>1, <1>3 DEF Occupied, RxCount
  <2>2. rxData[rxTail] = rxAcc + 1 - RxCount
    BY <2>1 DEF TypeOK, RxInv, RxContents, RxCount
  <2> QED BY <1>1, <1>2, <2>2 DEF TypeOK, RxInv
<1>4. RxCount = rxAcc - RxGone /\ rxAcc \in Nat /\ rxRead \in Nat /\ rxCut \in Int
  BY DEF TypeOK, RxInv
<1> QED BY <1>1, <1>2, <1>3, <1>4

\* What a step may do to the pipe, told by its three numbers: nothing, take one
\* character more, hand out the oldest, drop some, or drop all and take one.
PipeMove(before, gone, last, after, goneAfter, lastAfter, room) ==
    \/ after = before /\ goneAfter = gone /\ lastAfter = last
    \/ after = before + 1 /\ goneAfter = gone /\ lastAfter = last /\ before - gone < room
    \/ after = before /\ goneAfter = gone + 1 /\ lastAfter = gone + 1 /\ gone < before
    \/ after = before /\ goneAfter >= gone /\ goneAfter <= before /\ lastAfter = last
    \/ after = before + 1 /\ goneAfter = before /\ lastAfter = last

RxMove == PipeMove(rxAcc, RxGone, rxRead, rxAcc', RxGone', rxRead', RxSize - 1)

\* serialGetC.
LEMMA RxGet ==
    ASSUME TypeOK, RxInv, GetC_Tail \/ GetC
    PROVE  RxInv' /\ RxMove
<1> USE DEF Goto, ReadWindow, CancelWindow
<1>1. CASE GetC_Tail
  <2>1. UNCHANGED <<rxHead, rxTail, rxData, rxHist>> /\ pc' = "get_test" /\ ptr' = rxTail
    BY <1>1 DEF GetC_Tail, LoadPtr, rxRing
  <2>2. ReadOK' /\ FlushOK' /\ CancelOK'
    BY <2>1 DEF ReadOK, FlushOK, CancelOK
  <2> QED BY <2>1, <2>2 DEF RxInv, RxContents, Occupied, RxCount, RxGone, rxHist, RxMove, PipeMove
<1>2. CASE GetC_Test
  <2>1. UNCHANGED <<rxHead, rxTail, rxData, rxHist>>
    BY <1>2 DEF GetC_Test, rxRing
  <2>2. pc = "get_test" /\ ptr = rxTail
    BY <1>2 DEF GetC_Test, RxInv, ReadOK
  <2>3. pc' = "idle" \/ (pc' = "get_data" /\ ptr' = ptr /\ ptr # rxHead)
    BY <1>2 DEF GetC_Test
  <2>4. ReadOK' /\ FlushOK' /\ CancelOK'
    BY <2>1, <2>2, <2>3 DEF ReadOK, FlushOK, CancelOK
  <2> QED BY <2>1, <2>4 DEF RxInv, RxContents, Occupied, RxCount, RxGone, rxHist, RxMove, PipeMove
<1>3. CASE GetC_Data
  <2>1. /\ UNCHANGED <<rxHead, rxTail, rxData, rxHist>> /\ pc = "get_data" /\ pc' = "get_store"
        /\ ptr' = ptr /\ val' = rxData[ptr]
    BY <1>3 DEF GetC_Data, rxRing
  <2>2. ReadOK' /\ FlushOK' /\ CancelOK'
    BY <2>1 DEF RxInv, ReadOK, FlushOK, CancelOK
  <2> QED BY <2>1, <2>2 DEF RxInv, RxContents, Occupied, RxCount, RxGone, rxHist, RxMove, PipeMove
<1>4. CASE GetC_Store
  <2>1. /\ UNCHANGED <<rxHead, rxData, rxAcc, rxCut>> /\ pc = "get_store" /\ pc' = "idle"
        /\ rxTail' = BufNext(ptr, RxSize) /\ rxRead' = val
    BY <1>4 DEF GetC_Store
  <2>2. ptr = rxTail /\ rxHead # rxTail /\ val = rxData[rxTail]
    BY <2>1 DEF RxInv, ReadOK
  <2>3. rxRead' = RxGone + 1
    BY <2>1, <2>2, RxOldest
  <2>4. RxCount' = RxCount - 1 /\ RxCount \in 1..RxSize-1
    <3>1. RxCount' = RxCount - 1
      BY <2>1, <2>2, CountNextTail DEF TypeOK, RxCount
    <3> QED BY <2>2, <3>1, RxOldest
  <2>5. RxGone' = RxGone + 1
    BY <2>1, <2>3, RxOldest DEF TypeOK, RxGone
  <2>6. RxContents'
    <3> SUFFICES ASSUME NEW s \in 0..RxSize-1, Occupied(s)'
                 PROVE  rxData[s] = rxAcc + 1 - BufCount(rxHead, s, RxSize)
      BY <2>1 DEF RxContents
    <3>1. BufCount(rxHead, s, RxSize) \in Nat
      BY CountRange DEF TypeOK
    <3>2. Occupied(s)
      BY <2>1, <2>4, <3>1 DEF Occupied
    <3> QED BY <3>2 DEF RxInv, RxContents
  <2>7. ReadOK' /\ FlushOK' /\ CancelOK'
    BY <2>1 DEF ReadOK, FlushOK, CancelOK
  <2>8. RxCount' = rxAcc' - RxGone' /\ rxRead' <= rxAcc' /\ rxCut' <= rxAcc'
    BY <2>1, <2>3, <2>4, <2>5, RxOldest
  <2>9. RxMove
    <3>1. RxGone < rxAcc
      BY <2>4, RxOldest
    <3> QED BY <2>1, <2>3, <2>5, <3>1 DEF RxMove, PipeMove
  <2> QED BY <2>6, <2>7, <2>8, <2>9 DEF RxInv
<1> QED BY <1>1, <1>2, <1>3, <1>4 DEF GetC

\* Moving the tail to a copy of the head drops what is older than the copy.
LEMMA RxDrop ==
    ASSUME TypeOK, RxInv, NEW from, NEW to, DropInput(from, to), ptr \in 0..RxSize-1,
           \/ from \in {"rxflush_store", "baud_rx_store"} /\ to \notin ReadWindow \union CancelWindow
           \/ from = "cancel_tail" /\ to = "cancel_next"
    PROVE  RxInv' /\ RxMove
<1> DEFINE left == BufCount(rxHead, ptr, RxSize)
<1>1. /\ UNCHANGED <<rxHead, rxData, rxAcc, rxRead>> /\ pc = from /\ pc' = to
      /\ rxTail' = ptr /\ rxCut' = rxAcc - left
  BY DEF DropInput, Goto
<1>2. left \in 0..RxCount
  <2>1. left \in Nat
    BY CountRange DEF TypeOK
  <2>2. CASE from = "cancel_tail"
    <3>1. left = 0
      BY <1>1, <2>2, CountRange DEF RxInv, CancelOK, TypeOK
    <3> QED BY <3>1, RxOldest
  <2>3. CASE from # "cancel_tail"
    <3>1. left <= RxCount
      BY <1>1, <2>3 DEF RxInv, FlushOK
    <3> QED BY <2>1, <3>1, RxOldest
  <2> QED BY <2>2, <2>3
<1>3. RxCount' = left
  BY <1>1 DEF RxCount
<1>4. RxGone' = rxAcc - left /\ RxGone' >= RxGone /\ RxGone' <= rxAcc
  <2>1. rxAcc - left >= RxGone /\ rxAcc - left <= rxAcc
    BY <1>2, RxOldest
  <2>2. rxAcc - left >= rxRead
    BY <1>2, <2>1, RxOldest
  <2> QED BY <1>1, <2>1, <2>2, RxOldest DEF RxGone
<1>5. RxContents'
  <2> SUFFICES ASSUME NEW s \in 0..RxSize-1, Occupied(s)'
               PROVE  rxData[s] = rxAcc + 1 - BufCount(rxHead, s, RxSize)
    BY <1>1 DEF RxContents
  <2>1. BufCount(rxHead, s, RxSize) \in Nat /\ RxCount \in Nat
    BY CountRange DEF TypeOK, RxCount
  <2>2. Occupied(s)
    BY <1>1, <1>2, <1>3, <2>1 DEF Occupied
  <2> QED BY <2>2 DEF RxInv, RxContents
<1>6. ReadOK' /\ FlushOK'
  BY <1>1 DEF ReadOK, FlushOK, ReadWindow, CancelWindow
<1>7. CancelOK'
  BY <1>1 DEF RxInv, CancelOK, ReadWindow, CancelWindow
<1>8. RxCount' = rxAcc' - RxGone' /\ rxRead' <= rxAcc' /\ rxCut' <= rxAcc'
  BY <1>1, <1>2, <1>3, <1>4, RxOldest
<1>9. RxMove
  BY <1>1, <1>4 DEF RxMove, PipeMove
<1> QED BY <1>5, <1>6, <1>7, <1>8, <1>9 DEF RxInv

\* The copies of the head that a flush or a change of the baud rate begins with.
LEMMA RxCopyHead ==
    ASSUME TypeOK, RxInv, NEW from, LoadPtr(from, "rxflush_store", rxHead)
                                    \/ LoadPtr(from, "baud_rx_store", rxHead)
    PROVE  RxInv' /\ RxMove
<1>1. /\ UNCHANGED <<rxHead, rxTail, rxData, rxHist>> /\ ptr' = rxHead
      /\ pc' \in {"rxflush_store", "baud_rx_store"}
  BY DEF LoadPtr, rxRing, Goto
<1>2. BufCount(rxHead, rxHead, RxSize) = 0 /\ RxCount >= 0
  BY RxOldest DEF TypeOK, BufCount
<1>3. ReadOK' /\ FlushOK' /\ CancelOK'
  BY <1>1, <1>2 DEF ReadOK, FlushOK, CancelOK, CancelWindow, RxCount
<1> QED BY <1>1, <1>3 DEF RxInv, RxContents, Occupied, RxCount, RxGone, rxHist, RxMove, PipeMove

\* serialRxCancel up to its last step leaves the characters in the ring alone.
LEMMA RxCancelBegins ==
    ASSUME TypeOK, RxInv, RxCancel_Begin \/ RxCancel_Data \/ RxCancel_Load \/ RxCancel_Next
    PROVE  RxInv' /\ RxMove
<1> USE DEF Goto
<1>1. CASE RxCancel_Begin \/ RxCancel_Load \/ RxCancel_Next
  <2>1. /\ UNCHANGED <<rxHead, rxTail, rxData, rxHist>> /\ ptr' = rxHead
        /\ \/ pc' = "cancel_data"
           \/ pc = "cancel_load" /\ pc' = "cancel_tail"
           \/ pc = "cancel_next" /\ pc' = "cancel_head"
    BY <1>1 DEF RxCancel_Begin, RxCancel_Load, RxCancel_Next, LoadPtr, rxRing
  <2>2. ReadOK' /\ FlushOK' /\ CancelOK'
    BY <2>1 DEF RxInv, ReadOK, FlushOK, CancelOK, CancelWindow, rxHist
  <2> QED BY <2>1, <2>2 DEF RxInv, RxContents, Occupied, RxCount, RxGone, rxHist, RxMove, PipeMove
<1>2. CASE RxCancel_Data
  <2>1. /\ UNCHANGED <<rxHead, rxTail, rxHist>> /\ pc = "cancel_data" /\ pc' = "cancel_load"
        /\ ptr = rxHead /\ rxData' = [rxData EXCEPT ![rxHead] = rxAcc + 1]
    BY <1>2 DEF RxCancel_Data, RxInv, CancelOK
  <2>2. RxContents'
    BY <2>1 DEF RxInv, TypeOK, RxContents, Occupied, RxCount, rxHist
  <2>3. CancelOK'
    BY <2>1 DEF TypeOK, CancelOK, CancelWindow, rxHist
  <2>4. ReadOK' /\ FlushOK'
    BY <2>1 DEF ReadOK, FlushOK
  <2> QED BY <2>1, <2>2, <2>3, <2>4 DEF RxInv, RxCount, RxGone, rxHist, RxMove, PipeMove
<1> QED BY <1>1, <1>2

\* A character goes into the ring behind the others.
LEMMA RxContentsGrow ==
    ASSUME TypeOK, RxInv, BufNext(rxHead, RxSize) # rxTail,
           rxHead' = BufNext(rxHead, RxSize), rxTail' = rxTail, rxAcc' = rxAcc + 1,
           rxData' = [rxData EXCEPT ![rxHead] = rxAcc + 1]
    PROVE  RxContents' /\ RxCount' = RxCount + 1
<1>1. RxCount' = RxCount + 1
  BY CountNextHead DEF TypeOK, RxCount
<1>2. RxContents'
  <2> SUFFICES ASSUME NEW s \in 0..RxSize-1, Occupied(s)'
               PROVE  rxData'[s] = rxAcc' + 1 - BufCount(rxHead', s, RxSize)
    BY DEF RxContents
  <2>1. s # rxHead' /\ BufCount(rxHead', s, RxSize) <= RxCount + 1
    BY <1>1 DEF Occupied
  <2>2. CASE s = rxHead
    <3>1. BufCount(rxHead', s, RxSize) = 1
      BY <2>2 DEF TypeOK, BufCount, BufNext
    <3> QED BY <2>2, <3>1 DEF TypeOK
  <2>3. CASE s # rxHead
    <3>1. BufCount(rxHead', s, RxSize) = BufCount(rxHead, s, RxSize) + 1
      BY <2>1, <2>3 DEF TypeOK, BufCount, BufNext
    <3>2. BufCount(rxHead, s, RxSize) \in Nat
      BY CountRange DEF TypeOK
    <3>3. Occupied(s)
      BY <2>1, <2>3, <3>1, <3>2, RxOldest DEF Occupied
    <3>4. rxData[s] = rxAcc + 1 - BufCount(rxHead, s, RxSize)
      BY <3>3 DEF RxInv, RxContents
    <3>5. rxData'[s] = rxData[s]
      BY <2>3 DEF TypeOK
    <3> QED BY <3>1, <3>2, <3>4, <3>5, RxOldest
  <2> QED BY <2>2, <2>3
<1> QED BY <1>1, <1>2

\* A ring that holds the one character just accepted.
LEMMA RxOneLeft ==
    ASSUME TypeOK, RxInv, rxTail' = rxHead, rxHead' = BufNext(rxHead, RxSize),
           rxAcc' = rxAcc + 1, rxRead' = rxRead, rxData'[rxHead] = rxAcc + 1,
           rxCut' = rxAcc \/ (rxCut' = rxCut /\ rxHead = rxTail),
           pc' \notin ReadWindow \union CancelWindow
    PROVE  RxInv' /\ RxMove
<1>1. RxCount' = 1
  BY DEF TypeOK, RxCount, BufCount, BufNext
<1>2. RxGone' = rxAcc
  <2>1. rxCut' = rxAcc \/ RxGone = rxAcc
    BY RxOldest
  <2> QED BY <2>1, RxOldest DEF RxGone
<1>3. RxContents'
  <2> SUFFICES ASSUME NEW s \in 0..RxSize-1, Occupied(s)'
               PROVE  rxData'[s] = rxAcc' + 1 - BufCount(rxHead', s, RxSize)
    BY DEF RxContents
  <2>1. s # rxHead' /\ BufCount(rxHead', s, RxSize) <= 1
    BY <1>1 DEF Occupied
  <2>2. s = rxHead /\ BufCount(rxHead', s, RxSize) = 1
    BY <2>1 DEF TypeOK, BufCount, BufNext
  <2> QED BY <2>2, RxOldest
<1>4. ReadOK' /\ FlushOK' /\ CancelOK'
  BY DEF ReadOK, FlushOK, CancelOK, ReadWindow, CancelWindow
<1>5. rxRead' <= rxAcc' /\ rxCut' <= rxAcc' /\ RxCount' = rxAcc' - RxGone'
  BY <1>1, <1>2, RxOldest
<1>6. RxMove
  BY <1>2 DEF RxMove, PipeMove
<1> QED BY <1>3, <1>4, <1>5, <1>6 DEF RxInv

\* serialRxCancel is over: the ring holds its character alone.
LEMMA RxCancelEnds ==
    ASSUME TypeOK, RxInv, RxCancel_Head
    PROVE  RxInv' /\ RxMove
<1>1. /\ UNCHANGED <<rxTail, rxData, rxRead, rxCut>> /\ pc = "cancel_head" /\ pc' = "idle"
      /\ rxHead' = BufNext(ptr, RxSize) /\ rxAcc' = rxAcc + 1
  BY DEF RxCancel_Head, Goto
<1>2. ptr = rxHead /\ rxHead = rxTail /\ rxData[rxHead] = rxAcc + 1
  BY <1>1 DEF RxInv, CancelOK, CancelWindow
<1> QED BY <1>1, <1>2, RxOneLeft DEF ReadWindow, CancelWindow

\* The handler, with the two races of the input side excluded.
LEMMA RxInterrupt ==
    ASSUME TypeOK, PtrOK, RxInv, UART0_IRQHandler,
           "cancel_in_read" \notin Races, "receive_in_cancel" \notin Races
    PROVE  RxInv' /\ RxMove
<1>1. pc' = pc /\ ptr' = ptr /\ val' = val
  BY DEF UART0_IRQHandler, local
<1>2. CASE NoCharacter \/ CommandOnly
  <2>1. UNCHANGED <<rxRing, rxHist>>
    BY <1>2 DEF NoCharacter, CommandOnly
  <2>2. RxInv'
    BY <1>1, <2>1, RxSame DEF rxRing
  <2> QED BY <2>1, <2>2 DEF rxHist, RxGone, RxMove, PipeMove
<1>3. CASE CancelInput
  <2>1. /\ rxData' = [rxData EXCEPT ![rxHead] = rxAcc + 1] /\ rxTail' = rxHead
        /\ rxHead' = BufNext(rxHead, RxSize) /\ rxAcc' = rxAcc + 1 /\ rxCut' = rxAcc
        /\ rxRead' = rxRead
    BY <1>3 DEF CancelInput
  <2>2. pc \notin ReadWindow /\ pc \notin CancelWindow
    BY <1>3 DEF CancelInput, Stripped, UART0_IRQHandler, Preempts
  <2> QED BY <1>1, <2>1, <2>2, RxOneLeft DEF TypeOK
<1>4. CASE RingFull
  <2>1. UNCHANGED <<rxHead, rxTail, rxData, rxHist>>
    BY <1>4 DEF RingFull
  <2>2. RxInv'
    BY <1>1, <2>1, RxSame
  <2> QED BY <2>1, <2>2 DEF rxHist, RxGone, RxMove, PipeMove
<1>5. CASE StoreInput
  <2>1. /\ rxData' = [rxData EXCEPT ![rxHead] = rxAcc + 1] /\ rxTail' = rxTail
        /\ rxHead' = BufNext(rxHead, RxSize) /\ rxAcc' = rxAcc + 1
        /\ rxCut' = rxCut /\ rxRead' = rxRead /\ BufNext(rxHead, RxSize) # rxTail
    BY <1>5 DEF StoreInput
  <2>2. pc \notin CancelWindow
    BY <1>5 DEF StoreInput, UART0_IRQHandler, Preempts
  <2>3. RxContents' /\ RxCount' = RxCount + 1
    BY <2>1, RxContentsGrow
  <2>4. RxGone' = RxGone
    BY <2>1 DEF RxGone
  <2>5. ReadOK'
    <3>1. rxHead # rxTail => rxData'[rxTail] = rxData[rxTail]
      BY <2>1 DEF TypeOK
    <3> QED BY <1>1, <2>1, <3>1 DEF RxInv, ReadOK
  <2>6. FlushOK'
    <3> SUFFICES ASSUME pc \in {"rxflush_store", "baud_rx_store"}
                 PROVE  BufCount(rxHead', ptr, RxSize) <= RxCount'
      BY <1>1 DEF FlushOK
    <3>1. ptr \in 0..RxSize-1
      BY DEF PtrOK, RxPtrLabels
    <3>2. BufCount(rxHead, ptr, RxSize) <= RxCount
      BY DEF RxInv, FlushOK
    <3>3. BufCount(rxHead', ptr, RxSize) = BufCount(rxHead, ptr, RxSize) + 1
      BY <2>1, <3>1, <3>2, CountOlder DEF TypeOK, RxCount
    <3>4. BufCount(rxHead, ptr, RxSize) \in Nat
      BY <3>1, CountRange DEF TypeOK
    <3> QED BY <2>3, <3>2, <3>3, <3>4, RxOldest
  <2>7. CancelOK'
    BY <1>1, <2>2 DEF CancelOK, CancelWindow
  <2>8. RxCount' = rxAcc' - RxGone' /\ rxRead' <= rxAcc' /\ rxCut' <= rxAcc'
    BY <2>1, <2>3, <2>4, RxOldest DEF RxInv
  <2>9. RxMove
    <3>1. RxCount' \in 0..RxSize-1
      BY <2>1, CountRange, NextIsSlot DEF TypeOK, RxCount
    <3>2. rxAcc - RxGone < RxSize - 1
      BY <2>3, <3>1, RxOldest
    <3> QED BY <2>1, <2>4, <3>2 DEF RxMove, PipeMove
  <2> QED BY <2>3, <2>5, <2>6, <2>7, <2>8, <2>9 DEF RxInv
<1> QED BY <1>2, <1>3, <1>4, <1>5 DEF UART0_IRQHandler, Receive

\* The calls that concern the output, the configuration and the counts.
LEMMA RxOther ==
    ASSUME RxInv,
           \/ PutC_Begin \/ PutC_Abort \/ PutC \/ TxFlush_Load \/ TxFlush \/ TxCount_Tail \/ TxCount_TC
           \/ RxFree_Tail \/ RxFree_Head \/ SetBaudRate_Begin \/ SetFormat_Begin \/ SetFormat
           \/ Disable_Begin \/ Disable \/ Claim \/ Release
           \/ (\E h \in {"protocol", "buffer"} : SetRtHandler(h))
           \/ ShiftOut \/ (\E kind \in Kinds : ShiftIn(kind)) \/ UNCHANGED vars
    PROVE  RxInv' /\ RxMove
<1> USE DEF Goto
<1>same. ASSUME UNCHANGED <<rxRing, local, rxHist>> PROVE RxInv' /\ RxMove
  BY <1>same, RxSame DEF rxRing, local, rxHist, RxGone, RxMove, PipeMove
<1>quiet. ASSUME UNCHANGED <<rxRing, rxHist>>, pc' \notin ReadWindow \union CancelWindow
          PROVE  RxInv' /\ RxMove
  BY <1>quiet, RxQuiet DEF rxRing, rxHist, RxGone, RxMove, PipeMove
<1>free. ASSUME UNCHANGED <<rxRing, rxHist>>, pc' = "rxfree_head"
         PROVE  RxInv' /\ RxMove
  <2>1. ReadOK' /\ FlushOK' /\ CancelOK'
    BY <1>free DEF ReadOK, FlushOK, CancelOK, CancelWindow
  <2> QED BY <1>free, <2>1 DEF RxInv, RxContents, Occupied, RxCount, RxGone, rxRing, rxHist, RxMove, PipeMove
<1> USE DEF LoadCR1, StoreCR1, LoadPtr
<1>1. CASE PutC_Begin \/ PutC_Abort \/ PutC
  BY <1>1, <1>quiet DEF PutC_Begin, PutC_Abort, PutC, PutC_Data, PutC_Head, PutC_Load, PutC_Arm,
     ReadWindow, CancelWindow
<1>2. CASE TxFlush_Load \/ TxFlush \/ TxCount_Tail \/ TxCount_TC \/ RxFree_Head
  BY <1>2, <1>quiet DEF TxFlush_Load, TxFlush, TxFlush_Mask, TxFlush_Tail, DropOutput, TxCount_Tail,
     TxCount_TC, RxFree_Head, ReadWindow, CancelWindow
<1>3. CASE RxFree_Tail
  BY <1>3, <1>free DEF RxFree_Tail
<1>4. CASE SetBaudRate_Begin \/ SetFormat_Begin \/ SetFormat \/ Disable_Begin \/ Disable
  BY <1>4, <1>quiet DEF SetBaudRate_Begin, SetFormat_Begin, SetFormat, Disable_Begin, Disable,
     ReadWindow, CancelWindow
<1>5. CASE Claim
  BY <1>5, <1>quiet DEF Claim, ReadWindow, CancelWindow
<1>6. CASE Release \/ (\E h \in {"protocol", "buffer"} : SetRtHandler(h))
  BY <1>6, <1>same DEF Release, SetRtHandler
<1>7. CASE ShiftOut \/ (\E kind \in Kinds : ShiftIn(kind)) \/ UNCHANGED vars
  BY <1>7, <1>same DEF ShiftOut, ShiftIn, vars
<1> QED BY <1>1, <1>2, <1>3, <1>4, <1>5, <1>6, <1>7

\* serialSetBaudRate discards the input with a copy of the head.
LEMMA RxBaudRate ==
    ASSUME TypeOK, PtrOK, RxInv, SetBaudRate
    PROVE  RxInv' /\ RxMove
<1>quiet. ASSUME UNCHANGED <<rxRing, rxHist>>, pc' \notin ReadWindow \union CancelWindow
          PROVE  RxInv' /\ RxMove
  BY <1>quiet, RxQuiet DEF rxRing, rxHist, RxGone, RxMove, PipeMove
<1>1. CASE StoreCR1("baud_off", "baud_load", reg \ Enable) \/ LoadCR1("baud_load", "baud_on")
           \/ StoreCR1("baud_on", "baud_rx", reg \union Enable) \/ DropOutput("baud_tx", "idle")
  BY <1>1, <1>quiet DEF LoadCR1, StoreCR1, DropOutput, Goto, ReadWindow, CancelWindow
<1>2. CASE LoadPtr("baud_rx", "baud_rx_store", rxHead)
  BY <1>2, RxCopyHead
<1>3. CASE DropInput("baud_rx_store", "baud_tx")
  <2>1. ptr \in 0..RxSize-1
    BY <1>3 DEF DropInput, Goto, PtrOK, RxPtrLabels
  <2>2. "baud_tx" \notin ReadWindow \union CancelWindow
    BY DEF ReadWindow, CancelWindow
  <2>3. "baud_rx_store" \in {"rxflush_store", "baud_rx_store"}
    OBVIOUS
  <2> QED BY <1>3, <2>1, <2>2, <2>3, RxDrop, Zenon
<1> QED BY <1>1, <1>2, <1>3 DEF SetBaudRate

\* serialRxFlush.
LEMMA RxFlush ==
    ASSUME TypeOK, PtrOK, RxInv, RxFlush_Head \/ RxFlush_Store \/ RxCancel_Tail
    PROVE  RxInv' /\ RxMove
<1>1. CASE RxFlush_Head
  BY <1>1, RxCopyHead DEF RxFlush_Head
<1>2. CASE RxFlush_Store
  <2>1. ptr \in 0..RxSize-1 /\ DropInput("rxflush_store", "idle")
    BY <1>2 DEF RxFlush_Store, DropInput, Goto, PtrOK, RxPtrLabels
  <2>2. "idle" \notin ReadWindow \union CancelWindow
    BY DEF ReadWindow, CancelWindow
  <2>3. "rxflush_store" \in {"rxflush_store", "baud_rx_store"}
    OBVIOUS
  <2> QED BY <2>1, <2>2, <2>3, RxDrop, Zenon
<1>3. CASE RxCancel_Tail
  <2>1. ptr \in 0..RxSize-1 /\ DropInput("cancel_tail", "cancel_next")
    BY <1>3 DEF RxCancel_Tail, DropInput, Goto, PtrOK, RxPtrLabels
  <2> QED BY <2>1, RxDrop
<1> QED BY <1>1, <1>2, <1>3

\* The invariant is inductive, and every step is a move of the pipe.
LEMMA RxStep ==
    ASSUME "cancel_in_read" \notin Races, "receive_in_cancel" \notin Races
    PROVE  TypeOK /\ PtrOK /\ RxInv /\ [Next]_vars => RxInv' /\ RxMove
<1> SUFFICES ASSUME TypeOK, PtrOK, RxInv, [Next]_vars PROVE RxInv' /\ RxMove
  OBVIOUS
<1>1. CASE Call \/ PutC_Abort
  BY <1>1, RxOther, RxGet, RxFlush, RxCancelBegins DEF Call
<1>2. CASE Continue
  BY <1>2, RxOther, RxGet, RxFlush, RxCancelBegins, RxCancelEnds, RxBaudRate DEF Continue, RxCancel
<1>3. CASE UART0_IRQHandler
  BY <1>3, RxInterrupt
<1>4. CASE ShiftOut \/ (\E kind \in Kinds : ShiftIn(kind)) \/ UNCHANGED vars
  BY <1>4, RxOther
<1> QED BY <1>1, <1>2, <1>3, <1>4 DEF Next

\* The input invariant holds at reset.
LEMMA RxInit == Init => RxInv
<1> SUFFICES ASSUME Init PROVE RxInv
  OBVIOUS
<1>1. RxCount = 0 /\ RxGone = 0
  BY DEF Init, RxCount, BufCount, RxGone
<1>2. RxContents
  BY <1>1 DEF Init, RxContents, Occupied, BufCount
<1> QED BY <1>1, <1>2 DEF Init, RxInv, ReadOK, FlushOK, CancelOK, CancelWindow

\* With the two races of the input side excluded, and whatever happens on the
\* output side: a full ring, a flush, a cancel and a read that the handler
\* preempts between any two accesses lose no accepted character, and nothing
\* that was discarded comes back.
THEOREM InputSafe ==
    ASSUME "cancel_in_read" \notin Races, "receive_in_cancel" \notin Races
    PROVE  Spec => []InputSound
<1>1. Init => TypeOK /\ PtrOK /\ RxInv
  BY TypeInit, RxInit
<1>2. (TypeOK /\ PtrOK /\ RxInv) /\ [Next]_vars => (TypeOK /\ PtrOK /\ RxInv)'
  BY TypeStep, RxStep
<1>3. TypeOK /\ PtrOK /\ RxInv => InputSound
  <2> SUFFICES ASSUME TypeOK, RxInv PROVE InputSound
    OBVIOUS
  <2>1. RxAccounted
    BY DEF RxInv, RxAccounted
  <2>2. ASSUME NEW s \in 0..RxSize-1, Occupied(s) PROVE rxData[s] > rxCut
    <3>1. rxData[s] = rxAcc + 1 - BufCount(rxHead, s, RxSize)
      BY <2>2 DEF RxInv, RxContents
    <3>2. BufCount(rxHead, s, RxSize) <= RxCount /\ BufCount(rxHead, s, RxSize) \in Nat
      BY <2>2, CountRange DEF TypeOK, Occupied
    <3> QED BY <3>1, <3>2, RxOldest
  <2> QED BY <2>1, <2>2 DEF InputSound, DiscardedStaysOut
<1> QED BY <1>1, <1>2, <1>3, PTL DEF Spec

-----------------------------------------------------------------------------
(* Both rings are bounded pipes.  What is in a ring is the numbers from the *)
(* last one gone to the last one accepted, and every step moves these.      *)

\* The characters after the one numbered gone, up to the one numbered last.
Line(gone, last) == [i \in 1..last - gone |-> gone + i]

\* The i-th slot from the tail on, and how far it is from the head.
LEMMA SlotCount ==
    ASSUME NEW n \in Nat \ {0, 1}, NEW h \in 0..n-1, NEW t \in 0..n-1,
           NEW i \in 1..BufCount(h, t, n), NEW s,
           s = IF t + i - 1 < n THEN t + i - 1 ELSE t + i - 1 - n
    PROVE  s \in 0..n-1 /\ s # h /\ BufCount(h, s, n) = BufCount(h, t, n) + 1 - i
BY DEF BufCount

\* A line is a sequence; what the operators of a pipe do to it.
LEMMA LineIsSeq ==
    ASSUME NEW g \in Int, NEW a \in Int, g <= a
    PROVE  /\ Line(g, a) \in Seq(Int) /\ Len(Line(g, a)) = a - g
           /\ \A i \in 1..a - g : Line(g, a)[i] = g + i
<1>1. a - g \in Nat
  OBVIOUS
<1>2. Line(g, a) \in [1..a - g -> Int]
  BY DEF Line
<1> QED BY <1>1, <1>2 DEF Line

\* Nothing after the last one.
LEMMA LineEmpty ==
    ASSUME NEW g \in Int
    PROVE  Line(g, g) = <<>>
BY LineIsSeq DEF Line

\* One character after the last but one.
LEMMA LineOne ==
    ASSUME NEW g \in Int
    PROVE  Line(g, g + 1) = <<g + 1>>
BY LineIsSeq DEF Line

\* One more character at the end.
LEMMA LineAppend ==
    ASSUME NEW g \in Int, NEW a \in Int, g <= a
    PROVE  Line(g, a + 1) = Append(Line(g, a), a + 1)
<1>1. /\ Line(g, a) \in Seq(Int) /\ Len(Line(g, a)) = a - g
      /\ \A i \in 1..a - g : Line(g, a)[i] = g + i
  BY LineIsSeq
<1>2. /\ Line(g, a + 1) \in Seq(Int) /\ Len(Line(g, a + 1)) = a + 1 - g
      /\ \A i \in 1..a + 1 - g : Line(g, a + 1)[i] = g + i
  BY LineIsSeq
<1> QED BY <1>1, <1>2, SMTT(30)

\* One less at the beginning.
LEMMA LineTail ==
    ASSUME NEW g \in Int, NEW a \in Int, g < a
    PROVE  /\ Line(g, a) # <<>> /\ Head(Line(g, a)) = g + 1
           /\ Line(g + 1, a) = Tail(Line(g, a))
<1>1. /\ Line(g, a) \in Seq(Int) /\ Len(Line(g, a)) = a - g
      /\ \A i \in 1..a - g : Line(g, a)[i] = g + i
  BY LineIsSeq
<1>2. /\ Line(g + 1, a) \in Seq(Int) /\ Len(Line(g + 1, a)) = a - (g + 1)
      /\ \A i \in 1..a - (g + 1) : Line(g + 1, a)[i] = g + 1 + i
  BY LineIsSeq
<1>3. Line(g, a) # <<>> /\ Head(Line(g, a)) = g + 1
  BY <1>1
<1>4. /\ Tail(Line(g, a)) \in Seq(Int) /\ Len(Tail(Line(g, a))) = a - (g + 1)
      /\ \A i \in 1..a - (g + 1) : Tail(Line(g, a))[i] = Line(g, a)[i + 1]
  BY <1>1, <1>3, HeadTailProperties
<1>5. ASSUME NEW i \in 1..a - (g + 1)
      PROVE  Line(g + 1, a)[i] = Tail(Line(g, a))[i]
  BY <1>1, <1>2, <1>4
<1> QED BY <1>2, <1>3, <1>4, <1>5, SeqEqual

\* Several less at the beginning.
LEMMA LineDrop ==
    ASSUME NEW g \in Int, NEW a \in Int, NEW n \in Nat, g + n <= a
    PROVE  Line(g + n, a) = SubSeq(Line(g, a), n + 1, Len(Line(g, a)))
<1>1. /\ Line(g, a) \in Seq(Int) /\ Len(Line(g, a)) = a - g
      /\ \A i \in 1..a - g : Line(g, a)[i] = g + i
  BY LineIsSeq
<1>2. /\ Line(g + n, a) \in Seq(Int) /\ Len(Line(g + n, a)) = a - (g + n)
      /\ \A i \in 1..a - (g + n) : Line(g + n, a)[i] = g + n + i
  BY LineIsSeq
<1>3. \A i \in n+1..a-g : Line(g, a)[i] \in Int
  BY <1>1
<1>4. /\ SubSeq(Line(g, a), n + 1, a - g) \in Seq(Int)
      /\ Len(SubSeq(Line(g, a), n + 1, a - g)) = a - (g + n)
      /\ \A i \in 1..a - g - n : SubSeq(Line(g, a), n + 1, a - g)[i] = Line(g, a)[n + i]
  <2>1. a - g - (n + 1) + 1 = a - g - n
    OBVIOUS
  <2> QED BY <1>3, <2>1, SubSeqProperties
<1>5. ASSUME NEW i \in 1..a - (g + n)
      PROVE  Line(g + n, a)[i] = SubSeq(Line(g, a), n + 1, a - g)[i]
  BY <1>1, <1>2, <1>4
<1> QED BY <1>1, <1>2, <1>4, <1>5, SeqEqual

\* A step of CharPipe, or one that leaves the pipe alone.
PipeStep(q, a, l, q2, a2, l2, room) ==
    \/ q2 = q /\ a2 = a /\ l2 = l
    \/ Len(q) < room /\ q2 = Append(q, a + 1) /\ a2 = a + 1 /\ l2 = l
    \/ q # <<>> /\ l2 = Head(q) /\ q2 = Tail(q) /\ a2 = a
    \/ (\E n \in 1..Len(q) : q2 = SubSeq(q, n + 1, Len(q))) /\ a2 = a /\ l2 = l
    \/ q2 = <<a + 1>> /\ a2 = a + 1 /\ l2 = l

\* A move of the three numbers is a step of the pipe, or leaves it alone.
LEMMA LineMove ==
    ASSUME NEW a \in Nat, NEW g \in Int, g <= a, NEW l, NEW a2 \in Nat, NEW g2 \in Int, g2 <= a2, NEW l2,
           NEW room \in Nat, PipeMove(a, g, l, a2, g2, l2, room)
    PROVE  PipeStep(Line(g, a), a, l, Line(g2, a2), a2, l2, room)
<1> USE DEF PipeStep
<1>1. CASE a2 = a /\ g2 = g /\ l2 = l
  BY <1>1
<1>2. CASE a2 = a + 1 /\ g2 = g /\ l2 = l /\ a - g < room
  <2>1. Len(Line(g, a)) = a - g
    BY LineIsSeq
  <2> QED BY <1>2, <2>1, LineAppend
<1>3. CASE a2 = a /\ g2 = g + 1 /\ l2 = g + 1 /\ g < a
  BY <1>3, LineTail
<1>4. CASE a2 = a /\ g2 > g /\ g2 <= a /\ l2 = l
  <2>1. PICK n \in Nat : n = g2 - g
    BY <1>4
  <2>a. n \in 1..a-g /\ g + n = g2
    BY <1>4, <2>1
  <2>2. Line(g + n, a) = SubSeq(Line(g, a), n + 1, Len(Line(g, a)))
    <3>1. g + n <= a
      BY <1>4, <2>a
    <3>2. n \in Nat /\ a \in Int
      BY <2>1
    <3> QED BY <3>1, <3>2, LineDrop, Zenon
  <2>3. Len(Line(g, a)) = a - g
    BY LineIsSeq
  <2>4. n \in 1..Len(Line(g, a))
    BY <2>a, <2>3
  <2>5. Line(g2, a2) = SubSeq(Line(g, a), n + 1, Len(Line(g, a)))
    BY <1>4, <2>a, <2>2
  <2> QED BY <1>4, <2>4, <2>5
<1>5. CASE a2 = a + 1 /\ g2 = a /\ l2 = l
  BY <1>5, LineOne
<1> QED BY <1>1, <1>2, <1>3, <1>4, <1>5, SMTT(30) DEF PipeMove

\* What is in the receive ring, oldest first.
LEMMA RxLine ==
    ASSUME TypeOK, RxInv
    PROVE  Contents(rxData, rxTail, RxCount, RxSize) = Line(RxGone, rxAcc)
<1>1. RxCount = rxAcc - RxGone
  BY RxOldest
<1>2. ASSUME NEW i \in 1..RxCount
      PROVE  rxData[IF rxTail + i - 1 < RxSize THEN rxTail + i - 1 ELSE rxTail + i - 1 - RxSize] = RxGone + i
  <2>1. PICK s : s = IF rxTail + i - 1 < RxSize THEN rxTail + i - 1 ELSE rxTail + i - 1 - RxSize
    OBVIOUS
  <2>2. s \in 0..RxSize-1 /\ s # rxHead /\ BufCount(rxHead, s, RxSize) = RxCount + 1 - i
    BY <2>1, SlotCount, SMTT(30) DEF TypeOK, RxCount
  <2>3. rxData[s] = rxAcc + 1 - (RxCount + 1 - i)
    <3>1. Occupied(s)
      BY <2>2, RxOldest DEF Occupied
    <3> QED BY <2>2, <3>1 DEF RxInv, RxContents
  <2> QED BY <2>1, <2>3, RxOldest
<1> QED BY <1>1, <1>2 DEF Contents, Line

\* What is in the transmit ring, oldest first.
LEMMA TxLine ==
    ASSUME TypeOK, TxInv
    PROVE  /\ Contents(txData, txTail, TxCount, TxSize) = Line(TxGone, acc)
           /\ TxCount = acc - TxGone /\ TxCount \in 0..TxSize-1 /\ TxGone \in Nat
<1>1. TxCount = acc - TxGone /\ TxCount \in 0..TxSize-1 /\ TxGone \in Nat /\ acc \in Nat
  <2>1. TxCount \in 0..TxSize-1
    BY CountRange DEF TypeOK, TxCount
  <2>2. TxGone \in Nat /\ acc \in Nat
    BY DEF TypeOK, TxGone
  <2> QED BY <2>1, <2>2 DEF TxInv, TxAccounted
<1>2. ASSUME NEW i \in 1..TxCount
      PROVE  txData[IF txTail + i - 1 < TxSize THEN txTail + i - 1 ELSE txTail + i - 1 - TxSize] = TxGone + i
  <2>1. PICK s : s = IF txTail + i - 1 < TxSize THEN txTail + i - 1 ELSE txTail + i - 1 - TxSize
    OBVIOUS
  <2>2. s \in 0..TxSize-1 /\ s # txHead /\ BufCount(txHead, s, TxSize) = TxCount + 1 - i
    BY <2>1, SlotCount, SMTT(30) DEF TypeOK, TxCount
  <2>3. txData[s] = acc + 1 - (TxCount + 1 - i)
    <3>1. TxOccupied(s)
      BY <1>1, <2>2 DEF TxOccupied
    <3> QED BY <2>2, <3>1 DEF TxInv, TxContents
  <2> QED BY <1>1, <2>1, <2>3
<1> QED BY <1>1, <1>2 DEF Contents, Line

\* What is in the transmit ring, as a line.
TxIsLine == Contents(txData, txTail, TxCount, TxSize) = Line(TxGone, acc)

\* What a step does to the output pipe.
TxMove == PipeMove(acc, TxGone, sent, acc', TxGone', sent', TxSize - 1)

\* Every step is a move of the output pipe.
LEMMA TxMoves ==
    ASSUME "long_window" \notin Races, "reconfig_busy" \notin Races,
           TypeOK, TxInv, TypeOK', TxInv', [Next]_vars
    PROVE  TxMove
<1>num. /\ TxCount = acc - TxGone /\ TxCount \in 0..TxSize-1 /\ TxGone \in Nat
        /\ acc \in Nat /\ sent \in Nat /\ txCut \in Nat /\ sent <= TxGone /\ txCut <= TxGone
  <2>1. TxCount = acc - TxGone /\ TxCount \in 0..TxSize-1 /\ TxGone \in Nat
    BY TxLine
  <2>2. acc \in Nat /\ sent \in Nat /\ txCut \in Nat
    BY DEF TypeOK
  <2> QED BY <2>1, <2>2 DEF TxGone
<1>num2. /\ TxCount' = acc' - TxGone' /\ TxCount' \in 0..TxSize-1 /\ TxGone' \in Nat
  <2>1. TxCount' \in 0..TxSize-1
    BY CountRange DEF TypeOK, TxCount
  <2>2. TxGone' \in Nat
    BY DEF TypeOK, TxGone
  <2> QED BY <2>1, <2>2 DEF TxInv, TxAccounted
<1>same. ASSUME UNCHANGED <<acc, sent, txCut>> PROVE TxMove
  BY <1>same DEF TxMove, PipeMove, TxGone
<1>drop. ASSUME NEW from, NEW to, DropOutput(from, to) PROVE TxMove
  <2>1. acc' = acc /\ sent' = sent /\ txCut' = acc
    BY <1>drop DEF DropOutput
  <2>2. TxGone' >= TxGone /\ TxGone' <= acc
    BY <1>num, <1>num2, <2>1 DEF TxGone
  <2> QED BY <2>1, <2>2 DEF TxMove, PipeMove
<1>1. CASE UART0_IRQHandler
  <2>1. acc' = acc /\ txCut' = txCut
    BY <1>1 DEF UART0_IRQHandler
  <2>2. sent' # sent => sent' = TxGone + 1
    BY <1>1, TxInterrupt
  <2>3. CASE sent' = sent
    BY <1>same, <2>1, <2>3
  <2>4. CASE sent' # sent
    <3>1. sent' = TxGone + 1 /\ TxGone' = TxGone + 1
      BY <1>num, <2>1, <2>2, <2>4 DEF TxGone
    <3>2. TxGone < acc
      BY <1>num, <1>num2, <2>1, <3>1
    <3> QED BY <2>1, <3>1, <3>2 DEF TxMove, PipeMove
  <2> QED BY <2>3, <2>4
<1>2. CASE PutC_Head
  <2>1. acc' = acc + 1 /\ sent' = sent /\ txCut' = txCut
    BY <1>2 DEF PutC_Head
  <2>2. TxGone' = TxGone
    BY <2>1 DEF TxGone
  <2>3. acc - TxGone < TxSize - 1
    BY <1>num, <1>num2, <2>1, <2>2
  <2> QED BY <2>1, <2>2, <2>3 DEF TxMove, PipeMove
<1> USE DEF txHist, LoadCR1, StoreCR1, LoadPtr, DropInput
<1>3. CASE Call
  BY <1>3, <1>same DEF Call, PutC_Begin, TxFlush_Load, TxCount_Tail, GetC_Tail, RxFlush_Head, RxFree_Tail,
     RxCancel_Begin, SetBaudRate_Begin, SetFormat_Begin, Disable_Begin, SetRtHandler, Claim, Release
<1>4. CASE PutC_Data \/ PutC_Load \/ PutC_Arm \/ TxCount_TC \/ PutC_Abort
  BY <1>4, <1>same DEF PutC_Data, PutC_Load, PutC_Arm, PutC_Abort, TxCount_TC
<1>5. CASE TxFlush
  BY <1>5, <1>same, <1>drop DEF TxFlush, TxFlush_Mask, TxFlush_Tail
<1>6. CASE GetC \/ RxFlush_Store \/ RxFree_Head \/ RxCancel
  BY <1>6, <1>same DEF GetC, GetC_Test, GetC_Data, GetC_Store, RxFlush_Store, RxFree_Head, RxCancel,
     RxCancel_Data, RxCancel_Load, RxCancel_Tail, RxCancel_Next, RxCancel_Head
<1>7. CASE SetBaudRate \/ SetFormat \/ Disable
  BY <1>7, <1>same, <1>drop DEF SetBaudRate, SetFormat, Disable
<1>8. CASE ShiftOut \/ (\E kind \in Kinds : ShiftIn(kind)) \/ UNCHANGED vars
  BY <1>8, <1>same DEF ShiftOut, ShiftIn, vars
<1> QED BY <1>1, <1>2, <1>3, <1>4, <1>5, <1>6, <1>7, <1>8 DEF Next, Continue, PutC

\* With the races of the output side excluded, the transmit ring of any size is
\* a bounded first in, first out pipe from serialPutC to TDR, whatever else the
\* foreground calls and wherever the handler preempts it.
THEOREM OutputIsPipe ==
    ASSUME "long_window" \notin Races, "reconfig_busy" \notin Races
    PROVE  Spec => TxIsPipe
<1> DEFINE Inv == TypeOK /\ PtrOK /\ TxInv
<1>1. Init => Inv
  BY TypeInit, TxInit
<1>2. Inv /\ [Next]_vars => Inv'
  BY TypeStep, TxStep
<1>3. Init => TxPipe!Init
  <2> SUFFICES ASSUME Init PROVE TxPipe!Init
    OBVIOUS
  <2>1. TxGone = 0 /\ acc = 0 /\ sent = 0
    BY DEF Init, TxGone
  <2>2. Contents(txData, txTail, TxCount, TxSize) = <<>>
    BY <1>1, <2>1, TxLine, LineEmpty
  <2> QED BY <2>1, <2>2 DEF TxPipe!Init
<1>4. Inv => TxIsLine
  BY TxLine DEF TxIsLine
<1>5. Inv' => TxIsLine'
  BY <1>4, PTL
<1>6. Inv /\ Inv' /\ [Next]_vars => [TxPipe!Next]_<<Contents(txData, txTail, TxCount, TxSize), acc, sent>>
  <2> SUFFICES ASSUME Inv, Inv', [Next]_vars
               PROVE  [TxPipe!Next]_<<Contents(txData, txTail, TxCount, TxSize), acc, sent>>
    OBVIOUS
  <2> DEFINE q == Contents(txData, txTail, TxCount, TxSize)
  <2>1. q = Line(TxGone, acc)
    BY <1>4 DEF TxIsLine
  <2>2. q' = Line(TxGone', acc')
    BY <1>5 DEF TxIsLine, Line
  <2>3. /\ acc \in Nat /\ TxGone \in Int /\ TxGone <= acc
        /\ acc' \in Nat /\ TxGone' \in Int /\ TxGone' <= acc' /\ TxSize - 1 \in Nat
    BY DEF TypeOK, TxInv, TxGone
  <2>4. TxMove
    BY TxMoves
  <2> HIDE DEF q, Inv
  <2>5. PipeStep(Line(TxGone, acc), acc, sent, Line(TxGone', acc'), acc', sent', TxSize - 1)
    <3>1. PipeMove(acc, TxGone, sent, acc', TxGone', sent', TxSize - 1)
      BY <2>4 DEF TxMove
    <3> QED BY <2>3, <3>1, LineMove, Zenon
  <2>6. PipeStep(q, acc, sent, q', acc', sent', TxSize - 1)
    BY <2>1, <2>2, <2>5
  <2> QED BY <2>6 DEF PipeStep, q, TxPipe!Next, TxPipe!Accept, TxPipe!Deliver, TxPipe!Discard, TxPipe!Replace
<1> QED BY <1>1, <1>2, <1>3, <1>6, PTL DEF Spec, TxIsPipe, TxPipe!Spec

\* What is in the receive ring, as a line.
RxIsLine == Contents(rxData, rxTail, RxCount, RxSize) = Line(RxGone, rxAcc)

\* With the races of the input side excluded, the receive ring of any size is a
\* bounded first in, first out pipe from RDR to serialGetC: a flush and a change
\* of the baud rate discard the oldest characters, a cancel puts one character in
\* the place of all others, and nothing else is lost, repeated or out of order.
THEOREM InputIsPipe ==
    ASSUME "cancel_in_read" \notin Races, "receive_in_cancel" \notin Races
    PROVE  Spec => RxIsPipe
<1> DEFINE Inv == TypeOK /\ PtrOK /\ RxInv
<1>1. Init => Inv
  BY TypeInit, RxInit
<1>2. Inv /\ [Next]_vars => Inv'
  BY TypeStep, RxStep
<1>3. Init => RxPipe!Init
  <2> SUFFICES ASSUME Init PROVE RxPipe!Init
    OBVIOUS
  <2>1. RxGone = 0 /\ rxAcc = 0 /\ rxRead = 0
    BY DEF Init, RxGone
  <2>2. Contents(rxData, rxTail, RxCount, RxSize) = <<>>
    BY <1>1, <2>1, RxLine, LineEmpty
  <2> QED BY <2>1, <2>2 DEF RxPipe!Init
<1>4. Inv => RxIsLine
  BY RxLine DEF RxIsLine
<1>5. Inv' => RxIsLine'
  BY <1>4, PTL
<1>6. Inv => RxGone \in Int /\ rxAcc \in Nat /\ RxGone <= rxAcc
  BY RxOldest
<1>7. Inv' => (RxGone \in Int /\ rxAcc \in Nat /\ RxGone <= rxAcc)'
  BY <1>6, PTL
<1>8. Inv /\ Inv' /\ [Next]_vars
      => [RxPipe!Next]_<<Contents(rxData, rxTail, RxCount, RxSize), rxAcc, rxRead>>
  <2> SUFFICES ASSUME Inv, Inv', [Next]_vars
               PROVE  [RxPipe!Next]_<<Contents(rxData, rxTail, RxCount, RxSize), rxAcc, rxRead>>
    OBVIOUS
  <2> DEFINE q == Contents(rxData, rxTail, RxCount, RxSize)
  <2>1. q = Line(RxGone, rxAcc)
    BY <1>4 DEF RxIsLine
  <2>2. q' = Line(RxGone', rxAcc')
    BY <1>5 DEF RxIsLine, Line
  <2>3. /\ rxAcc \in Nat /\ RxGone \in Int /\ RxGone <= rxAcc
        /\ rxAcc' \in Nat /\ RxGone' \in Int /\ RxGone' <= rxAcc' /\ RxSize - 1 \in Nat
    BY <1>6, <1>7
  <2>4. RxMove
    BY RxStep
  <2> HIDE DEF q, Inv
  <2>5. PipeStep(Line(RxGone, rxAcc), rxAcc, rxRead, Line(RxGone', rxAcc'), rxAcc', rxRead', RxSize - 1)
    <3>1. PipeMove(rxAcc, RxGone, rxRead, rxAcc', RxGone', rxRead', RxSize - 1)
      BY <2>4 DEF RxMove
    <3> QED BY <2>3, <3>1, LineMove, Zenon
  <2>6. PipeStep(q, rxAcc, rxRead, q', rxAcc', rxRead', RxSize - 1)
    BY <2>1, <2>2, <2>5
  <2> QED BY <2>6 DEF PipeStep, q, RxPipe!Next, RxPipe!Accept, RxPipe!Deliver, RxPipe!Discard, RxPipe!Replace
<1> QED BY <1>1, <1>2, <1>3, <1>8, PTL DEF Spec, RxIsPipe, RxPipe!Spec

\* While serialTxCount holds its copy of the tail, the handler may have sent more.
CountOK == pc = "txcount_tc" => TxCount <= BufCount(txHead, ptr, TxSize)

\* The copy of the tail never shows fewer characters than there are.
LEMMA CountStep ==
    ASSUME "long_window" \notin Races, "reconfig_busy" \notin Races,
           TypeOK, TxInv, TypeOK', TxInv', CountOK, [Next]_vars
    PROVE  CountOK'
<1> USE DEF Goto
<1>elsewhere. ASSUME pc' # "txcount_tc" PROVE CountOK'
  BY <1>elsewhere DEF CountOK
<1>same. ASSUME UNCHANGED <<pc, ptr, txRing>> PROVE CountOK'
  BY <1>same DEF CountOK, TxCount, txRing
<1>1. CASE TxCount_Tail
  <2>1. UNCHANGED txRing /\ ptr' = txTail
    BY <1>1 DEF TxCount_Tail, LoadPtr
  <2>2. TxCount \in Nat
    BY TxLine
  <2> QED BY <2>1, <2>2 DEF CountOK, TxCount, txRing
<1>2. CASE UART0_IRQHandler
  <2>1. pc' = pc /\ ptr' = ptr /\ txHead' = txHead /\ acc' = acc
    BY <1>2 DEF UART0_IRQHandler, local
  <2>2. TxCount = acc - TxGone /\ TxCount \in Nat /\ TxGone \in Nat
    BY TxLine
  <2>3. TxCount' = acc' - TxGone'
    BY DEF TxInv, TxAccounted
  <2>4. TxGone' \in Nat /\ acc \in Nat
    BY DEF TypeOK, TxGone
  <2>5. TxGone' >= TxGone
    <3>1. TxMove
      BY TxMoves
    <3> QED BY <2>1, <2>2, <2>4, <3>1 DEF TxMove, PipeMove
  <2>6. TxCount' <= TxCount
    <3>1. \A a, g, h \in Nat : h >= g => a - h <= a - g
      OBVIOUS
    <3>2. TxCount' = acc - TxGone'
      BY <2>1, <2>3
    <3>3. acc - TxGone' <= acc - TxGone
      BY <2>2, <2>4, <2>5, <3>1
    <3> QED BY <2>2, <3>2, <3>3
  <2>7. CASE pc = "txcount_tc"
    <3>1. txTail' = txTail \/ (txTail' = BufNext(txTail, TxSize) /\ txHead # txTail)
      BY <1>2 DEF UART0_IRQHandler, SendNothing, SendNext, TxReady, TxInv, NoStaleTransmit
    <3>2. TxCount <= BufCount(txHead, ptr, TxSize)
      BY <2>7 DEF CountOK
    <3>3. BufCount(txHead, ptr, TxSize)' = BufCount(txHead, ptr, TxSize)
      BY <2>1 DEF BufCount
    <3>4. ptr \in Nat /\ txHead \in Nat
      BY DEF TypeOK
    <3>5. BufCount(txHead, ptr, TxSize) \in Int
      BY <3>4 DEF BufCount
    <3>6. TxCount' \in Int
      BY <2>1, <2>3, <2>4
    <3> QED BY <2>2, <2>6, <3>2, <3>3, <3>5, <3>6 DEF CountOK
  <2>8. CASE pc # "txcount_tc"
    BY <1>elsewhere, <2>1, <2>8
  <2> QED BY <2>7, <2>8
<1> USE DEF LoadCR1, StoreCR1, LoadPtr, DropInput, DropOutput
<1>3. CASE Call
  BY <1>1, <1>3, <1>elsewhere, <1>same DEF Call, Idle, PutC_Begin, TxFlush_Load, GetC_Tail, RxFlush_Head,
     RxFree_Tail, RxCancel_Begin, SetBaudRate_Begin, SetFormat_Begin, Disable_Begin, SetRtHandler, Claim,
     Release, local
<1>4. CASE PutC \/ TxFlush \/ TxCount_TC \/ PutC_Abort
  BY <1>4, <1>elsewhere DEF PutC, PutC_Data, PutC_Head, PutC_Load, PutC_Arm, PutC_Abort, TxCount_TC,
     TxFlush, TxFlush_Mask, TxFlush_Tail
<1>5. CASE GetC \/ RxFlush_Store \/ RxFree_Head \/ RxCancel
  BY <1>5, <1>elsewhere DEF GetC, GetC_Test, GetC_Data, GetC_Store, RxFlush_Store, RxFree_Head, RxCancel,
     RxCancel_Data, RxCancel_Load, RxCancel_Tail, RxCancel_Next, RxCancel_Head
<1>6. CASE SetBaudRate \/ SetFormat \/ Disable
  BY <1>6, <1>elsewhere DEF SetBaudRate, SetFormat, Disable
<1>7. CASE ShiftOut \/ (\E kind \in Kinds : ShiftIn(kind)) \/ UNCHANGED vars
  BY <1>7, <1>same DEF ShiftOut, ShiftIn, vars, local
<1> QED BY <1>2, <1>3, <1>4, <1>5, <1>6, <1>7 DEF Next, Continue

\* With the races of the output side excluded: serialTxCount, which reads the
\* tail before the head and the flag TC last while the handler sends, returns 0
\* only when ring, data register and shift register are all empty.
THEOREM DrainedIsDrained ==
    ASSUME "long_window" \notin Races, "reconfig_busy" \notin Races
    PROVE  Spec => DrainedWhenZero
<1> DEFINE Inv == TypeOK /\ PtrOK /\ TxInv /\ CountOK
<1>1. Init => Inv
  BY TypeInit, TxInit DEF Init, CountOK
<1>2. Inv /\ [Next]_vars => Inv'
  BY TypeStep, TxStep, CountStep
<1>3. Inv => ((TxCount_TC /\ TxCount_Result = 0) => (TxCount = 0 /\ tdr = NoChar /\ tsr = NoChar))
  <2> SUFFICES ASSUME Inv, TxCount_TC, TxCount_Result = 0
               PROVE  TxCount = 0 /\ tdr = NoChar /\ tsr = NoChar
    OBVIOUS
  <2>1. TxCount \in Nat /\ TxCount <= BufCount(txHead, ptr, TxSize)
    BY TxLine DEF TxCount_TC, LoadPtr, Goto, CountOK
  <2>2. ptr \in Nat /\ txHead \in Nat
    BY DEF TypeOK
  <2>3. BufCount(txHead, ptr, TxSize) \in Int
    BY <2>2 DEF BufCount
  <2>4. BufCount(txHead, ptr, TxSize) + (IF tdr = NoChar /\ tsr = NoChar THEN 0 ELSE 1) = 0
    BY DEF TxCount_Result
  <2> QED BY <2>1, <2>3, <2>4
<1>4. Inv /\ [Next]_vars
      => [(TxCount_TC /\ TxCount_Result = 0) => (TxCount = 0 /\ tdr = NoChar /\ tsr = NoChar)]_vars
  BY <1>3
<1> QED BY <1>1, <1>2, <1>4, PTL DEF Spec, DrainedWhenZero
=============================================================================
