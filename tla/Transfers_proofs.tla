-------------------------- MODULE Transfers_proofs --------------------------
(***************************************************************************)
(* Theorems about the storage and the buses, each about the specification  *)
(* of its device.                                                          *)
(***************************************************************************)
EXTENDS MC_Transfers, WellFoundedInduction, TLAPS

-----------------------------------------------------------------------------
(* Receives are awaited for any number of keypads and key codes, as long   *)
(* as none of the three races happens.                                     *)

\* A call has the bus from its start to its end; await_rx is set only while a
\* receive is under way, and whoever waits for one finds it set; the callback is
\* that of the key under way, and is kept only until a key is told.
BusInv ==
    /\ bus \in {"none", "send", "receive", "key"} /\ keycode \in Nat /\ keypad \in Nat
    /\ wish \in Wishes \union {NoCall} /\ i2cAt \in {"idle", "ready", "start", "store", "wait"}
    /\ awaitRx \in BOOLEAN /\ begun \in BOOLEAN
    /\ i2cAt # "idle" => wish \in Wishes
    /\ begun => bus # "none"
    /\ i2cAt = "store" => /\ wish.op # "probe"
                          /\ bus = wish.op \/ (bus = "none" /\ wish.op = "send")
                          /\ wish.op = "key" => keyFor = wish.for
    /\ i2cAt = "wait" => wish.op # "key" /\ (bus \in {"receive", "key"} => awaitRx)
    /\ awaitRx => bus \in {"receive", "key"}
    /\ bus = "key" /\ i2cAt # "store" => keypad = keyFor
    /\ keycode = 0 \/ keypad = 0

\* Every step of caller, bus and handler keeps the invariant.
LEMMA BusStep ==
    ASSUME Keypads \subseteq Nat \ {0}, Keys \subseteq Nat \ {0}, I2cRaces = {},
           BusInv, [I2cNext]_i2cVars
    PROVE  /\ BusInv'
           /\ i2cAt = "wait" /\ i2cAt' = "idle" /\ returned' => bus = "none"
           /\ i2cAt' = "idle" /\ awaitRx' => bus' \in {"receive", "key"}
           /\ bus # "none" /\ bus' = "none" =>
                told' = (IF bus = "key" /\ keycode' # 0 THEN keyFor ELSE 0)
<1> USE DEF BusInv, Receives, Waits, Return, wire, rx, hist
<1>w. \A w \in Wishes : /\ w.op \in {"send", "receive", "probe", "key"} /\ w.block \in BOOLEAN
                        /\ w.for \in Nat /\ (w.op = "key" => ~w.block)
  BY DEF Wishes
<1>1. ASSUME NEW w \in Wishes, Call(w)
      PROVE  BusInv' /\ UNCHANGED <<rx, wire>> /\ i2cAt' # "idle"
  BY <1>1 DEF Call
<1>2. CASE Ready
  BY <1>2 DEF Ready
<1>3. CASE GiveUp
  BY <1>3 DEF GiveUp
<1>4. CASE Start
  <2>1. /\ i2cAt = "start" /\ wish \in Wishes
        /\ UNCHANGED <<keycode, keypad, begun, told>>
    BY <1>4 DEF Start
  <2>2. CASE /\ bus = "none" /\ wish.op # "probe"
             /\ bus' = wish.op /\ i2cAt' = "store" /\ keyFor' = wish.for
             /\ UNCHANGED <<awaitRx, wish, returned>>
    BY <1>w, <2>1, <2>2
  <2>3. ASSUME NEW ok \in BOOLEAN, Return(ok /\ bus = "none" /\ wish.op = "probe"),
               awaitRx' = (awaitRx /\ ~Receives), UNCHANGED <<bus, keyFor>>
        PROVE  BusInv' /\ bus' = bus /\ i2cAt # "wait"
    BY <2>1, <2>3
  <2> QED BY <1>4, <2>1, <2>2, <2>3 DEF Start
<1>5. CASE Store
  BY <1>5, <1>w DEF Store, Awaited
<1>6. CASE Wait
  BY <1>6, <1>w DEF Wait
<1>7. CASE Begin
  BY <1>7 DEF Begin
<1>8. CASE Sent
  BY <1>8 DEF Sent, Ends
<1>9. CASE Failed
  BY <1>9 DEF Failed, Ends
<1>10. ASSUME NEW code \in Keys \union {0}, Received(code)
       PROVE  /\ BusInv'
              /\ i2cAt' = i2cAt /\ ~awaitRx'
              /\ told' = (IF bus = "key" /\ keycode' # 0 THEN keyFor ELSE 0)
  BY <1>10 DEF Received, Called, Ends
<1>11. CASE UNCHANGED i2cVars
  BY <1>11 DEF i2cVars
<1> QED BY <1>1, <1>2, <1>3, <1>4, <1>5, <1>6, <1>7, <1>8, <1>9, <1>10, <1>11 DEF I2cNext

\* With the three races excluded no call waits for ever for a receive that is
\* over, none that blocks returns before its transfer is over, and a key is told
\* to the one who asked for it and to nobody else.
THEOREM I2cIsSound ==
    ASSUME Keypads \subseteq Nat \ {0}, Keys \subseteq Nat \ {0}, I2cRaces = {}
    PROVE  I2cSpec => ReceivesAreAwaited
<1>1. I2cInit => BusInv
  <2> SUFFICES ASSUME I2cInit PROVE BusInv
    OBVIOUS
  <2>1. /\ i2cAt = "idle" /\ wish = NoCall /\ bus = "none" /\ keycode = 0 /\ keypad = 0
        /\ awaitRx = FALSE /\ begun = FALSE
    BY DEF I2cInit
  <2> QED BY <2>1 DEF BusInv
<1>2. BusInv /\ [I2cNext]_i2cVars => BusInv'
  BY BusStep
<1>3. BusInv /\ [I2cNext]_i2cVars =>
        [/\ i2cAt = "wait" /\ i2cAt' = "idle" /\ returned' => bus = "none"
         /\ i2cAt' = "idle" /\ awaitRx' => bus' \in {"receive", "key"}
         /\ bus # "none" /\ bus' = "none" =>
              told' = (IF bus = "key" /\ keycode' # 0 THEN keyFor ELSE 0)]_i2cVars
  BY BusStep
<1> QED BY <1>1, <1>2, <1>3, PTL DEF I2cSpec, ReceivesAreAwaited

-----------------------------------------------------------------------------
(* The settings survive for every number of flash words and every contents *)
(* of them.                                                                *)

\* The flash holds an image, but for words that are erased or broken.
Holds(image) == \A w \in Address : flash[w] \in {image[w], Erased, Junk}

\* A save erases what it replaces, and programs the settings from the first
\* word on.
FlashInv ==
    /\ flash \in [Address -> Contents \union {Erased, Junk}] /\ ram \in Images
    /\ word \in Address /\ saving \in {"no", "erase", "program"}
    /\ saving # "program" => word = 0
    /\ saving = "no" => Holds(old) \/ Holds(new)
    /\ saving = "erase" => Holds(old) /\ new = ram
    /\ saving = "program" =>
         /\ new = ram
         /\ \A w \in Address : flash[w] = IF w < word THEN ram[w] ELSE Erased
    /\ saved = "ok" => saving = "no" /\ flash = ram

\* Every step of a save, and a loss of power, keep the invariant.
LEMMA FlashStep ==
    ASSUME Words \in Nat \ {0}, FlashInv, [FlashNext]_flashVars
    PROVE  FlashInv'
<1> USE DEF FlashInv, Holds
<1>0. 0 \in Address /\ Images \subseteq [Address -> Contents \union {Erased, Junk}]
  BY DEF Address, Images
<1>1. CASE Change
  BY <1>1 DEF Change, Images
<1>2. CASE Save
  BY <1>0, <1>2 DEF Save, End, Images
<1>3. CASE Erase
  <2>1. \A S \in SUBSET Address : Wiped(S) \in [Address -> Contents \union {Erased, Junk}]
    BY DEF Wiped
  <2>2. CASE flash' = Wiped(Address) /\ saving' = "program" /\ UNCHANGED <<word, saved>>
    <3>1. ram' = ram /\ new' = new /\ new = ram /\ word' = 0 /\ saved # "ok"
      BY <1>3, <2>2 DEF Erase
    <3>2. \A w \in Address : flash'[w] = Erased /\ ~(w < 0)
      BY <2>2 DEF Wiped, Address
    <3> QED BY <1>0, <2>1, <2>2, <3>1, <3>2
  <2>3. CASE (\E S \in SUBSET Address : flash' = Wiped(S)) /\ End("error")
    BY <1>0, <1>3, <2>1, <2>3 DEF Erase, End, Wiped
  <2> QED BY <1>3, <2>2, <2>3 DEF Erase
<1>4. CASE Program
  <2>1. saving = "program" /\ new = ram /\ UNCHANGED <<ram, old, new>>
    BY <1>4 DEF Program
  <2>2. ram[word] \in Contents
    BY DEF Images
  <2>3. CASE flash' = [flash EXCEPT ![word] = ram[word]] /\ word = Words - 1 /\ End("ok")
    <3>1. \A w \in Address : flash'[w] = ram[w]
      BY <2>1, <2>3 DEF Address
    <3>2. flash' \in [Address -> Contents \union {Erased, Junk}]
      BY <2>2, <2>3
    <3>3. flash' = ram
      BY <1>0, <3>1, <3>2
    <3> QED BY <1>0, <2>1, <2>3, <3>1, <3>2, <3>3 DEF End
  <2>4. CASE /\ flash' = [flash EXCEPT ![word] = ram[word]] /\ word # Words - 1
             /\ word' = word + 1 /\ UNCHANGED <<saving, saved>>
    <3>1. word' \in Address
      BY <2>4 DEF Address
    <3>2. \A w \in Address : flash'[w] = IF w < word' THEN ram[w] ELSE Erased
      BY <2>1, <2>4 DEF Address
    <3> QED BY <2>1, <2>2, <2>4, <3>1, <3>2
  <2>5. ASSUME NEW w \in {flash[word], Junk}, flash' = [flash EXCEPT ![word] = w], End("error")
        PROVE  FlashInv'
    <3>1. \A v \in Address : flash'[v] \in {new[v], Erased, Junk}
      BY <2>1, <2>5
    <3> QED BY <1>0, <2>1, <2>5, <3>1 DEF End
  <2> QED BY <1>4, <2>3, <2>4, <2>5 DEF Program
<1>5. CASE PowerLoss
  <2>1. /\ word' = 0 /\ saving' = "no" /\ saved' = "none" /\ UNCHANGED <<old, new>>
        /\ ram' \in Images
    BY <1>5 DEF PowerLoss, End
  <2>2. CASE saving = "no"
    BY <1>0, <1>5, <2>1, <2>2 DEF PowerLoss
  <2>3. CASE saving = "erase"
    <3>1. PICK f \in [Address -> {Erased, Junk}], S \in SUBSET Address :
            flash' = [w \in Address |-> IF w \in S THEN f[w] ELSE flash[w]]
      BY <1>5, <2>3 DEF PowerLoss
    <3>2. \A w \in Address : flash'[w] \in {old[w], Erased, Junk}
      BY <2>3, <3>1
    <3>3. flash' \in [Address -> Contents \union {Erased, Junk}]
      BY <3>1
    <3> QED BY <1>0, <2>1, <3>2, <3>3
  <2>4. CASE saving = "program"
    <3>1. flash' = [flash EXCEPT ![word] = Junk]
      BY <1>5, <2>4 DEF PowerLoss
    <3>2. \A w \in Address : flash'[w] \in {new[w], Erased, Junk}
      BY <2>4, <3>1
    <3> QED BY <1>0, <2>1, <3>1, <3>2
  <2> QED BY <2>2, <2>3, <2>4
<1>6. CASE UNCHANGED flashVars
  BY <1>6 DEF flashVars
<1> QED BY <1>1, <1>2, <1>3, <1>4, <1>5, <1>6 DEF FlashNext

\* Whatever fails and whenever the power goes, a save that returned true has
\* left the settings in the flash, and the flash never holds a mixture of the
\* old settings and the new ones.
THEOREM SettingsAreSafe ==
    ASSUME Words \in Nat \ {0}
    PROVE  FlashSpec => []SettingsSurvive
<1>1. FlashInit => FlashInv
  BY DEF FlashInit, FlashInv, Holds, Images, Address
<1>2. FlashInv /\ [FlashNext]_flashVars => FlashInv'
  BY FlashStep
<1>3. FlashInv => SettingsSurvive
  BY DEF FlashInv, Holds, SettingsSurvive, Images
<1> QED BY <1>1, <1>2, <1>3, PTL DEF FlashSpec

-----------------------------------------------------------------------------
(* Frames reach their owner for every number of filters and every size of  *)
(* the receive FIFO.                                                       *)

\* The entries below the index are there, and only they are filters; the frames
\* in the FIFO and the one passed on came in by one of them.
Entries == 0..index - 1

CanInv ==
    /\ index \in 0..MaxFilters /\ filters \subseteq Entries
    /\ adding # 0 => index # 0
    /\ owner \in [Indices -> Owners \union {0}] /\ rxCallbacks = owner
    /\ \A i \in Entries : owner[i] \in Owners
    /\ fifo \in Seq(Entries)
    /\ fifo # <<>> => newMessage \/ inCallback
    /\ passedOn # <<>> => passedOn[1] \in Entries /\ passedOn[2] = owner[passedOn[1]]

\* Every step of the filters and the FIFO keeps the invariant.
LEMMA CanStep ==
    ASSUME MaxFilters \in Nat, CanInv, [CanNext]_canVars
    PROVE  CanInv'
<1> USE DEF CanInv, Entries, Indices
<1>1. ASSUME NEW cb \in Owners, AddFilter(cb) PROVE CanInv'
  <2>1. index' = index + 1 /\ index \in Indices /\ Entries \subseteq Entries'
    BY <1>1 DEF AddFilter
  <2>2. /\ owner' = [owner EXCEPT ![index] = cb] /\ rxCallbacks' = [rxCallbacks EXCEPT ![index] = cb]
        /\ UNCHANGED <<filters, fifo, newMessage, inCallback, passedOn>>
    BY <1>1 DEF AddFilter
  <2>3. owner' \in [Indices -> Owners \union {0}] /\ rxCallbacks' = owner'
    BY <2>1, <2>2
  <2>4. \A i \in Entries : owner'[i] = owner[i]
    BY <2>1, <2>2
  <2>5. \A i \in Entries' : owner'[i] \in Owners
    BY <2>1, <2>2, <2>4
  <2>6. fifo' \in Seq(Entries')
    BY <2>1, <2>2
  <2>7. (passedOn # <<>> => passedOn[1] \in Entries /\ passedOn[2] = owner[passedOn[1]])'
    BY <2>1, <2>2, <2>4
  <2> QED BY <2>1, <2>2, <2>3, <2>5, <2>6, <2>7
<1>2. ASSUME NEW i \in Indices, Frame(i) PROVE CanInv'
  BY <1>2 DEF Frame
<1>3. CASE ConfigFilter
  <2>1. /\ UNCHANGED <<rxCallbacks, index, fifo, newMessage, inCallback, passedOn, owner>>
        /\ adding' = 0 /\ Entries' = Entries
    BY <1>3 DEF ConfigFilter
  <2>2. index - 1 \in Entries
    BY <1>3 DEF ConfigFilter
  <2>3. filters' \subseteq Entries
    BY <1>3, <2>2, Zenon DEF ConfigFilter
  <2> QED BY <2>1, <2>3
<1>4. CASE Interrupt
  BY <1>4 DEF Interrupt
<1>5. CASE RxFrame
  <2>1. Head(fifo) \in Entries /\ fifo' \in Seq(Entries) /\ inCallback
    BY <1>5 DEF RxFrame
  <2>2. passedOn' = <<Head(fifo), owner[Head(fifo)]>>
        /\ UNCHANGED <<filters, rxCallbacks, index, adding, newMessage, inCallback, owner>>
    BY <1>5 DEF RxFrame
  <2>3. passedOn'[1] = Head(fifo) /\ passedOn'[2] = owner[Head(fifo)]
    BY <2>2
  <2> QED BY <2>1, <2>2, <2>3
<1>6. CASE RxDone
  BY <1>6 DEF RxDone
<1>7. CASE UNCHANGED canVars
  BY <1>7 DEF canVars
<1> QED BY <1>1, <1>2, <1>3, <1>4, <1>5, <1>6, <1>7 DEF CanNext

\* Each frame is passed on with the callback of the one who asked for its
\* filter, whenever filters are added and frames come in, and no frame is left
\* in the FIFO without an interrupt to come.
THEOREM FramesAreDelivered ==
    ASSUME MaxFilters \in Nat, 0 \notin Owners
    PROVE  CanSpec => []FramesReachTheirOwner
<1>1. CanInit => CanInv
  <2> SUFFICES ASSUME CanInit PROVE CanInv
    OBVIOUS
  <2>1. index = 0 /\ Entries = {} /\ fifo \in Seq(Entries)
    BY DEF CanInit, Entries
  <2> QED BY <2>1 DEF CanInit, CanInv, Indices
<1>2. CanInv /\ [CanNext]_canVars => CanInv'
  BY CanStep
<1>3. CanInv => FramesReachTheirOwner
  BY DEF CanInv, FramesReachTheirOwner
<1> QED BY <1>1, <1>2, <1>3, PTL DEF CanSpec

-----------------------------------------------------------------------------
(* The strip catches up with the buffer for every length of strip.         *)

\* What has been sent since the buffer was packed last is shown.
LedsInv ==
    /\ numLeds \in Lengths /\ sending \in 0..numLeds /\ repacking \in 0..numLeds
    /\ strip \in [1..numLeds -> Colours \union {Off}]
    /\ leds \in [1..numLeds -> Colours \union {Off}]
    /\ ~changed /\ ~writing =>
         \A d \in 1..numLeds : sending = 0 \/ d < sending => strip[d] = leds[d]

\* Every step of packing and sending keeps the invariant.
LEMMA LedsStep ==
    ASSUME Lengths \subseteq Nat \ {0}, LedsInv, [LedsNext]_ledsVars
    PROVE  LedsInv'
<1> USE DEF LedsInv
<1>0. numLeds \in Nat \ {0}
  OBVIOUS
<1>1. ASSUME NEW d \in 1..numLeds, NEW colour \in Colours, Out(d, colour) PROVE LedsInv'
  BY <1>1 DEF Out, Pack
<1>2. CASE Show
  BY <1>2 DEF Show
<1>3. CASE SetIntensity
  BY <1>0, <1>3 DEF SetIntensity
<1>4. CASE Repack
  <2>1. /\ leds' = [leds EXCEPT ![repacking] = Pack(leds[repacking], bright)]
        /\ repacking \in 1..numLeds /\ repacking' = repacking - 1 /\ changed'
        /\ UNCHANGED <<numLeds, sending, strip>>
    BY <1>0, <1>4 DEF Repack
  <2> QED BY <1>0, <2>1 DEF Pack
<1>5. CASE Write
  BY <1>0, <1>5 DEF Write
<1>6. CASE Dma
  <2>1. /\ sending \in 1..numLeds /\ strip' = [strip EXCEPT ![sending] = leds[sending]]
        /\ UNCHANGED <<numLeds, leds, repacking, writing, changed>>
    BY <1>6 DEF Dma
  <2>2. sending' = IF sending = numLeds THEN 0 ELSE sending + 1
    <3>1. sending' = (sending + 1) % (numLeds + 1)
      BY <1>6 DEF Dma
    <3>2. (numLeds + 1) % (numLeds + 1) = 0
      BY <1>0
    <3>3. sending < numLeds => (sending + 1) % (numLeds + 1) = sending + 1
      BY <1>0, <2>1
    <3> QED BY <2>1, <3>1, <3>2, <3>3
  <2>3. strip' \in [1..numLeds -> Colours \union {Off}] /\ sending' \in 0..numLeds
    BY <1>0, <2>1, <2>2
  <2>4. ASSUME ~changed, ~writing, NEW d \in 1..numLeds, sending' = 0 \/ d < sending'
        PROVE  strip'[d] = leds[d]
    BY <1>0, <2>1, <2>2, <2>4
  <2> QED BY <2>1, <2>3, <2>4
<1>7. CASE UNCHANGED ledsVars
  BY <1>7 DEF ledsVars
<1> QED BY <1>1, <1>2, <1>3, <1>4, <1>5, <1>6, <1>7 DEF LedsNext

\* When nothing has been packed since the last transfer started, the strip shows
\* the buffer once it is over, for strips of every length.
THEOREM StripIsRepaired ==
    ASSUME Lengths \subseteq Nat \ {0}
    PROVE  LedsSpec => []StripCatchesUp
<1>1. LedsInit => LedsInv
  BY DEF LedsInit, LedsInv
<1>2. LedsInv /\ [LedsNext]_ledsVars => LedsInv'
  BY LedsStep
<1>3. LedsInv => StripCatchesUp
  <2> SUFFICES ASSUME LedsInv, ~changed, ~writing, sending = 0 PROVE strip = leds
    BY DEF StripCatchesUp
  <2>1. \A d \in 1..numLeds : strip[d] = leds[d]
    BY DEF LedsInv
  <2> QED BY <2>1 DEF LedsInv
<1> QED BY <1>1, <1>2, <1>3, PTL DEF LedsSpec

-----------------------------------------------------------------------------
(* The SD card is a block device, whatever fails and whatever is given up. *)

\* The calls, the transfers and the places after the card was found ready.
SdRequests  == [op : {"read", "write"}, area : Areas]
SdTransfers == [op : {"read", "write"}, area : SUBSET Sectors, fast : BOOLEAN]
Started     == {"start", "clear", "wait", "ready", "done"}

\* The types; a call has its area and its memory, and starts at the first sector.
CardTypes ==
    /\ disk \in [Sectors -> Values]
    /\ at \in Started \union {"idle", "check"} /\ fast \in BOOLEAN
    /\ readStatus \in BOOLEAN /\ writeStatus \in BOOLEAN
    /\ scratch \in Values \union {Blank}
    /\ transfer \in SdTransfers \union {NoTransfer}
    /\ at = "idle" <=> request = NoRequest
    /\ at # "idle" => /\ request \in SdRequests /\ sector \in request.area
                      /\ memory \in [request.area -> Values \union {Blank}]
    /\ at = "check" => \A s \in request.area : sector <= s
    /\ at # "idle" /\ request.op = "write" => memory \in [request.area -> Values]
    /\ transfer # NoTransfer /\ transfer.op = "write" /\ transfer.fast = FALSE => scratch \in Values

\* A transfer under way is that of the call, or a write through the scratch
\* buffer that was given up; a flag is set only when it is over.
TransferOK ==
    /\ transfer # NoTransfer =>
         \/ /\ at \in {"clear", "wait"}
            /\ transfer = [op |-> request.op, area |-> IF fast THEN request.area ELSE {sector},
                           fast |-> fast]
         \/ at \in {"idle", "check"} /\ transfer.op = "write" /\ transfer.fast = FALSE
    /\ at = "clear" => fast /\ request.op = "read"
    /\ at = "ready" => fast
    /\ readStatus => at \in {"clear", "wait"} /\ request.op = "read" /\ transfer = NoTransfer
    /\ at = "wait" /\ request.op = "write" /\ writeStatus => transfer = NoTransfer
    /\ at \in {"check", "start"} /\ fast /\ request.op = "write" => ~writeStatus

\* Disk and memory agree about what was moved.
Agree(S) == \A s \in S : disk[s] = memory[s]

\* What was moved before the sector at hand, and all of it in the end, agrees; a
\* flag that is set says so of the sector, or of the area, being waited for.
DataOK ==
    /\ at \in Started /\ ~fast => Agree({s \in request.area : s < sector})
    /\ at = "wait" /\ ~fast /\ request.op = "write" => scratch = memory[sector]
    /\ at = "wait" /\ ~fast /\ request.op = "read" /\ readStatus => disk[sector] = scratch
    /\ at = "wait" /\ ~fast /\ request.op = "write" /\ writeStatus => disk[sector] = memory[sector]
    /\ at = "wait" /\ fast /\ request.op = "read" /\ readStatus => Agree(request.area)
    /\ at = "wait" /\ fast /\ request.op = "write" /\ writeStatus => Agree(request.area)
    /\ at \in {"ready", "done"} => Agree(request.area)

CardInv == CardTypes /\ TransferOK /\ DataOK

\* A set of sectors has a first one.
LEMMA FirstIs ==
    ASSUME NEW area, area \subseteq Nat, area # {}
    PROVE  Sd!First(area) \in area /\ \A t \in area : Sd!First(area) <= t
<1>1. \E s \in area : \A t \in area : s <= t
  <2>1. PICK s \in area : \A t \in area : ~(<<t, s>> \in OpToRel(<, Nat))
    BY NatLessThanWellFounded, WFMin, Zenon
  <2>2. \A t \in area : t \in Nat /\ ~(t < s)
    BY <2>1 DEF OpToRel
  <2> QED BY <2>2
<1> QED BY <1>1 DEF Sd!First

\* What the steps need to know of a call.
LEMMA CardFacts ==
    ASSUME CardInv, at # "idle"
    PROVE  /\ request \in SdRequests /\ sector \in request.area /\ request # NoRequest
           /\ request.area \in Areas /\ request.area \subseteq Sectors /\ request.area \subseteq Nat
           /\ request.op \in {"read", "write"}
           /\ memory \in [request.area -> Values \union {Blank}] /\ DOMAIN memory = request.area
           /\ sector \in Nat
           /\ \A s, t \in request.area : s..t \subseteq request.area
<1>1. /\ request \in SdRequests /\ sector \in request.area /\ request # NoRequest
      /\ memory \in [request.area -> Values \union {Blank}]
  BY DEF CardInv, CardTypes
<1>2. request.area \in Areas /\ request.op \in {"read", "write"}
  BY <1>1 DEF SdRequests
<1>3. request.area \subseteq Sectors /\ request.area \subseteq Nat
  BY <1>2, TransfersAssumption DEF TransfersAssumption
<1>4. \A s, t \in request.area : s..t \subseteq request.area
  BY <1>2, <1>3, TransfersAssumption DEF TransfersAssumption
<1> QED BY <1>1, <1>2, <1>3, <1>4

\* The initial state.
LEMMA CardInit == Sd!Init => CardInv
<1> SUFFICES ASSUME Sd!Init PROVE CardInv
  OBVIOUS
<1>1. /\ disk \in [Sectors -> Values] /\ transfer = NoTransfer /\ readStatus = FALSE
      /\ writeStatus = FALSE /\ scratch = Blank /\ request = NoRequest /\ fast = FALSE /\ at = "idle"
  BY DEF Sd!Init
<1> QED BY <1>1 DEF CardInv, CardTypes, TransferOK, DataOK, Started

\* What a call leaves when it returns.
LEMMA CardReturn ==
    ASSUME CardInv, NEW res, Sd!Return(res), UNCHANGED <<disk, transfer, readStatus>>,
           writeStatus' \in BOOLEAN, scratch' \in Values \union {Blank}, ~readStatus,
           transfer # NoTransfer => scratch' = scratch,
           transfer # NoTransfer => transfer.op = "write" /\ ~transfer.fast
    PROVE  CardInv'
<1>1. at' = "idle" /\ request' = NoRequest /\ fast' = FALSE
  BY DEF Sd!Return
<1>2. transfer # NoTransfer => transfer.op = "write" /\ transfer.fast = FALSE
  BY DEF CardInv, CardTypes, SdTransfers
<1>3. CardTypes'
  BY <1>1 DEF CardInv, CardTypes, Started
<1>4. TransferOK' /\ DataOK'
  BY <1>1, <1>2 DEF TransferOK, DataOK, Started
<1> QED BY <1>3, <1>4 DEF CardInv

\* A call begins.
LEMMA CardCall ==
    ASSUME CardInv, NEW area \in Areas, NEW op \in {"read", "write"},
           NEW f \in [area -> Values \union {Blank}], Sd!Call(op, f),
           op = "write" => f \in [area -> Values],
           NoRequest \notin SdRequests
    PROVE  CardInv'
<1>1. /\ at = "idle" /\ at' = "check" /\ request' = [op |-> op, area |-> area]
      /\ fast' \in BOOLEAN /\ memory' = f /\ sector' = Sd!First(area)
      /\ writeStatus' = (writeStatus /\ op = "read")
      /\ UNCHANGED <<disk, transfer, readStatus, scratch>>
  BY DEF Sd!Call
<1>2. request' \in SdRequests /\ request'.area = area /\ request'.op = op
  BY <1>1 DEF SdRequests
<1>3. sector' \in area /\ \A s \in area : sector' <= s
  <2>1. area \subseteq Nat /\ area # {}
    <3>1. area \in (SUBSET Sectors) \ {{}} /\ Sectors \subseteq Nat
      BY TransfersAssumption DEF TransfersAssumption
    <3> QED BY <3>1
  <2> QED BY <1>1, <2>1, FirstIs
<1>4. writeStatus' \in BOOLEAN /\ (op = "write" => ~writeStatus')
  BY <1>1 DEF CardInv, CardTypes
<1>5. CardTypes'
  BY <1>1, <1>2, <1>3, <1>4 DEF CardInv, CardTypes, Started
<1>6. TransferOK'
  BY <1>1, <1>2, <1>4 DEF CardInv, TransferOK
<1>7. DataOK'
  BY <1>1 DEF DataOK, Started
<1> QED BY <1>5, <1>6, <1>7 DEF CardInv

\* The card is ready or it is not.
LEMMA CardCheck == ASSUME CardInv, Sd!Check PROVE CardInv'
<1>1. at = "check" /\ UNCHANGED <<disk, transfer, readStatus, writeStatus, scratch>>
  BY DEF Sd!Check, Sd!flags
<1>2. ~readStatus /\ (transfer # NoTransfer => transfer.op = "write" /\ ~transfer.fast)
  BY <1>1 DEF CardInv, TransferOK
<1>3. CASE Sd!Return("error")
  BY <1>1, <1>2, <1>3, CardReturn DEF CardInv, CardTypes
<1>4. CASE Sd!Idle /\ at' = "start" /\ UNCHANGED <<request, fast, memory, result, sector>>
  <2>1. CardTypes'
    BY <1>1, <1>4 DEF CardInv, CardTypes, Started
  <2>2. TransferOK'
    BY <1>1, <1>4 DEF CardInv, TransferOK, Sd!Idle
  <2>3. DataOK'
    <3>1. \A s \in request.area : sector <= s /\ s \in Nat /\ sector \in Nat
      BY <1>1, CardFacts DEF CardInv, CardTypes
    <3>2. {s \in request.area : s < sector} = {}
      BY <3>1
    <3>3. {s \in request'.area : s < sector'} = {}
      BY <1>4, <3>2
    <3>4. Agree({})'
      BY DEF Agree
    <3>5. at' = "start"
      BY <1>4
    <3> QED BY <3>3, <3>4, <3>5 DEF DataOK, Started
  <2> QED BY <2>1, <2>2, <2>3 DEF CardInv
<1> QED BY <1>3, <1>4 DEF Sd!Check

\* A transfer is started, or refused.
LEMMA CardStart == ASSUME CardInv, Sd!Start PROVE CardInv'
<1>1. /\ at = "start" /\ writeStatus' = (writeStatus /\ (fast \/ request.op = "read"))
      /\ scratch' = IF fast \/ request.op = "read" THEN scratch ELSE memory[sector]
      /\ UNCHANGED <<disk, readStatus>>
  BY DEF Sd!Start, Sd!Cleared, Sd!Reads
<1>2. transfer = NoTransfer /\ ~readStatus
  BY <1>1 DEF CardInv, TransferOK
<1>3. /\ request \in SdRequests /\ sector \in request.area /\ request.area \subseteq Sectors
      /\ memory \in [request.area -> Values \union {Blank}] /\ request.op \in {"read", "write"}
      /\ (request.op = "write" => memory \in [request.area -> Values])
  BY <1>1, CardFacts DEF CardInv, CardTypes
<1>4. scratch' \in Values \union {Blank} /\ writeStatus' \in BOOLEAN
  BY <1>1, <1>3 DEF CardInv, CardTypes
<1>5. ~fast /\ request.op = "write" => scratch' = memory[sector] /\ scratch' \in Values
  BY <1>1, <1>3
<1>6. CASE Sd!Return("error") /\ UNCHANGED transfer
  BY <1>1, <1>2, <1>4, <1>6, CardReturn
<1>7. CASE /\ transfer' = [op |-> request.op, area |-> IF fast THEN request.area ELSE {sector},
                           fast |-> fast]
           /\ at' = (IF fast /\ request.op = "read" THEN "clear" ELSE "wait")
           /\ UNCHANGED <<request, fast, memory, result, sector>>
  <2>1. transfer' \in SdTransfers
    <3>1. (IF fast THEN request.area ELSE {sector}) \in SUBSET Sectors
      BY <1>3
    <3>2. fast \in BOOLEAN
      BY DEF CardInv, CardTypes
    <3> QED BY <1>3, <1>7, <3>1, <3>2, Zenon DEF SdTransfers
  <2>2. at' \in {"clear", "wait"} /\ transfer'.op = request.op
        /\ (transfer'.fast = FALSE => ~fast)
    BY <1>7
  <2>3. CardTypes'
    BY <1>1, <1>3, <1>4, <1>5, <1>7, <2>1, <2>2 DEF CardInv, CardTypes, Started
  <2>4. TransferOK'
    <3>1. request.op = "write" => ~writeStatus'
      BY <1>1 DEF CardInv, TransferOK
    <3> QED BY <1>1, <1>2, <1>3, <1>7, <2>2, <3>1 DEF TransferOK
  <2>5. DataOK'
    <3>1. at' = "wait" /\ request.op = "write" => ~writeStatus'
      BY <1>1 DEF CardInv, TransferOK
    <3>2. ~fast => Agree({s \in request.area : s < sector})'
      BY <1>1, <1>7 DEF CardInv, DataOK, Agree, Started
    <3> QED BY <1>1, <1>2, <1>3, <1>5, <1>7, <2>2, <3>1, <3>2 DEF DataOK, Started
  <2> QED BY <2>3, <2>4, <2>5 DEF CardInv
<1> QED BY <1>6, <1>7 DEF Sd!Start, Sd!Reads

\* The flag of a fast read is cleared.
LEMMA CardClear == ASSUME CardInv, Sd!Clear PROVE CardInv'
<1>1. /\ at = "clear" /\ at' = "wait" /\ readStatus' = FALSE
      /\ UNCHANGED <<disk, transfer, writeStatus, scratch, request, fast, memory, result, sector>>
  BY DEF Sd!Clear
<1>2. fast /\ request.op = "read"
  BY <1>1 DEF CardInv, TransferOK
<1>3. CardTypes'
  BY <1>1 DEF CardInv, CardTypes, Started
<1>4. TransferOK'
  BY <1>1, <1>2 DEF CardInv, TransferOK
<1>5. DataOK'
  BY <1>1, <1>2 DEF DataOK, Started
<1> QED BY <1>3, <1>4, <1>5 DEF CardInv

\* The flag is seen.
LEMMA CardWait == ASSUME CardInv, Sd!Wait PROVE CardInv'
<1> DEFINE Read  == request.op = "read"
           Moved == IF Read /\ ~fast THEN [memory EXCEPT ![sector] = scratch] ELSE memory
<1>1. /\ at = "wait" /\ (IF Read THEN readStatus ELSE writeStatus)
      /\ readStatus' = (readStatus /\ ~Read) /\ writeStatus' = (writeStatus /\ (Read \/ ~fast))
      /\ \/ fast /\ at' = "ready" /\ UNCHANGED <<memory, sector>>
         \/ ~fast /\ sector + 1 \in request.area /\ memory' = Moved /\ sector' = sector + 1 /\ at' = "start"
         \/ ~fast /\ sector + 1 \notin request.area /\ memory' = Moved /\ at' = "done" /\ UNCHANGED sector
      /\ UNCHANGED <<disk, transfer, scratch, request, fast, result>>
  BY DEF Sd!Wait, Sd!Flag, Sd!Reads
<1>2. /\ request \in SdRequests /\ sector \in request.area /\ request.area \subseteq Sectors
      /\ request.area \subseteq Nat /\ sector \in Nat /\ request.op \in {"read", "write"}
      /\ memory \in [request.area -> Values \union {Blank}]
      /\ (request.op = "write" => memory \in [request.area -> Values])
      /\ \A s, t \in request.area : s..t \subseteq request.area
  BY <1>1, CardFacts DEF CardInv, CardTypes
<1>3. transfer = NoTransfer
  BY <1>1, <1>2 DEF CardInv, TransferOK
<1>4. /\ Moved \in [request.area -> Values \union {Blank}]
      /\ (~Read => Moved = memory)
  BY <1>2 DEF CardInv, CardTypes
<1>5. memory' \in [request.area -> Values \union {Blank}] /\ sector' \in request.area
      /\ (request.op = "write" => memory' \in [request.area -> Values])
  BY <1>1, <1>2, <1>4
<1>6. CardTypes'
  <2>1. readStatus' \in BOOLEAN /\ writeStatus' \in BOOLEAN /\ at' \in {"ready", "start", "done"}
    BY <1>1 DEF CardInv, CardTypes
  <2> QED BY <1>1, <1>2, <1>3, <1>5, <2>1 DEF CardInv, CardTypes, Started
<1>7. TransferOK'
  BY <1>1, <1>2, <1>3 DEF CardInv, TransferOK
<1>8. CASE fast
  <2>1. Agree(request.area)
    BY <1>1, <1>2, <1>8 DEF CardInv, DataOK
  <2>2. at' = "ready" /\ Agree(request.area)'
    BY <1>1, <1>8, <2>1 DEF Agree
  <2> QED BY <1>1, <1>6, <1>7, <1>8, <2>2 DEF CardInv, DataOK, Started
<1>9. CASE ~fast
  <2>1. \A s \in request.area : s < sector => disk[s] = memory[s]
    BY <1>1, <1>9 DEF CardInv, DataOK, Started, Agree
  <2>2. disk[sector] = Moved[sector]
    BY <1>1, <1>2, <1>9 DEF CardInv, DataOK
  <2>3. \A s \in request.area : s # sector => Moved[s] = memory[s]
    BY <1>2
  <2> HIDE DEF Moved
  <2>4. \A s \in request.area : s <= sector => disk[s] = Moved[s]
    BY <1>2, <2>1, <2>2, <2>3
  <2>5. CASE sector + 1 \in request.area /\ memory' = Moved /\ sector' = sector + 1 /\ at' = "start"
    <3>1. \A s \in request.area : s < sector' => disk[s] = memory'[s]
      BY <1>2, <2>4, <2>5
    <3>2. Agree({s \in request.area : s < sector})'
      BY <1>1, <3>1 DEF Agree
    <3> QED BY <1>6, <1>7, <2>5, <3>2 DEF CardInv, DataOK
  <2>6. CASE sector + 1 \notin request.area /\ memory' = Moved /\ at' = "done" /\ UNCHANGED sector
    <3>1. \A s \in request.area : s <= sector
      <4>1. SUFFICES ASSUME NEW s \in request.area, ~(s <= sector) PROVE FALSE
        OBVIOUS
      <4>2. s \in Nat /\ sector + 1 \in sector..s
        BY <1>2, <4>1
      <4> QED BY <1>2, <2>6, <4>2
    <3>2. Agree(request.area)' /\ Agree({s \in request.area : s < sector})'
      BY <1>1, <2>4, <2>6, <3>1 DEF Agree
    <3> QED BY <1>6, <1>7, <2>6, <3>2 DEF CardInv, DataOK
  <2> QED BY <1>1, <1>9, <2>5, <2>6
<1> QED BY <1>8, <1>9

\* The time is out, without a transfer that goes on in the caller's memory.
LEMMA CardTimeOut == ASSUME CardInv, Sd!TimeOut, "late_read" \notin SdRaces PROVE CardInv'
<1>1. /\ at = "wait" /\ ~(IF request.op = "read" THEN readStatus ELSE writeStatus)
      /\ transfer # NoTransfer => ~fast /\ transfer.op = request.op /\ request.op # "read"
      /\ Sd!Return("error") /\ UNCHANGED <<disk, transfer, readStatus, writeStatus, scratch>>
  BY DEF Sd!TimeOut, Sd!Flag, Sd!Reads, Sd!Idle, Sd!flags
<1>2. ~readStatus
  BY <1>1 DEF CardInv, TransferOK
<1>3. request.op \in {"read", "write"}
  BY <1>1, CardFacts
<1>4. transfer # NoTransfer => transfer.op = "write" /\ ~transfer.fast
  BY <1>1, <1>3 DEF CardInv, TransferOK
<1> QED BY <1>1, <1>2, <1>4, CardReturn DEF CardInv, CardTypes

\* A fast transfer is followed by a ready card, or not.
LEMMA CardReady == ASSUME CardInv, Sd!Ready PROVE CardInv'
<1>1. /\ at = "ready" /\ transfer = NoTransfer
      /\ UNCHANGED <<disk, transfer, readStatus, writeStatus, scratch>>
  BY DEF Sd!Ready, Sd!Idle, Sd!flags
<1>2. ~readStatus /\ fast
  BY <1>1 DEF CardInv, TransferOK
<1>3. CASE Sd!Return("error")
  BY <1>1, <1>2, <1>3, CardReturn DEF CardInv, CardTypes
<1>4. CASE at' = "done" /\ UNCHANGED <<request, fast, memory, result, sector>>
  <2>1. CardTypes'
    BY <1>1, <1>4 DEF CardInv, CardTypes, Started
  <2>2. TransferOK'
    BY <1>1, <1>2, <1>4 DEF CardInv, TransferOK
  <2>3. DataOK'
    BY <1>1, <1>2, <1>4 DEF CardInv, DataOK, Agree, Started
  <2> QED BY <2>1, <2>2, <2>3 DEF CardInv
<1> QED BY <1>3, <1>4 DEF Sd!Ready

\* The call is over.
LEMMA CardOk == ASSUME CardInv, Sd!Ok PROVE CardInv' /\ transfer = NoTransfer
<1>1. /\ at = "done" /\ Sd!Return("ok")
      /\ UNCHANGED <<disk, transfer, readStatus, writeStatus, scratch>>
  BY DEF Sd!Ok, Sd!flags
<1>2. ~readStatus /\ transfer = NoTransfer
  BY <1>1 DEF CardInv, TransferOK
<1> QED BY <1>1, <1>2, CardReturn DEF CardInv, CardTypes

\* What the card does when it has moved some sectors of a transfer.
LEMMA CardMove ==
    ASSUME CardInv, transfer # NoTransfer, NEW S \in SUBSET transfer.area, Sd!Move(S)
    PROVE  /\ transfer' = NoTransfer /\ S \subseteq Sectors
           /\ disk' \in [Sectors -> Values]
           /\ scratch' \in Values \union {Blank}
           /\ at # "idle" => memory' \in [request.area -> Values \union {Blank}]
           /\ at # "idle" /\ request.op = "write" => memory' = memory
           /\ transfer.op = "write" =>
                /\ memory' = memory /\ scratch' = scratch
                /\ \A s \in Sectors \ S : disk'[s] = disk[s]
                /\ \A s \in S : disk'[s] = IF transfer.fast THEN memory[s] ELSE scratch
           /\ transfer.op = "read" =>
                /\ disk' = disk
                /\ transfer.fast = TRUE => \A s \in S : memory'[s] = disk[s]
                /\ transfer.fast = FALSE => memory' = memory /\ (S = {sector} => scratch' = disk[sector])
<1>1. transfer \in SdTransfers /\ transfer.op \in {"read", "write"} /\ transfer.fast \in BOOLEAN
      /\ transfer.area \in SUBSET Sectors
  <2>1. transfer \in SdTransfers
    BY DEF CardInv, CardTypes
  <2> QED BY <2>1, Zenon DEF SdTransfers
<1>2. S \subseteq Sectors /\ transfer' = NoTransfer
  BY <1>1 DEF Sd!Move
<1>3. disk \in [Sectors -> Values] /\ scratch \in Values \union {Blank}
      /\ (at # "idle" => /\ memory \in [request.area -> Values \union {Blank}]
                         /\ request.area \subseteq Sectors /\ sector \in request.area /\ sector \in Nat)
  BY CardFacts DEF CardInv, CardTypes
<1>4. \/ /\ at \in {"clear", "wait"} /\ transfer.op = request.op /\ transfer.fast = fast
         /\ transfer.area = IF fast THEN request.area ELSE {sector}
      \/ at \in {"idle", "check"} /\ transfer.op = "write" /\ transfer.fast = FALSE
  BY DEF CardInv, TransferOK
<1>5. CASE transfer.op = "write"
  <2>1. /\ disk' = [s \in Sectors |->
                  IF s \notin S THEN disk[s] ELSE IF transfer.fast THEN memory[s] ELSE scratch]
        /\ memory' = memory /\ scratch' = scratch
    BY <1>5 DEF Sd!Move
  <2>2. transfer.fast => memory \in [request.area -> Values] /\ S \subseteq request.area
    BY <1>1, <1>4, <1>5 DEF CardInv, CardTypes
  <2>3. ~transfer.fast => scratch \in Values
    BY <1>1, <1>5 DEF CardInv, CardTypes
  <2>4. \A s \in Sectors : disk'[s] \in Values
    BY <1>3, <2>1, <2>2, <2>3
  <2>5. disk' \in [Sectors -> Values]
    BY <2>1, <2>4
  <2> QED BY <1>2, <1>3, <1>5, <2>1, <2>5
<1>6. CASE transfer.op = "read"
  <2>1. /\ scratch' = IF transfer.fast \/ S = {} THEN scratch ELSE disk[Sd!First(S)]
        /\ memory' = IF transfer.fast THEN [s \in DOMAIN memory |->
                             IF s \in S THEN disk[s] ELSE memory[s]] ELSE memory
        /\ disk' = disk
    BY <1>6 DEF Sd!Move
  <2>2. at \in {"clear", "wait"} /\ request.op = "read"
        /\ transfer.area = (IF transfer.fast THEN request.area ELSE {sector})
    BY <1>4, <1>6
  <2>3. ASSUME transfer.fast
        PROVE  /\ memory' \in [request.area -> Values \union {Blank}] /\ scratch' = scratch
               /\ \A s \in S : memory'[s] = disk[s]
    BY <1>2, <1>3, <2>1, <2>2, <2>3
  <2>4. ASSUME ~transfer.fast
        PROVE  memory' = memory /\ scratch' \in Values \union {Blank}
               /\ (S = {sector} => scratch' = disk[sector])
    <3>1. S = {} \/ S = {sector}
      BY <2>2, <2>4
    <3>2. sector \in Nat /\ sector \in Sectors
      BY <1>3, <2>2
    <3>3. Sd!First({sector}) = sector
      BY <3>2, FirstIs
    <3>4. S = {sector} => scratch' = disk[sector]
      BY <2>1, <2>4, <3>3
    <3> QED BY <1>3, <2>1, <2>4, <3>1, <3>2, <3>4
  <2> QED BY <1>1, <1>2, <1>3, <1>6, <2>1, <2>2, <2>3, <2>4
<1> QED BY <1>1, <1>5, <1>6

\* What a transfer that goes on without its end leaves: the flag it would set,
\* and the data where it went.
LEMMA CardMoved ==
    ASSUME CardInv, transfer # NoTransfer, NEW S \in SUBSET transfer.area, Sd!Move(S),
           UNCHANGED <<request, fast, result, at, sector>>,
           readStatus' \in BOOLEAN, writeStatus' \in BOOLEAN,
           readStatus' => transfer.op = "read" /\ S = transfer.area,
           writeStatus' => writeStatus \/ (transfer.op = "write" /\ S = transfer.area),
           at = "check" /\ fast /\ request.op = "write" => writeStatus' = writeStatus
    PROVE  CardInv'
<1>1. /\ transfer' = NoTransfer /\ S \subseteq Sectors
      /\ disk' \in [Sectors -> Values] /\ scratch' \in Values \union {Blank}
      /\ at # "idle" => memory' \in [request.area -> Values \union {Blank}]
      /\ at # "idle" /\ request.op = "write" => memory' = memory
      /\ transfer.op = "write" =>
           /\ memory' = memory /\ scratch' = scratch
           /\ \A s \in Sectors \ S : disk'[s] = disk[s]
           /\ \A s \in S : disk'[s] = IF transfer.fast THEN memory[s] ELSE scratch
      /\ transfer.op = "read" =>
           /\ disk' = disk
           /\ transfer.fast = TRUE => \A s \in S : memory'[s] = disk[s]
           /\ transfer.fast = FALSE => memory' = memory /\ (S = {sector} => scratch' = disk[sector])
  BY CardMove
<1>2. /\ at \in {"idle", "check", "clear", "wait"} /\ ~readStatus /\ fast \in BOOLEAN
      /\ transfer.op \in {"read", "write"}
      /\ at \in {"idle", "check"} => transfer.op = "write"
      /\ at \in {"clear", "wait"} => /\ transfer.op = request.op /\ transfer.fast = fast
                                     /\ transfer.area = IF fast THEN request.area ELSE {sector}
      /\ at = "clear" => fast /\ request.op = "read"
      /\ at = "wait" /\ request.op = "write" => ~writeStatus
      /\ at \in {"check", "start"} /\ fast /\ request.op = "write" => ~writeStatus
  <2>1. at # "idle" => request.op \in {"read", "write"}
    BY CardFacts
  <2> QED BY <2>1 DEF CardInv, CardTypes, TransferOK
<1>3. at # "idle" => /\ request \in SdRequests /\ sector \in request.area
                     /\ request.area \subseteq Sectors /\ request.area \subseteq Nat
                     /\ request.op \in {"read", "write"} /\ sector \in Nat
  BY CardFacts
<1>4. CardTypes'
  BY <1>1, <1>2, <1>3 DEF CardInv, CardTypes, Started
<1>5. TransferOK'
  BY <1>1, <1>2, <1>3 DEF CardInv, TransferOK
<1>6. DataOK'
  <2>w. at = "wait" => /\ transfer.op = request.op /\ transfer.fast = fast
                       /\ transfer.area = (IF fast THEN request.area ELSE {sector})
    BY <1>2
  <2>1. CASE at \in {"idle", "check", "clear"}
    BY <1>2, <2>1 DEF DataOK, Started
  <2>2. CASE at = "wait" /\ request.op = "read"
    <3>w. transfer.op = "read"
      BY <2>w, <2>2
    <3>1. /\ disk' = disk
          /\ transfer.fast = TRUE => \A s \in S : memory'[s] = disk[s]
          /\ transfer.fast = FALSE => memory' = memory /\ (S = {sector} => scratch' = disk[sector])
      BY <1>1, <3>w, Zenon
    <3>2. CASE fast
      <4>1. transfer.fast = TRUE /\ transfer.area = request.area
        BY <2>w, <2>2, <3>2, <1>2
      <4>2. readStatus' => Agree(request.area)'
        BY <3>1, <4>1 DEF Agree
      <4> QED BY <1>2, <2>2, <3>2, <4>2 DEF DataOK, Started
    <3>3. CASE ~fast
      <4>0. transfer.fast = FALSE /\ transfer.area = {sector}
        BY <2>w, <2>2, <3>3, <1>2
      <4>1. memory' = memory
        BY <3>1, <4>0
      <4>2. Agree({s \in request.area : s < sector})'
        BY <2>2, <3>1, <3>3, <4>1 DEF CardInv, DataOK, Agree, Started
      <4>3. readStatus' => disk'[sector] = scratch'
        BY <3>1, <4>0
      <4> QED BY <1>2, <2>2, <3>3, <4>2, <4>3 DEF DataOK, Started
    <3> QED BY <3>2, <3>3
  <2>3. CASE at = "wait" /\ request.op = "write"
    <3>1. transfer.op = "write" /\ memory' = memory /\ scratch' = scratch /\ ~writeStatus
      BY <1>1, <1>2, <2>3
    <3>w. \A s \in S : disk'[s] = IF transfer.fast THEN memory[s] ELSE scratch
      BY <1>1, <3>1, Zenon
    <3>2. CASE fast
      <4>1. transfer.fast = TRUE /\ transfer.area = request.area
        BY <2>w, <2>3, <3>2, <1>2
      <4>2. writeStatus' => \A s \in request.area : disk'[s] = memory[s]
        BY <3>1, <3>w, <4>1
      <4>3. writeStatus' => Agree(request.area)'
        BY <3>1, <4>2 DEF Agree
      <4> QED BY <1>2, <2>3, <3>2, <4>3 DEF DataOK, Started
    <3>3. CASE ~fast
      <4>1. scratch = memory[sector] /\ S \subseteq {sector} /\ sector \in Sectors
        BY <1>2, <1>3, <2>3, <3>3 DEF CardInv, DataOK
      <4>2. \A s \in request.area : s < sector => disk'[s] = memory[s]
        <5>1. SUFFICES ASSUME NEW s \in request.area, s < sector PROVE disk'[s] = memory[s]
          OBVIOUS
        <5>2. s \notin S /\ s \in Sectors
          BY <1>3, <2>3, <4>1, <5>1
        <5>3. disk[s] = memory[s]
          BY <2>3, <3>3, <5>1 DEF CardInv, DataOK, Agree, Started
        <5> QED BY <1>1, <3>1, <5>2, <5>3
      <4>3. Agree({s \in request.area : s < sector})'
        BY <3>1, <4>2 DEF Agree
      <4>4. writeStatus' => disk'[sector] = memory[sector]
        <5>1. transfer.fast = FALSE /\ transfer.area = {sector}
          BY <2>w, <2>3, <3>3, <1>2
        <5>2. writeStatus' => disk'[sector] = scratch
          BY <3>1, <3>w, <5>1
        <5> QED BY <4>1, <5>2
      <4> QED BY <1>2, <2>3, <3>1, <3>3, <4>1, <4>3, <4>4 DEF DataOK, Started
    <3> QED BY <3>2, <3>3
  <2> QED BY <1>2, <1>3, <2>1, <2>2, <2>3
<1> QED BY <1>4, <1>5, <1>6 DEF CardInv

\* A transfer is over.
LEMMA CardComplete ==
    ASSUME CardInv, Sd!Complete, "late_in_check" \notin SdRaces PROVE CardInv'
<1>1. /\ transfer # NoTransfer /\ Sd!Move(transfer.area)
      /\ ~(at = "check" /\ fast /\ request.op # "read")
      /\ readStatus' = (readStatus \/ transfer.op = "read")
      /\ writeStatus' = (writeStatus \/ transfer.op = "write")
      /\ UNCHANGED <<request, fast, result, at, sector>>
  BY DEF Sd!Complete, Sd!Idle, Sd!Reads
<1>2. ~readStatus /\ readStatus' \in BOOLEAN /\ writeStatus' \in BOOLEAN
  BY <1>1 DEF CardInv, CardTypes, TransferOK
<1>3. transfer.area \in SUBSET transfer.area
  OBVIOUS
<1> QED BY <1>1, <1>2, <1>3, CardMoved

\* A transfer ends in an error.
LEMMA CardError == ASSUME CardInv, Sd!Error PROVE CardInv'
<1>1. PICK S \in SUBSET transfer.area : Sd!Move(S)
  BY DEF Sd!Error
<1>2. transfer # NoTransfer /\ UNCHANGED <<readStatus, writeStatus, request, fast, result, at, sector>>
  BY DEF Sd!Error, Sd!Idle, Sd!flags
<1>3. ~readStatus /\ readStatus' \in BOOLEAN /\ writeStatus' \in BOOLEAN
  BY <1>2 DEF CardInv, CardTypes, TransferOK
<1> QED BY <1>1, <1>2, <1>3, CardMoved

\* The steps of the caller, seen at the interface of the block device.
LEMMA CallIsBlock ==
    ASSUME CardInv, NEW area \in Areas, NoRequest \notin SdRequests
    PROVE  /\ Sd!Call("read", [s \in area |-> Blank]) => Sd!Device!Read(area)
           /\ \A f \in [area -> Values] : Sd!Call("write", f) => Sd!Device!Write(f)
<1> USE DEF Sd!UnderWay, Sd!Asked, Sd!Idle, Sd!Reads
<1>1. /\ [op |-> "read", area |-> area] # NoRequest
      /\ [op |-> "write", area |-> area] # NoRequest
  BY DEF SdRequests
<1>2. at = "idle" => request = NoRequest
  BY DEF CardInv, CardTypes
<1>3. ASSUME Sd!Call("read", [s \in area |-> Blank]) PROVE Sd!Device!Read(area)
  <2>1. /\ at = "idle" /\ request' = [op |-> "read", area |-> area]
        /\ memory' = [s \in area |-> Blank] /\ result' = "none"
        /\ UNCHANGED <<disk, transfer, scratch>>
    BY <1>3 DEF Sd!Call
  <2> QED BY <1>1, <1>2, <2>1 DEF Sd!Device!Read
<1>4. ASSUME NEW f \in [area -> Values], Sd!Call("write", f) PROVE Sd!Device!Write(f)
  <2>1. /\ at = "idle" /\ request' = [op |-> "write", area |-> area] /\ DOMAIN f = area
        /\ memory' = f /\ result' = "none" /\ UNCHANGED <<disk, transfer, scratch>>
    BY <1>4 DEF Sd!Call
  <2>2. Sd!Asked = {} /\ Sd!Asked' = {<<s, f[s]>> : s \in DOMAIN f} /\ Sd!UnderWay' = Sd!UnderWay
    BY <1>1, <1>2, <2>1
  <2>3. (Sd!UnderWay \union Sd!Asked)' = (Sd!UnderWay \union Sd!Asked) \union Sd!Device!Pairs(f)
    BY <2>2 DEF Sd!Device!Pairs
  <2> QED BY <1>2, <2>1, <2>3 DEF Sd!Device!Write
<1> QED BY <1>3, <1>4

\* A call that fails gives up what it asked for, and may leave what is under way.
LEMMA ErrorIsBlock ==
    ASSUME CardInv, at # "idle", Sd!Return("error"), UNCHANGED <<disk, transfer>>,
           transfer # NoTransfer => scratch' = scratch
    PROVE  Sd!Device!Fail
<1> USE DEF Sd!UnderWay, Sd!Asked, Sd!Idle, Sd!Reads
<1>1. request # NoRequest
  BY DEF CardInv, CardTypes
<1>2. request' = NoRequest /\ memory' = <<>> /\ result' = "error"
  BY DEF Sd!Return
<1>3. Sd!UnderWay' = Sd!UnderWay /\ Sd!Asked' = {}
  BY <1>2
<1> QED BY <1>1, <1>2, <1>3 DEF Sd!Device!Fail

\* Starting a transfer shows nothing, unless it is refused.
LEMMA StartIsBlock ==
    ASSUME CardInv, Sd!Start
    PROVE  Sd!Device!Fail \/ UNCHANGED Sd!Device!vars
<1> USE DEF Sd!UnderWay, Sd!Asked, Sd!Idle, Sd!Reads
<1>1. /\ at = "start" /\ UNCHANGED disk
      /\ scratch' = IF fast \/ request.op = "read" THEN scratch ELSE memory[sector]
  BY DEF Sd!Start
<1>2. transfer = NoTransfer /\ request \in SdRequests /\ sector \in request.area
      /\ request.op \in {"read", "write"} /\ request # NoRequest
  BY <1>1, CardFacts DEF CardInv, TransferOK
<1>3. CASE Sd!Return("error") /\ UNCHANGED transfer
  BY <1>1, <1>2, <1>3, ErrorIsBlock
<1>4. CASE /\ transfer' = [op |-> request.op, area |-> IF fast THEN request.area ELSE {sector},
                           fast |-> fast]
           /\ UNCHANGED <<request, fast, memory, result, sector>>
  <2>1. Sd!Asked' = Sd!Asked /\ Sd!UnderWay = {}
    BY <1>2, <1>4
  <2>2. Sd!UnderWay' \subseteq Sd!Asked
    <3>1. CASE request.op = "write" /\ ~fast
      <4>1. transfer'.op = "write" /\ transfer'.area = {sector} /\ scratch' = memory[sector]
        BY <1>1, <1>4, <3>1
      <4> QED BY <1>2, <3>1, <4>1
    <3>2. CASE request.op = "read" \/ fast
      BY <1>4, <3>2
    <3> QED BY <1>2, <3>1, <3>2
  <2>3. (Sd!UnderWay \union Sd!Asked)' = Sd!UnderWay \union Sd!Asked
    BY <2>1, <2>2
  <2> QED BY <1>1, <1>4, <2>3 DEF Sd!Device!vars
<1> QED BY <1>3, <1>4 DEF Sd!Start

\* Waiting shows nothing but the sector that is copied.
LEMMA WaitIsBlock ==
    ASSUME CardInv, Sd!Wait
    PROVE  Sd!Device!Fill \/ UNCHANGED Sd!Device!vars
<1> USE DEF Sd!UnderWay, Sd!Asked, Sd!Idle, Sd!Reads
<1>1. /\ at = "wait" /\ UNCHANGED <<disk, transfer, scratch, request, result>>
      /\ \/ memory' = memory
         \/ request.op = "read" /\ memory' = [memory EXCEPT ![sector] = scratch]
  BY DEF Sd!Wait
<1>2. request # NoRequest /\ DOMAIN memory = request.area
  BY <1>1, CardFacts
<1>3. CASE memory' = memory
  BY <1>1, <1>3 DEF Sd!Device!vars
<1>4. CASE request.op = "read" /\ memory' = [memory EXCEPT ![sector] = scratch]
  <2>1. DOMAIN memory' = request.area
    BY <1>2, <1>4
  <2>2. UNCHANGED (Sd!UnderWay \union Sd!Asked)
    BY <1>1, <1>4
  <2> QED BY <1>1, <1>2, <1>4, <2>1, <2>2 DEF Sd!Device!Fill
<1> QED BY <1>1, <1>3, <1>4

\* A call that is done leaves nothing that may get to the disk.
LEMMA OkIsBlock == ASSUME CardInv, Sd!Ok PROVE Sd!Device!Done
<1> USE DEF Sd!UnderWay, Sd!Asked, Sd!Idle, Sd!Reads
<1>1. /\ at = "done" /\ request' = NoRequest /\ memory' = <<>> /\ result' = "ok"
      /\ UNCHANGED <<disk, transfer>>
  BY DEF Sd!Ok, Sd!Return
<1>2. request # NoRequest /\ transfer = NoTransfer
  BY <1>1, CardOk, CardFacts
<1>3. \A s \in request.area : disk[s] = memory[s]
  BY <1>1 DEF CardInv, DataOK, Agree
<1>4. (Sd!UnderWay \union Sd!Asked)' = {}
  BY <1>1, <1>2
<1> QED BY <1>1, <1>2, <1>3, <1>4 DEF Sd!Device!Done

\* What the card moves was asked for: a write is stored, a read fills the memory.
LEMMA MoveIsBlock ==
    ASSUME CardInv, transfer # NoTransfer, NEW S \in SUBSET transfer.area, Sd!Move(S),
           UNCHANGED <<request, result>>
    PROVE  Sd!Device!Store \/ Sd!Device!Fill \/ UNCHANGED Sd!Device!vars
<1> USE DEF Sd!UnderWay, Sd!Asked, Sd!Idle, Sd!Reads
<1>1. /\ transfer' = NoTransfer /\ S \subseteq Sectors
      /\ disk' \in [Sectors -> Values]
      /\ at # "idle" => memory' \in [request.area -> Values \union {Blank}]
      /\ transfer.op = "write" =>
           /\ memory' = memory /\ scratch' = scratch
           /\ \A s \in Sectors \ S : disk'[s] = disk[s]
           /\ \A s \in S : disk'[s] = IF transfer.fast THEN memory[s] ELSE scratch
      /\ transfer.op = "read" =>
           /\ disk' = disk
           /\ transfer.fast = FALSE => memory' = memory
  BY CardMove
<1>2. transfer.op \in {"read", "write"} /\ transfer.fast \in BOOLEAN
  BY Zenon DEF CardInv, CardTypes, SdTransfers
<1>3. /\ transfer.op = "read" \/ transfer.fast = TRUE =>
            /\ at # "idle" /\ request # NoRequest /\ request.op = transfer.op
            /\ transfer.fast = TRUE => transfer.area = request.area
  BY DEF CardInv, CardTypes, TransferOK
<1>4. Sd!UnderWay' = {}
  BY <1>1
<1>5. CASE transfer.op = "write"
  <2>1. Sd!Asked' = Sd!Asked
    BY <1>1, <1>5
  <2>2. ASSUME NEW s \in Sectors, disk'[s] # disk[s]
        PROVE  <<s, disk'[s]>> \in Sd!UnderWay \union Sd!Asked
    <3>1. s \in S /\ disk'[s] = IF transfer.fast THEN memory[s] ELSE scratch
      BY <1>1, <1>5, <2>2
    <3>2. CASE transfer.fast = TRUE
      <4>1. s \in request.area /\ request # NoRequest /\ request.op = "write"
        BY <1>3, <1>5, <3>1, <3>2
      <4> QED BY <3>1, <3>2, <4>1
    <3>3. CASE transfer.fast = FALSE
      BY <1>5, <3>1, <3>3
    <3> QED BY <1>2, <3>2, <3>3
  <2> QED BY <1>1, <1>4, <1>5, <2>1, <2>2 DEF Sd!Device!Store
<1>6. CASE transfer.op = "read"
  <2>1. /\ at # "idle" /\ request # NoRequest /\ request.op = "read"
    BY <1>3, <1>6
  <2>2. UNCHANGED (Sd!UnderWay \union Sd!Asked)
    BY <1>4, <1>6, <2>1
  <2>3. DOMAIN memory' = request.area /\ disk' = disk
    BY <1>1, <1>6, <2>1
  <2> QED BY <2>1, <2>2, <2>3 DEF Sd!Device!Fill
<1> QED BY <1>2, <1>5, <1>6

\* Every step of the driver and of the card is a step of the block device, or
\* shows nothing, and keeps the invariant.
LEMMA CardStep ==
    ASSUME CardInv, [Sd!Next]_(Sd!vars), SdRaces \subseteq {"late_write"},
           NoRequest \notin SdRequests
    PROVE  CardInv' /\ [Sd!Device!Next]_(Sd!Device!vars)
<1>r. "late_read" \notin SdRaces /\ "late_in_check" \notin SdRaces
  OBVIOUS
<1>1. ASSUME NEW area \in Areas, Sd!Call("read", [s \in area |-> Blank])
      PROVE  CardInv' /\ Sd!Device!Next
  <2>1. area \in SUBSET Sectors /\ [s \in area |-> Blank] \in [area -> Values \union {Blank}]
    BY TransfersAssumption DEF TransfersAssumption
  <2>2. CardInv'
    BY <1>1, <2>1, CardCall
  <2>3. Sd!Device!Read(area)
    BY <1>1, CallIsBlock
  <2> QED BY <2>1, <2>2, <2>3 DEF Sd!Device!Next
<1>2. ASSUME NEW area \in Areas, NEW f \in [area -> Values], Sd!Call("write", f)
      PROVE  CardInv' /\ Sd!Device!Next
  <2>1. area \in SUBSET Sectors /\ f \in [area -> Values \union {Blank}]
    BY TransfersAssumption DEF TransfersAssumption
  <2>2. CardInv'
    BY <1>2, <2>1, CardCall
  <2>3. Sd!Device!Write(f)
    BY <1>2, CallIsBlock
  <2> QED BY <2>1, <2>2, <2>3 DEF Sd!Device!Next
<1>3. CASE Sd!Check
  <2>1. at # "idle" /\ UNCHANGED <<disk, transfer, scratch>>
        /\ (Sd!Return("error") \/ UNCHANGED <<request, memory, result>>)
    BY <1>3 DEF Sd!Check
  <2>2. CASE Sd!Return("error")
    BY <1>3, <2>1, <2>2, CardCheck, ErrorIsBlock DEF Sd!Device!Next
  <2>3. CASE UNCHANGED <<request, memory, result>>
    BY <1>3, <2>1, <2>3, CardCheck
       DEF Sd!Device!vars, Sd!UnderWay, Sd!Asked, Sd!Idle, Sd!Reads
  <2> QED BY <2>1, <2>2, <2>3
<1>4. CASE Sd!Start
  BY <1>4, CardStart, StartIsBlock DEF Sd!Device!Next
<1>5. CASE Sd!Clear
  <2>1. UNCHANGED <<disk, transfer, scratch, request, memory, result>>
    BY <1>5 DEF Sd!Clear
  <2> QED BY <1>5, <2>1, CardClear DEF Sd!Device!vars, Sd!UnderWay, Sd!Asked, Sd!Idle, Sd!Reads
<1>6. CASE Sd!Wait
  BY <1>6, CardWait, WaitIsBlock DEF Sd!Device!Next
<1>7. CASE Sd!TimeOut
  <2>1. at # "idle" /\ Sd!Return("error") /\ UNCHANGED <<disk, transfer, scratch>>
    BY <1>7 DEF Sd!TimeOut
  <2> QED BY <1>r, <1>7, <2>1, CardTimeOut, ErrorIsBlock DEF Sd!Device!Next
<1>8. CASE Sd!Ready
  <2>1. at # "idle" /\ UNCHANGED <<disk, transfer, scratch>>
        /\ (Sd!Return("error") \/ UNCHANGED <<request, memory, result>>)
    BY <1>8 DEF Sd!Ready
  <2>2. CASE Sd!Return("error")
    BY <1>8, <2>1, <2>2, CardReady, ErrorIsBlock DEF Sd!Device!Next
  <2>3. CASE UNCHANGED <<request, memory, result>>
    BY <1>8, <2>1, <2>3, CardReady
       DEF Sd!Device!vars, Sd!UnderWay, Sd!Asked, Sd!Idle, Sd!Reads
  <2> QED BY <2>1, <2>2, <2>3
<1>9. CASE Sd!Ok
  BY <1>9, CardOk, OkIsBlock DEF Sd!Device!Next
<1>10. CASE Sd!Complete
  <2>1. transfer # NoTransfer /\ Sd!Move(transfer.area) /\ UNCHANGED <<request, result>>
        /\ transfer.area \in SUBSET transfer.area
    BY <1>10 DEF Sd!Complete, Sd!Idle
  <2> QED BY <1>r, <1>10, <2>1, CardComplete, MoveIsBlock DEF Sd!Device!Next
<1>11. CASE Sd!Error
  <2>1. PICK S \in SUBSET transfer.area : Sd!Move(S)
    BY <1>11 DEF Sd!Error
  <2>2. transfer # NoTransfer /\ UNCHANGED <<request, result>>
    BY <1>11 DEF Sd!Error, Sd!Idle
  <2> QED BY <1>11, <2>1, <2>2, CardError, MoveIsBlock DEF Sd!Device!Next
<1>12. CASE UNCHANGED Sd!vars
  <2>1. UNCHANGED <<disk, transfer, readStatus, writeStatus, scratch, request, fast, memory, result, at, sector>>
    BY <1>12 DEF Sd!vars, Sd!flags, Sd!call
  <2>2. CardInv'
    BY <2>1 DEF CardInv, CardTypes, TransferOK, DataOK, Agree
  <2> QED BY <2>1, <2>2 DEF Sd!Device!vars, Sd!UnderWay, Sd!Asked, Sd!Idle, Sd!Reads
<1> QED BY <1>1, <1>2, <1>3, <1>4, <1>5, <1>6, <1>7, <1>8, <1>9, <1>10, <1>11, <1>12 DEF Sd!Next

\* The driver of the card is the block device of FatFs for any sectors, areas and
\* values, when a write that was given up goes on and completes at any moment but
\* one: whatever fails, a call that is done has moved its data, and what was
\* given up gets to the card only before that.
THEOREM CardIsBlockDevice ==
    ASSUME SdRaces \subseteq {"late_write"}, NoRequest \notin SdRequests
    PROVE  Sd!Spec => IsBlockDevice
<1>1. Sd!Init => CardInv /\ Sd!Device!Init
  BY CardInit DEF Sd!Init, Sd!Device!Init, Sd!UnderWay, Sd!Asked, Sd!Idle, Sd!Reads
<1>2. CardInv /\ [Sd!Next]_(Sd!vars) => CardInv' /\ [Sd!Device!Next]_(Sd!Device!vars)
  BY CardStep
<1> QED BY <1>1, <1>2, PTL DEF Sd!Spec, IsBlockDevice, Sd!IsBlockDevice, Sd!Device!Spec

-----------------------------------------------------------------------------
(* The types of the five devices.                                          *)

\* The types of the bus.
LEMMA I2cTypes == ASSUME I2cTypeOK, [I2cNext]_i2cVars PROVE I2cTypeOK'
<1> USE DEF wire, rx, hist, Return
<1>b. awaitRx \in BOOLEAN /\ begun \in BOOLEAN /\ returned \in BOOLEAN
  BY Zenon DEF I2cTypeOK
<1>t. /\ keycode \in Keys \union {0} /\ keypad \in Keypads \union {0}
      /\ keyFor \in Keypads \union {0} /\ told \in Keypads \union {0}
      /\ bus \in {"none", "send", "receive", "key"}
      /\ i2cAt \in {"idle", "ready", "start", "store", "wait"} /\ wish \in Wishes \union {NoCall}
  BY DEF I2cTypeOK
<1>w. \A w \in Wishes \union {NoCall} :
        w.for \in Keypads \union {0} /\ w.op \in {"send", "receive", "probe", "key", "none"}
  <2>1. \A w \in Wishes : w.for \in Keypads \union {0} /\ w.op \in {"send", "receive", "probe", "key"}
    BY DEF Wishes
  <2>2. NoCall.for = 0 /\ NoCall.op = "none"
    BY DEF NoCall
  <2> QED BY <2>1, <2>2
<1> DEFINE Bools  == awaitRx' \in BOOLEAN /\ begun' \in BOOLEAN /\ returned' \in BOOLEAN
           Others == /\ keycode' \in Keys \union {0} /\ keypad' \in Keypads \union {0}
                     /\ keyFor' \in Keypads \union {0} /\ told' \in Keypads \union {0}
                     /\ bus' \in {"none", "send", "receive", "key"}
                     /\ i2cAt' \in {"idle", "ready", "start", "store", "wait"}
                     /\ wish' \in Wishes \union {NoCall}
<1> SUFFICES Bools /\ Others
  BY Zenon DEF I2cTypeOK
<1>1. ASSUME NEW w \in Wishes, Call(w) PROVE Bools /\ Others
  BY <1>1, <1>b, <1>t DEF Call
<1>2. CASE Ready
  BY <1>2, <1>b, <1>t DEF Ready
<1>3. CASE GiveUp
  <2>1. Bools
    BY <1>3, <1>b, Zenon DEF GiveUp
  <2>2. Others
    BY <1>3, <1>t DEF GiveUp
  <2> QED BY <2>1, <2>2
<1>4. CASE Start
  <2>1. Bools
    <3>1. awaitRx' = awaitRx \/ awaitRx' = (awaitRx /\ ~Receives)
      BY <1>4 DEF Start
    <3>2. returned' = returned \/ \E ok \in BOOLEAN : returned' = (ok /\ bus = "none" /\ wish.op = "probe")
      BY <1>4 DEF Start
    <3> QED BY <1>4, <1>b, <3>1, <3>2, Zenon DEF Start
  <2>2. Others
    <3>1. CASE /\ bus = "none" /\ wish.op # "probe"
               /\ bus' = wish.op /\ i2cAt' = "store" /\ keyFor' = wish.for
               /\ UNCHANGED <<awaitRx, wish, returned>>
      <4>1. wish.op \in {"none", "send", "receive", "key"} /\ wish.for \in Keypads \union {0}
        BY <1>t, <1>w, <3>1
      <4> QED BY <1>4, <1>t, <3>1, <4>1 DEF Start
    <3>2. CASE /\ \E ok \in BOOLEAN : Return(ok /\ bus = "none" /\ wish.op = "probe")
               /\ awaitRx' = (awaitRx /\ ~Receives)
               /\ UNCHANGED <<bus, keyFor>>
      BY <1>4, <1>t, <3>2 DEF Start
    <3> QED BY <1>4, <3>1, <3>2 DEF Start
  <2> QED BY <2>1, <2>2
<1>5. CASE Store
  <2>1. Bools
    <3>1. awaitRx' = (awaitRx \/ Receives) /\ begun' = begun
          /\ (returned' = returned \/ returned' = TRUE)
      BY <1>5, Zenon DEF Store, Awaited
    <3> QED BY <1>b, <3>1, Zenon DEF Receives
  <2>2. Others
    BY <1>5, <1>t, <1>w DEF Store
  <2> QED BY <2>1, <2>2
<1>6. CASE Wait
  BY <1>6, <1>b, <1>t DEF Wait
<1>7. CASE Begin
  BY <1>7, <1>b, <1>t DEF Begin
<1>8. CASE Sent
  BY <1>8, <1>b, <1>t DEF Sent, Ends
<1>9. CASE Failed
  BY <1>9, <1>b, <1>t DEF Failed, Ends
<1>10. ASSUME NEW code \in Keys \union {0}, Received(code) PROVE Bools /\ Others
  BY <1>10, <1>b, <1>t DEF Received, Called, Ends
<1>11. CASE UNCHANGED i2cVars
  BY <1>11, <1>b, <1>t DEF i2cVars
<1> QED BY <1>1, <1>2, <1>3, <1>4, <1>5, <1>6, <1>7, <1>8, <1>9, <1>10, <1>11 DEF I2cNext

\* The types of the settings.
LEMMA FlashTypes == ASSUME FlashInv, FlashTypeOK, [FlashNext]_flashVars, Words \in Nat \ {0}
                    PROVE  FlashTypeOK'
<1>1. FlashInv'
  BY FlashStep
<1>2. Images \subseteq [Address -> Contents \union {Erased, Junk}]
  BY DEF Images
<1>3. old' \in [Address -> Contents \union {Erased, Junk}] /\ new' \in [Address -> Contents \union {Erased, Junk}]
      /\ saved' \in {"none", "ok", "error"}
  BY <1>2 DEF FlashTypeOK, FlashNext, Change, Save, Erase, Program, PowerLoss, End, flashVars
<1> QED BY <1>1, <1>3 DEF FlashInv, FlashTypeOK

\* The types of the filters.
LEMMA CanTypes == ASSUME CanInv, CanTypeOK, [CanNext]_canVars, MaxFilters \in Nat
                  PROVE  CanTypeOK'
<1>1. CanInv' /\ Entries' \subseteq Indices
  BY CanStep DEF CanInv, Entries, Indices
<1>2. newMessage \in BOOLEAN /\ inCallback \in BOOLEAN /\ adding \in Owners \union {0}
  BY Zenon DEF CanTypeOK
<1>3. adding' \in Owners \union {0} /\ newMessage' \in BOOLEAN /\ inCallback' \in BOOLEAN
  BY <1>2 DEF CanNext, AddFilter, Frame, ConfigFilter, Interrupt, RxFrame, RxDone, canVars
<1>4. /\ index' \in 0..MaxFilters /\ filters' \subseteq Indices /\ fifo' \in Seq(Indices)
      /\ owner' \in [Indices -> Owners \union {0}] /\ rxCallbacks' \in [Indices -> Owners \union {0}]
  <2>1. fifo' \in Seq(Entries') /\ Entries' \subseteq Indices
    BY <1>1 DEF CanInv
  <2>2. fifo' \in Seq(Indices)
    BY <2>1
  <2> QED BY <1>1, <2>2 DEF CanInv
<1> QED BY <1>3, <1>4, Zenon DEF CanTypeOK, Indices

\* The types of the strip.
LEMMA LedsTypes == ASSUME LedsInv, LedsTypeOK, [LedsNext]_ledsVars, Lengths \subseteq Nat \ {0}
                   PROVE  LedsTypeOK'
<1>1. LedsInv'
  BY LedsStep
<1>2. bright \in BOOLEAN /\ writing \in BOOLEAN /\ changed \in BOOLEAN
  BY Zenon DEF LedsTypeOK
<1>3. bright' \in BOOLEAN /\ writing' \in BOOLEAN /\ changed' \in BOOLEAN
  BY <1>2, Zenon DEF LedsNext, Out, Show, SetIntensity, Repack, Write, Dma, ledsVars
<1> QED BY <1>1, <1>3, Zenon DEF LedsInv, LedsTypeOK

\* The types of the card follow from its invariant.
LEMMA CardTypesOK == CardInv => Sd!SdTypeOK
<1> SUFFICES ASSUME CardInv PROVE Sd!SdTypeOK
  OBVIOUS
<1>1. readStatus \in BOOLEAN /\ writeStatus \in BOOLEAN /\ fast \in BOOLEAN
  BY Zenon DEF CardInv, CardTypes
<1>2. {readStatus, writeStatus, fast} \subseteq BOOLEAN
  BY <1>1, Zenon
<1>3. request # NoRequest => memory \in [request.area -> Values \union {Blank}]
  BY DEF CardInv, CardTypes
<1> QED BY <1>2, <1>3 DEF CardInv, CardTypes, Started, Sd!SdTypeOK

\* What the types of the five devices rest on.
DevicesInv ==
    /\ CardInv /\ I2cTypeOK /\ FlashInv /\ FlashTypeOK
    /\ CanInv /\ CanTypeOK /\ LedsInv /\ LedsTypeOK

\* Every step of one of them keeps it.
LEMMA DevicesStep ==
    ASSUME DevicesInv, [Next]_vars, SdRaces \subseteq {"late_write"}, NoRequest \notin SdRequests
    PROVE  DevicesInv'
<1>0. Words \in Nat \ {0} /\ MaxFilters \in Nat /\ Lengths \subseteq Nat \ {0}
  BY TransfersAssumption DEF TransfersAssumption
<1>1. /\ [Sd!Next]_(Sd!vars) /\ [I2cNext]_i2cVars /\ [FlashNext]_flashVars
      /\ [CanNext]_canVars /\ [LedsNext]_ledsVars
  BY DEF Next, Runs, vars, sdVars, Sd!vars, Sd!flags, Sd!call, i2cVars, flashVars, canVars, ledsVars
<1> QED BY <1>0, <1>1, CardStep, I2cTypes, FlashStep, FlashTypes, CanStep, CanTypes, LedsStep, LedsTypes
        DEF DevicesInv

\* Every variable of the storage and the buses keeps its type.
THEOREM DeviceTypesHold ==
    ASSUME SdRaces \subseteq {"late_write"}, NoRequest \notin SdRequests
    PROVE  Spec => []TypesOK
<1>0. Words \in Nat \ {0} /\ MaxFilters \in Nat /\ Lengths \subseteq Nat \ {0}
  BY TransfersAssumption DEF TransfersAssumption
<1>1. Init => DevicesInv
  <2> SUFFICES ASSUME Init PROVE DevicesInv
    OBVIOUS
  <2>1. CardInv
    BY CardInit DEF Init
  <2>2. I2cTypeOK
    BY Zenon DEF Init, I2cInit, I2cTypeOK
  <2>3. FlashInv /\ FlashTypeOK
    BY <1>0 DEF Init, FlashInit, FlashInv, FlashTypeOK, Holds, Images, Address
  <2>4. CanInv /\ CanTypeOK
    <3>1. index = 0 /\ Entries = {} /\ fifo \in Seq(Entries) /\ fifo \in Seq(Indices)
      BY DEF Init, CanInit, Entries
    <3>2. newMessage \in BOOLEAN /\ inCallback \in BOOLEAN
      BY Zenon DEF Init, CanInit
    <3> QED BY <1>0, <3>1, <3>2 DEF Init, CanInit, CanInv, CanTypeOK, Indices
  <2>5. LedsInv /\ LedsTypeOK
    <3>1. bright \in BOOLEAN /\ writing \in BOOLEAN /\ changed \in BOOLEAN
      BY Zenon DEF Init, LedsInit
    <3>2. LedsInv
      BY <1>0 DEF Init, LedsInit, LedsInv
    <3> QED BY <3>1, <3>2, Zenon DEF LedsInv, LedsTypeOK
  <2> QED BY <2>1, <2>2, <2>3, <2>4, <2>5 DEF DevicesInv
<1>2. DevicesInv /\ [Next]_vars => DevicesInv'
  BY DevicesStep
<1>3. DevicesInv => TypesOK
  BY CardTypesOK DEF DevicesInv, TypesOK
<1> QED BY <1>1, <1>2, <1>3, PTL DEF Spec
=============================================================================
