----------------------- MODULE SpindleEncoder_proofs -----------------------
(***************************************************************************)
(* Theorems about the instance of SpindleEncoder in MC_Times, for counters *)
(* of any width, any number of pulses and any length of run.  Two          *)
(* interrupts are at most half the range of the counter apart: for 16 bits *)
(* of pulses per revolution tics_per_irq is 2048 at most, the counter      *)
(* wraps at 65536.                                                         *)
(***************************************************************************)
EXTENDS MC_Times, TLAPS

Sizes ==
    /\ Width \in Nat /\ StampWidth \in Nat \ {0} /\ Tics \in Nat \ {0}
    /\ 2 * Tics <= Width

-----------------------------------------------------------------------------
(* The invariant.                                                           *)

EncoderTypes ==
    /\ {count, ccr, cval, lastCount} \subseteq 0..Width - 1
    /\ enabled \in BOOLEAN /\ match \in BOOLEAN /\ wrapped \in BOOLEAN /\ inIrq \in BOOLEAN
    /\ stamp \in 0..StampWidth - 1 /\ stampHigh \in Nat
    /\ {tval, pulseCount, lastPulse, pulses, elapsed, irqAt} \subseteq Nat
    /\ {pulseLength, reported, between} \subseteq Int
    /\ fg \in {"idle", "get", "reset", "stopped", "cleared"}
    /\ fg = "get" => copy.last \in 0..Width - 1 /\ copy.pulses \in Nat

\* The timestamp is the time, from the overflow on that has yet to be handled,
\* and the times kept are those of the pulses handled.
FullStamp == stamp + stampHigh + (IF wrapped THEN StampWidth ELSE 0)

StampsOK ==
    /\ wrapped => stamp = 0
    /\ stampHigh % StampWidth = 0
    /\ fg \notin {"reset", "stopped"} /\ ~inIrq =>
        FullStamp - lastPulse = elapsed - irqAt /\ pulseLength = between
    /\ fg \notin {"reset", "stopped"} /\ inIrq =>
        FullStamp - tval = elapsed - irqAt /\ tval - lastPulse = between

\* The count has not passed the compare value, or it has by less than it takes
\* to the next; the handler has the count of between the two.
CompareOK ==
    /\ enabled <=> fg \notin {"stopped", "cleared"}
    /\ match \/ inIrq => enabled
    /\ fg = "cleared" => lastCount = 0
    /\ enabled => Encoder!Since(ccr, lastCount) \in 1..Tics
    /\ enabled /\ ~match /\ ~inIrq => Encoder!Since(count, lastCount) < Encoder!Since(ccr, lastCount)
    /\ match \/ inIrq => Encoder!Since(count, ccr) < Tics
    /\ inIrq => ~match /\ Encoder!Since(cval, ccr) <= Encoder!Since(count, ccr)

\* The pulses handled, those before the handler's count and those after it are
\* all there were, and so are those of the foreground's copy.
CountsOK ==
    /\ fg = "cleared" => pulseCount = 0
    /\ fg # "cleared" /\ ~inIrq => pulses = pulseCount + Encoder!Since(count, lastCount)
    /\ inIrq => pulses = pulseCount + Encoder!Since(cval, lastCount) + Encoder!Since(count, cval)
    /\ fg = "get" => pulses = copy.pulses + Encoder!Since(count, copy.last)

-----------------------------------------------------------------------------
(* Arithmetic of the counters.                                              *)

\* How far a count is from another one, going up and around.
LEMMA SinceIs ==
    ASSUME Sizes, NEW c \in 0..Width - 1, NEW l \in 0..Width - 1
    PROVE  /\ Encoder!Since(c, l) = IF c >= l THEN c - l ELSE c - l + Width
           /\ Encoder!Since(c, l) \in 0..Width - 1
<1>1. Width \in Nat /\ Width > 0 /\ c - l \in Int /\ c - l < Width /\ c - l > -Width
  BY DEF Sizes
<1>2. \A d \in Int : d < Width /\ d > -Width => d % Width = IF d >= 0 THEN d ELSE d + Width
  BY <1>1
<1>3. Encoder!Since(c, l) = (c - l) % Width
  BY DEF Encoder!Since
<1> QED BY <1>1, <1>2, <1>3

\* The count after a pulse.
LEMMA NextCount ==
    ASSUME Sizes, NEW c \in 0..Width - 1, NEW l \in 0..Width - 1
    PROVE  /\ (c + 1) % Width = IF c + 1 = Width THEN 0 ELSE c + 1
           /\ (c + 1) % Width \in 0..Width - 1
           /\ Encoder!Since(c + 1, l) = Encoder!Since((c + 1) % Width, l)
           /\ Encoder!Since((c + 1) % Width, l) =
                IF Encoder!Since(c, l) + 1 = Width THEN 0 ELSE Encoder!Since(c, l) + 1
<1>1. Width \in Nat /\ Width > 0
  BY DEF Sizes
<1>2. \A d \in 0..2 * Width : d < 2 * Width => d % Width = IF d < Width THEN d ELSE d - Width
  BY <1>1
<1>3. \A d \in Int : d <= Width /\ d > -Width =>
        d % Width = IF d < 0 THEN d + Width ELSE IF d < Width THEN d ELSE d - Width
  BY <1>1
<1>4. (c + 1) % Width = IF c + 1 = Width THEN 0 ELSE c + 1
  BY <1>1, <1>3
<1>5. (c + 1) % Width \in 0..Width - 1
  BY <1>1, <1>4
<1> DEFINE n == (c + 1) % Width
<1>6. Encoder!Since(n, l) = IF n >= l THEN n - l ELSE n - l + Width
  BY <1>5, SinceIs
<1>7. Encoder!Since(c, l) = IF c >= l THEN c - l ELSE c - l + Width
  BY SinceIs
<1>8. Encoder!Since(c + 1, l) = ((c + 1) - l) % Width
  BY DEF Encoder!Since
<1>9. (c + 1) - l <= Width /\ (c + 1) - l > -Width /\ (c + 1) - l \in Int
  BY <1>1
<1>10. Encoder!Since(c + 1, l) = IF (c + 1) - l < 0 THEN (c + 1) - l + Width
                                 ELSE IF (c + 1) - l < Width THEN (c + 1) - l ELSE (c + 1) - l - Width
  BY <1>3, <1>8, <1>9
<1> HIDE DEF n
<1>11. n = IF c + 1 = Width THEN 0 ELSE c + 1
  BY <1>4 DEF n
<1>12. Encoder!Since(c + 1, l) = Encoder!Since(n, l)
  BY <1>1, <1>6, <1>10, <1>11
<1>13. Encoder!Since(n, l) = IF Encoder!Since(c, l) + 1 = Width THEN 0 ELSE Encoder!Since(c, l) + 1
  BY <1>1, <1>6, <1>7, <1>11
<1> QED BY <1>4, <1>5, <1>12, <1>13 DEF n

\* What is less than twice the width wraps once at most.
LEMMA WrapsOnce ==
    ASSUME Sizes, NEW d \in Nat, d < 2 * Width
    PROVE  /\ d < Width => d % Width = d
           /\ d >= Width => d % Width = d - Width
           /\ d % Width \in 0..Width - 1
  BY DEF Sizes

\* The next compare value.
LEMMA NextCompareIs ==
    ASSUME Sizes, NEW c \in 0..Width - 1
    PROVE  /\ c + Tics < Width => (c + Tics) % Width = c + Tics
           /\ c + Tics >= Width => (c + Tics) % Width = c + Tics - Width
           /\ (c + Tics) % Width \in 0..Width - 1
<1>1. c + Tics \in Nat /\ c + Tics < 2 * Width /\ Tics \in Nat /\ Width \in Nat
  BY DEF Sizes
<1> QED BY <1>1, WrapsOnce

\* An overflow adds the width of the timestamp.
LEMMA HighIs ==
    ASSUME Sizes, NEW h \in Nat, h % StampWidth = 0
    PROVE  /\ (h \div StampWidth + 1) * StampWidth = h + StampWidth
           /\ (h + StampWidth) % StampWidth = 0
<1>1. StampWidth \in Nat /\ StampWidth > 0
  BY DEF Sizes
<1>2. h = StampWidth * (h \div StampWidth) /\ h \div StampWidth \in Nat
  BY <1>1
<1>3. (h \div StampWidth + 1) * StampWidth = StampWidth * (h \div StampWidth) + StampWidth
  BY <1>1, <1>2
<1>4. (h + StampWidth) % StampWidth = 0
  <2>1. \A q, r \in Nat : r < StampWidth => (StampWidth * q + r) % StampWidth = r
    BY <1>1
  <2>2. PICK q \in Nat : h = StampWidth * q
    BY <1>2
  <2>3. h + StampWidth = StampWidth * (q + 1) + 0 /\ q + 1 \in Nat
    BY <1>1, <2>2
  <2>4. (StampWidth * (q + 1) + 0) % StampWidth = 0
    BY <1>1, <2>1, <2>3
  <2> QED BY <2>3, <2>4, Zenon
<1> QED BY <1>2, <1>3, <1>4

\* The timestamp's counter wraps to zero.
LEMMA NextStamp ==
    ASSUME Sizes, NEW t \in 0..StampWidth - 1
    PROVE  /\ (t + 1) % StampWidth = IF t + 1 = StampWidth THEN 0 ELSE t + 1
           /\ 0 % StampWidth = 0
  BY DEF Sizes

-----------------------------------------------------------------------------
(* The types and the timestamps.                                            *)

\* The initial state.
LEMMA EncoderInit ==
    ASSUME Sizes, Encoder!Init
    PROVE  EncoderTypes /\ StampsOK /\ CompareOK /\ CountsOK
<1>1. /\ enabled = TRUE /\ count = 0 /\ ccr = Tics /\ match = FALSE
      /\ stamp = 0 /\ stampHigh = 0 /\ wrapped = FALSE
      /\ inIrq = FALSE /\ tval = 0 /\ cval = 0
      /\ lastCount = 0 /\ pulseCount = 0 /\ lastPulse = 0 /\ pulseLength = 0
      /\ fg = "idle" /\ reported = 0
      /\ pulses = 0 /\ elapsed = 0 /\ irqAt = 0 /\ between = 0
  BY DEF Encoder!Init
<1>2. 0 \in 0..Width - 1 /\ Tics \in 0..Width - 1 /\ 0 \in 0..StampWidth - 1
  BY DEF Sizes
<1>3. Encoder!Since(0, 0) = 0 /\ Encoder!Since(Tics, 0) = Tics
  BY <1>2, SinceIs
<1>4. EncoderTypes
  <2>1. {count, ccr, cval, lastCount} \subseteq 0..Width - 1
    BY <1>1, <1>2
  <2>2. enabled \in BOOLEAN /\ match \in BOOLEAN /\ wrapped \in BOOLEAN /\ inIrq \in BOOLEAN
    BY <1>1
  <2>3. stamp \in 0..StampWidth - 1 /\ stampHigh \in Nat
    BY <1>1, <1>2
  <2> QED BY <1>1, <2>1, <2>2, <2>3 DEF EncoderTypes
<1>5. StampsOK
  BY <1>1, <1>2, NextStamp DEF StampsOK, FullStamp, Encoder!Timestamp
<1>6. CompareOK
  BY <1>1, <1>3 DEF CompareOK, Sizes
<1>7. CountsOK
  BY <1>1, <1>3 DEF CountsOK
<1> QED BY <1>4, <1>5, <1>6, <1>7

\* Every step keeps the types.
LEMMA EncoderTypesStep ==
    ASSUME Sizes, EncoderTypes, [Encoder!Next]_Encoder!vars
    PROVE  EncoderTypes'
<1> USE DEF EncoderTypes, Encoder!encTimer, Encoder!stamps, Encoder!irqVars, Encoder!data,
            Encoder!fgVars, Encoder!Foreground
<1>1. CASE Encoder!Pulse
  <2>1. (count + 1) % Width \in 0..Width - 1
    BY NextCount
  <2> QED BY <1>1, <2>1 DEF Encoder!Pulse
<1>2. CASE Encoder!Time
  <2>1. stamp' \in 0..StampWidth - 1
    BY <1>2, NextStamp DEF Encoder!Time, Sizes
  <2> QED BY <1>2, <2>1 DEF Encoder!Time
<1>3. CASE Encoder!Overflow
  <2>1. stampHigh' \in Nat
    <3>1. stampHigh \div StampWidth \in Nat /\ StampWidth \in Nat
      BY DEF Sizes
    <3>2. \A q \in Nat : (q + 1) * StampWidth \in Nat
      BY <3>1
    <3> QED BY <1>3, <3>1, <3>2 DEF Encoder!Overflow
  <2> QED BY <1>3, <2>1 DEF Encoder!Overflow
<1>4. CASE Encoder!Irq_Read
  <2>1. stamp + stampHigh \in Nat
    BY DEF Sizes
  <2>2. /\ match' = FALSE /\ inIrq' = TRUE /\ tval' \in Nat /\ cval' = count
        /\ irqAt' = elapsed /\ between' = elapsed - irqAt
        /\ UNCHANGED <<count, ccr, lastCount, enabled, wrapped, pulseCount, lastPulse, pulses,
                       elapsed, pulseLength, reported, fg, copy, stamp, stampHigh>>
    BY <1>4, <2>1 DEF Encoder!Irq_Read, Encoder!Timestamp
  <2>3. between' \in Int
    BY <2>2
  <2> QED BY <2>2, <2>3
<1>5. CASE Encoder!Irq_Store
  <2>1. (ccr + Tics) % Width \in 0..Width - 1 /\ Encoder!Since(cval, lastCount) \in Nat
    BY NextCompareIs, SinceIs
  <2>2. 0 \in 0..Width - 1
    BY DEF Sizes
  <2>3. /\ inIrq' = FALSE /\ ccr' \in 0..Width - 1 /\ lastCount' = cval /\ lastPulse' = tval
        /\ tval' = 0 /\ cval' = 0 /\ pulseCount' = pulseCount + Encoder!Since(cval, lastCount)
        /\ pulseLength' = tval - lastPulse
        /\ UNCHANGED <<count, enabled, match, wrapped, pulses, elapsed, irqAt, reported, between,
                       fg, copy, stamp, stampHigh>>
    BY <1>5, <2>1 DEF Encoder!Irq_Store, Encoder!NextCompare, Encoder!Counted
  <2>4. pulseCount' \in Nat /\ pulseLength' \in Int
    BY <2>1, <2>3
  <2>5. {count, ccr, cval, lastCount}' \subseteq 0..Width - 1
    BY <2>2, <2>3
  <2>6. {tval, pulseCount, lastPulse, pulses, elapsed, irqAt}' \subseteq Nat
    BY <2>3, <2>4
  <2>7. {pulseLength, reported, between}' \subseteq Int
    BY <2>3, <2>4
  <2>8. enabled' \in BOOLEAN /\ match' \in BOOLEAN /\ wrapped' \in BOOLEAN /\ inIrq' \in BOOLEAN
    BY <2>3
  <2> QED BY <2>3, <2>5, <2>6, <2>7, <2>8
<1>6. CASE Encoder!Get_Copy
  BY <1>6 DEF Encoder!Get_Copy
<1>7. CASE Encoder!Get_Count
  BY <1>7 DEF Encoder!Get_Count
<1>8. CASE Encoder!Reset_Stamp
  BY <1>8 DEF Encoder!Reset_Stamp, Sizes
<1>9. CASE Encoder!Reset_Stop
  BY <1>9 DEF Encoder!Reset_Stop
<1>10. CASE Encoder!Reset_Data
  <2>1. stamp + stampHigh \in Nat
    BY DEF Sizes
  <2>2. 0 \in 0..Width - 1
    BY DEF Sizes
  <2> QED BY <1>10, <2>1, <2>2 DEF Encoder!Reset_Data, Encoder!Timestamp
<1>11. CASE Encoder!Reset_Count
  <2>1. 0 \in 0..Width - 1 /\ Tics \in 0..Width - 1
    BY DEF Sizes
  <2> QED BY <1>11, <2>1 DEF Encoder!Reset_Count
<1>12. CASE UNCHANGED Encoder!vars
  BY <1>12 DEF Encoder!vars
<1> QED BY <1>1, <1>2, <1>3, <1>4, <1>5, <1>6, <1>7, <1>8, <1>9, <1>10, <1>11, <1>12 DEF Encoder!Next

\* Every step keeps the times, when a timestamp is read only after the overflow
\* of the timer has been handled.
LEMMA StampsStep ==
    ASSUME Sizes, EncoderTypes, StampsOK, [Encoder!Next]_Encoder!vars,
           "overflow" \notin EncoderRaces
    PROVE  StampsOK'
<1>1. /\ stamp \in 0..StampWidth - 1 /\ (wrapped => stamp = 0) /\ stampHigh \in Nat
      /\ StampWidth \in Nat \ {0} /\ wrapped \in BOOLEAN /\ {elapsed, irqAt, tval, lastPulse} \subseteq Nat
      /\ between \in Int /\ pulseLength \in Int
  BY DEF StampsOK, EncoderTypes, Sizes
<1> USE DEF StampsOK, FullStamp, Encoder!Timestamp, Encoder!StampIsWhole, Encoder!encTimer,
            Encoder!stamps, Encoder!irqVars, Encoder!data, Encoder!fgVars, Encoder!Foreground
<1>2. CASE Encoder!Pulse
  BY <1>2 DEF Encoder!Pulse
<1>3. CASE Encoder!Time
  <2>1. /\ stamp' = IF stamp + 1 = StampWidth THEN 0 ELSE stamp + 1
        /\ ~wrapped /\ (wrapped' <=> stamp' = 0) /\ elapsed' = elapsed + 1
        /\ UNCHANGED <<stampHigh, inIrq, tval, lastPulse, pulseLength, fg, irqAt, between>>
    BY <1>1, <1>3, NextStamp DEF Encoder!Time
  <2>2. stamp' \in 0..StampWidth - 1 /\ FullStamp' = FullStamp + 1
    BY <1>1, <2>1
  <2> QED BY <1>1, <2>1, <2>2
<1>4. CASE Encoder!Overflow
  <2>1. /\ wrapped /\ wrapped' = FALSE /\ stampHigh' = stampHigh + StampWidth
        /\ stampHigh' % StampWidth = 0
        /\ UNCHANGED <<stamp, elapsed, inIrq, tval, lastPulse, pulseLength, fg, irqAt, between>>
    BY <1>1, <1>4, HighIs DEF Encoder!Overflow
  <2> QED BY <1>1, <2>1
<1>5. CASE Encoder!Irq_Read
  BY <1>1, <1>5 DEF Encoder!Irq_Read
<1>6. CASE Encoder!Irq_Store
  BY <1>1, <1>6 DEF Encoder!Irq_Store
<1>7. CASE Encoder!Get_Copy
  BY <1>7 DEF Encoder!Get_Copy
<1>8. CASE Encoder!Get_Count
  BY <1>8 DEF Encoder!Get_Count
<1>9. CASE Encoder!Reset_Stamp
  BY <1>1, <1>9, NextStamp DEF Encoder!Reset_Stamp
<1>10. CASE Encoder!Reset_Stop
  BY <1>10 DEF Encoder!Reset_Stop
<1>11. CASE Encoder!Reset_Data
  BY <1>1, <1>11 DEF Encoder!Reset_Data
<1>12. CASE Encoder!Reset_Count
  BY <1>12 DEF Encoder!Reset_Count
<1>13. CASE UNCHANGED Encoder!vars
  BY <1>13 DEF Encoder!vars
<1> QED BY <1>2, <1>3, <1>4, <1>5, <1>6, <1>7, <1>8, <1>9, <1>10, <1>11, <1>12, <1>13 DEF Encoder!Next

-----------------------------------------------------------------------------
(* The compare value and the counts.                                        *)

\* The distances of the counts, as the arithmetic of the steps needs them.
LEMMA Distances ==
    ASSUME Sizes, EncoderTypes
    PROVE  /\ Width \in Nat /\ Tics \in Nat /\ Tics >= 1 /\ 2 * Tics <= Width
           /\ count \in Nat /\ ccr \in Nat /\ lastCount \in Nat /\ cval \in Nat
           /\ count < Width /\ ccr < Width /\ lastCount < Width /\ cval < Width
           /\ \A c, l \in {count, ccr, lastCount, cval} :
                /\ Encoder!Since(c, l) \in 0..Width - 1
                /\ c >= l => Encoder!Since(c, l) = c - l
                /\ c < l => Encoder!Since(c, l) = c - l + Width
<1>1. \A c, l \in {count, ccr, lastCount, cval} :
                /\ Encoder!Since(c, l) \in 0..Width - 1
                /\ c >= l => Encoder!Since(c, l) = c - l
                /\ c < l => Encoder!Since(c, l) = c - l + Width
  <2> SUFFICES ASSUME NEW c \in 0..Width - 1, NEW l \in 0..Width - 1
               PROVE  /\ Encoder!Since(c, l) \in 0..Width - 1
                      /\ c >= l => Encoder!Since(c, l) = c - l
                      /\ c < l => Encoder!Since(c, l) = c - l + Width
    BY DEF EncoderTypes
  <2>1. c \in Int /\ l \in Int
    BY DEF Sizes
  <2>2. /\ Encoder!Since(c, l) = IF c >= l THEN c - l ELSE c - l + Width
        /\ Encoder!Since(c, l) \in 0..Width - 1
    BY SinceIs
  <2>3. ~(c >= l /\ c < l)
    BY <2>1
  <2> QED BY <2>2, <2>3, Zenon
<1> QED BY <1>1 DEF EncoderTypes, Sizes

\* Where the handler's count is, and how far the count can be ahead.
LEMMA HandlerCount ==
    ASSUME Sizes, EncoderTypes, CompareOK
    PROVE  /\ match \/ inIrq => Encoder!Since(count, lastCount) =
                Encoder!Since(ccr, lastCount) + Encoder!Since(count, ccr)
           /\ inIrq => Encoder!Since(cval, lastCount) =
                Encoder!Since(ccr, lastCount) + Encoder!Since(cval, ccr)
           /\ inIrq => Encoder!Since(count, cval) =
                Encoder!Since(count, ccr) - Encoder!Since(cval, ccr)
           /\ enabled => Encoder!Since(count, lastCount) < 2 * Tics
<1> DEFINE S(c, l) == Encoder!Since(c, l)
<1>1. /\ Width \in Nat /\ Tics \in Nat /\ Tics >= 1 /\ 2 * Tics <= Width
      /\ count \in Nat /\ ccr \in Nat /\ lastCount \in Nat /\ cval \in Nat
      /\ count < Width /\ ccr < Width /\ lastCount < Width /\ cval < Width
      /\ \A c, l \in {count, ccr, lastCount, cval} :
                /\ S(c, l) \in 0..Width - 1
                /\ c >= l => S(c, l) = c - l
                /\ c < l => S(c, l) = c - l + Width
  BY Distances
<1>2. /\ match \/ inIrq => enabled
      /\ enabled => S(ccr, lastCount) \in 1..Tics
      /\ enabled /\ ~match /\ ~inIrq => S(count, lastCount) < S(ccr, lastCount)
      /\ match \/ inIrq => S(count, ccr) < Tics
      /\ inIrq => S(cval, ccr) <= S(count, ccr)
  BY DEF CompareOK
<1> HIDE DEF S
<1>3. match \/ inIrq => S(count, lastCount) = S(ccr, lastCount) + S(count, ccr)
  BY <1>1, <1>2
<1>4. inIrq => S(cval, lastCount) = S(ccr, lastCount) + S(cval, ccr)
  BY <1>1, <1>2
<1>5. inIrq => S(count, cval) = S(count, ccr) - S(cval, ccr)
  BY <1>1, <1>2
<1>6. enabled => S(count, lastCount) < 2 * Tics
  BY <1>1, <1>2, <1>3
<1> QED BY <1>3, <1>4, <1>5, <1>6 DEF S

\* What a pulse does to the distances.
LEMMA PulseMoves ==
    ASSUME Sizes, EncoderTypes, Encoder!Pulse
    PROVE  /\ \A l \in {ccr, lastCount, cval} : Encoder!Since(count', l) =
                IF Encoder!Since(count, l) + 1 = Width THEN 0 ELSE Encoder!Since(count, l) + 1
           /\ fg = "get" => Encoder!Since(count', copy.last) =
                IF Encoder!Since(count, copy.last) + 1 = Width THEN 0 ELSE Encoder!Since(count, copy.last) + 1
           /\ match \/ inIrq => Encoder!Since(count', ccr) < Tics \/ "late_irq" \in EncoderRaces
           /\ pulses' = pulses + 1 /\ enabled
           /\ match' <=> (match \/ Encoder!Since(count', ccr) = 0)
           /\ UNCHANGED <<enabled, ccr, inIrq, cval, lastCount, pulseCount, fg, copy, reported>>
<1> USE DEF Encoder!encTimer, Encoder!stamps, Encoder!irqVars, Encoder!data, Encoder!fgVars
<1>1. /\ count' = (count + 1) % Width /\ match' = (match \/ count' = ccr)
      /\ (match \/ inIrq) => (Encoder!Since(count + 1, ccr) < Tics \/ "late_irq" \in EncoderRaces)
      /\ pulses' = pulses + 1 /\ enabled
      /\ UNCHANGED <<enabled, ccr, inIrq, cval, lastCount, pulseCount, fg, copy, reported>>
  BY DEF Encoder!Pulse
<1>2. \A l \in 0..Width - 1 :
        /\ Encoder!Since(count', l) =
                IF Encoder!Since(count, l) + 1 = Width THEN 0 ELSE Encoder!Since(count, l) + 1
        /\ Encoder!Since(count + 1, l) = Encoder!Since(count', l)
  BY <1>1, NextCount DEF EncoderTypes
<1>3. {ccr, lastCount, cval} \subseteq 0..Width - 1 /\ (fg = "get" => copy.last \in 0..Width - 1)
  BY DEF EncoderTypes
<1>4. count' = ccr <=> Encoder!Since(count', ccr) = 0
  <2>1. count' \in 0..Width - 1
    BY <1>1, NextCount DEF EncoderTypes
  <2>2. Encoder!Since(count', ccr) = IF count' >= ccr THEN count' - ccr ELSE count' - ccr + Width
    BY <1>3, <2>1, SinceIs
  <2>3. count' \in Int /\ ccr \in Int /\ Width \in Int /\ count' < Width /\ ccr < Width /\ ccr >= 0 /\ count' >= 0
    BY <1>3, <2>1 DEF Sizes
  <2> DEFINE n == count'
             S == Encoder!Since(count', ccr)
  <2>4. n \in Int /\ ccr \in Int /\ Width \in Int /\ n < Width /\ ccr < Width /\ ccr >= 0 /\ n >= 0
        /\ S = IF n >= ccr THEN n - ccr ELSE n - ccr + Width
    BY <2>2, <2>3
  <2> HIDE DEF n, S
  <2>5. n = ccr <=> S = 0
    BY <2>4
  <2> QED BY <2>5 DEF n, S
<1> QED BY <1>1, <1>2, <1>3, <1>4

\* Every step keeps the place of the compare value, when the handler is in time.
LEMMA CompareStep ==
    ASSUME Sizes, EncoderTypes, CompareOK, [Encoder!Next]_Encoder!vars,
           "late_irq" \notin EncoderRaces
    PROVE  CompareOK'
<1> USE DEF Encoder!encTimer, Encoder!stamps, Encoder!irqVars, Encoder!data, Encoder!fgVars,
            Encoder!Foreground
<1> DEFINE S(c, l) == Encoder!Since(c, l)
<1>1. /\ Width \in Nat /\ Tics \in Nat /\ Tics >= 1 /\ 2 * Tics <= Width
      /\ count \in Nat /\ ccr \in Nat /\ lastCount \in Nat /\ cval \in Nat
      /\ count < Width /\ ccr < Width /\ lastCount < Width /\ cval < Width
      /\ \A c, l \in {count, ccr, lastCount, cval} :
                /\ S(c, l) \in 0..Width - 1
                /\ c >= l => S(c, l) = c - l
                /\ c < l => S(c, l) = c - l + Width
  BY Distances
<1>2. /\ enabled <=> fg \notin {"stopped", "cleared"}
      /\ match \/ inIrq => enabled
      /\ fg = "cleared" => lastCount = 0
      /\ enabled => S(ccr, lastCount) \in 1..Tics
      /\ enabled /\ ~match /\ ~inIrq => S(count, lastCount) < S(ccr, lastCount)
      /\ match \/ inIrq => S(count, ccr) < Tics
      /\ inIrq => ~match /\ S(cval, ccr) <= S(count, ccr)
  BY DEF CompareOK
<1>3. CASE Encoder!Pulse
  <2>1. /\ \A l \in {ccr, lastCount, cval} : S(count', l) =
                IF S(count, l) + 1 = Width THEN 0 ELSE S(count, l) + 1
        /\ match \/ inIrq => S(count', ccr) < Tics
        /\ enabled /\ (match' <=> (match \/ S(count', ccr) = 0))
        /\ UNCHANGED <<enabled, ccr, inIrq, cval, lastCount, fg>>
    BY <1>3, PulseMoves
  <2> DEFINE a == S(ccr, lastCount)
             b == S(count, lastCount)
             d == S(count, ccr)
             bn == S(count', lastCount)
             dn == S(count', ccr)
  <2>2. /\ a \in 1..Tics /\ b \in 0..Width - 1 /\ d \in 0..Width - 1
        /\ bn = IF b + 1 = Width THEN 0 ELSE b + 1
        /\ dn = IF d + 1 = Width THEN 0 ELSE d + 1
        /\ b < a => d = b - a + Width
    <3>1. a \in 1..Tics
      BY <1>2, <2>1
    <3>2. b \in 0..Width - 1 /\ d \in 0..Width - 1
      BY <1>1
    <3>3. bn = (IF b + 1 = Width THEN 0 ELSE b + 1) /\ dn = (IF d + 1 = Width THEN 0 ELSE d + 1)
      BY <2>1
    <3> HIDE DEF S
    <3>4. b < a => d = b - a + Width
      BY <1>1, <3>1
    <3> QED BY <3>1, <3>2, <3>3, <3>4
  <2>3. match \/ inIrq => d < Tics /\ dn < Tics
    BY <1>2, <2>1
  <2>4. ~match /\ ~inIrq => b < a
    BY <1>2, <2>1
  <2>5. match' <=> (match \/ dn = 0)
    BY <2>1
  <2>6. inIrq => ~match /\ S(cval, ccr) <= d /\ S(cval, ccr) \in Nat
    BY <1>1, <1>2
  <2> HIDE DEF a, b, d, bn, dn
  <2>7. ~match' /\ ~inIrq => bn < a
    BY <1>1, <2>2, <2>3, <2>4, <2>5
  <2>8. match' \/ inIrq => dn < Tics
    BY <1>1, <2>3, <2>5
  <2>9. inIrq => ~match' /\ S(cval, ccr) <= dn
    BY <1>1, <2>2, <2>3, <2>5, <2>6
  <2> QED BY <1>2, <2>1, <2>7, <2>8, <2>9 DEF CompareOK, a, b, d, bn, dn
<1>4. CASE Encoder!Time \/ Encoder!Overflow \/ UNCHANGED Encoder!vars
  BY <1>4 DEF Encoder!Time, Encoder!Overflow, Encoder!vars, CompareOK
<1>5. CASE Encoder!Irq_Read
  <2>1. /\ match /\ ~inIrq /\ match' = FALSE /\ inIrq' = TRUE /\ cval' = count
        /\ UNCHANGED <<enabled, count, ccr, lastCount, fg>>
    BY <1>5 DEF Encoder!Irq_Read
  <2>2. S(count, ccr) <= S(count, ccr)
    BY <1>1
  <2> QED BY <1>2, <2>1, <2>2 DEF CompareOK
<1>6. CASE Encoder!Irq_Store
  <2>1. /\ inIrq /\ inIrq' = FALSE /\ ccr' = (ccr + Tics) % Width /\ lastCount' = cval
        /\ UNCHANGED <<enabled, count, match, fg>>
    BY <1>6 DEF Encoder!Irq_Store, Encoder!NextCompare, Encoder!Counted
  <2>2. /\ ccr + Tics < Width => ccr' = ccr + Tics
        /\ ccr + Tics >= Width => ccr' = ccr + Tics - Width
        /\ ccr' \in 0..Width - 1
    BY <2>1, NextCompareIs DEF EncoderTypes
  <2>3. /\ ccr' >= cval => S(ccr', cval) = ccr' - cval
        /\ ccr' < cval => S(ccr', cval) = ccr' - cval + Width
    <3>1. S(ccr', cval) = IF ccr' >= cval THEN ccr' - cval ELSE ccr' - cval + Width
      BY <2>2, SinceIs DEF EncoderTypes
    <3>2. ~(ccr' >= cval /\ ccr' < cval)
      BY <1>1, <2>2
    <3> QED BY <3>1, <3>2, Zenon
  <2>4. S(count, cval) = S(count, ccr) - S(cval, ccr)
    BY <2>1, HandlerCount
  <2>5. enabled /\ ~match /\ S(cval, ccr) <= S(count, ccr) /\ S(count, ccr) < Tics
    BY <1>2, <2>1
  <2> DEFINE n == ccr'
             e == S(cval, ccr)
             g == S(ccr', cval)
  <2>6. /\ e \in Nat /\ e < Tics /\ n \in 0..Width - 1
        /\ cval >= ccr => e = cval - ccr
        /\ cval < ccr => e = cval - ccr + Width
        /\ ccr + Tics < Width => n = ccr + Tics
        /\ ccr + Tics >= Width => n = ccr + Tics - Width
        /\ n >= cval => g = n - cval
        /\ n < cval => g = n - cval + Width
    <3>1. e \in 0..Width - 1 /\ (cval >= ccr => e = cval - ccr) /\ (cval < ccr => e = cval - ccr + Width)
      BY <1>1
    <3>2. e <= S(count, ccr) /\ S(count, ccr) < Tics /\ S(count, ccr) \in 0..Width - 1
      BY <1>1, <2>5
    <3>3. e \in Nat /\ e < Tics
      BY <1>1, <3>1, <3>2
    <3> QED BY <2>2, <2>3, <3>1, <3>3
  <2> HIDE DEF n, e, g, S
  <2>7. g = Tics - e
    BY <1>1, <2>6
  <2>8. g \in 1..Tics
    BY <1>1, <2>6, <2>7
  <2>9. S(count, cval) < g
    BY <1>1, <2>4, <2>5, <2>6, <2>7 DEF e
  <2> QED BY <1>2, <2>1, <2>5, <2>8, <2>9 DEF CompareOK, g, S
<1>7. CASE Encoder!Get_Copy \/ Encoder!Get_Count \/ Encoder!Reset_Stamp
  BY <1>7 DEF Encoder!Get_Copy, Encoder!Get_Count, Encoder!Reset_Stamp, CompareOK
<1>8. CASE Encoder!Reset_Stop
  BY <1>2, <1>8 DEF Encoder!Reset_Stop, CompareOK
<1>9. CASE Encoder!Reset_Data
  BY <1>2, <1>9 DEF Encoder!Reset_Data, CompareOK
<1>10. CASE Encoder!Reset_Count
  <2>1. /\ ~match /\ ~inIrq /\ lastCount = 0 /\ count' = 0 /\ ccr' = Tics /\ enabled' = TRUE
        /\ fg' = "idle" /\ UNCHANGED <<match, inIrq, cval, lastCount>>
    BY <1>2, <1>10 DEF Encoder!Reset_Count
  <2>2. S(Tics, 0) = Tics /\ S(0, 0) = 0
    <3>1. Tics \in 0..Width - 1 /\ 0 \in 0..Width - 1
      BY <1>1
    <3> QED BY <3>1, SinceIs
  <2>3. Tics \in 1..Tics /\ 0 < Tics
    BY <1>1
  <2> QED BY <2>1, <2>2, <2>3 DEF CompareOK
<1> QED BY <1>3, <1>4, <1>5, <1>6, <1>7, <1>8, <1>9, <1>10 DEF Encoder!Next

\* Every step keeps the counts, when besides no reader is held up until the
\* counter has come round.
LEMMA CountsStep ==
    ASSUME Sizes, EncoderTypes, CompareOK, CountsOK, [Encoder!Next]_Encoder!vars,
           "late_irq" \notin EncoderRaces, "held_up" \notin EncoderRaces
    PROVE  CountsOK'
<1> USE DEF Encoder!encTimer, Encoder!stamps, Encoder!irqVars, Encoder!data, Encoder!fgVars,
            Encoder!Foreground
<1> DEFINE S(c, l) == Encoder!Since(c, l)
<1>1. /\ Width \in Nat /\ Tics \in Nat /\ Tics >= 1 /\ 2 * Tics <= Width
      /\ pulses \in Nat /\ pulseCount \in Nat
      /\ S(count, lastCount) \in 0..Width - 1 /\ S(cval, lastCount) \in 0..Width - 1
      /\ S(count, cval) \in 0..Width - 1 /\ S(ccr, lastCount) \in 0..Width - 1
      /\ S(count, ccr) \in 0..Width - 1
      /\ fg = "get" => S(count, copy.last) \in 0..Width - 1 /\ copy.pulses \in Nat
  <2>1. fg = "get" => S(count, copy.last) \in 0..Width - 1 /\ copy.pulses \in Nat
    BY SinceIs DEF EncoderTypes
  <2> QED BY <2>1, Distances DEF EncoderTypes
<1>2. /\ fg = "cleared" => pulseCount = 0
      /\ fg # "cleared" /\ ~inIrq => pulses = pulseCount + S(count, lastCount)
      /\ inIrq => pulses = pulseCount + S(cval, lastCount) + S(count, cval)
      /\ fg = "get" => pulses = copy.pulses + S(count, copy.last)
  BY DEF CountsOK
<1>3. CASE Encoder!Pulse
  <2>1. /\ \A l \in {ccr, lastCount, cval} : S(count', l) =
                IF S(count, l) + 1 = Width THEN 0 ELSE S(count, l) + 1
        /\ fg = "get" => S(count', copy.last) =
                IF S(count, copy.last) + 1 = Width THEN 0 ELSE S(count, copy.last) + 1
        /\ pulses' = pulses + 1 /\ enabled
        /\ UNCHANGED <<enabled, ccr, inIrq, cval, lastCount, pulseCount, fg, copy>>
    BY <1>3, PulseMoves
  <2>2. fg = "get" => S(count, copy.last) < Width - 1
    BY <1>3 DEF Encoder!Pulse
  <2>3. fg # "cleared" /\ S(count, lastCount) + 1 < Width
    <3>1. match \/ inIrq => S(count', ccr) < Tics
      BY <1>3, PulseMoves
    <3>2. /\ fg # "cleared" /\ S(ccr, lastCount) \in 1..Tics
          /\ ~match /\ ~inIrq => S(count, lastCount) < S(ccr, lastCount)
          /\ match \/ inIrq => S(count, ccr) < Tics
      BY <2>1 DEF CompareOK
    <3>3. match \/ inIrq => S(count, lastCount) = S(ccr, lastCount) + S(count, ccr)
      BY HandlerCount
    <3>4. S(count', ccr) = IF S(count, ccr) + 1 = Width THEN 0 ELSE S(count, ccr) + 1
      BY <2>1
    <3> DEFINE dn == S(count', ccr)
               d == S(count, ccr)
               a == S(ccr, lastCount)
               b == S(count, lastCount)
    <3>5. /\ a \in 1..Tics /\ b \in 0..Width - 1 /\ d \in 0..Width - 1
          /\ match \/ inIrq => dn < Tics /\ d < Tics /\ b = a + d
          /\ ~match /\ ~inIrq => b < a
          /\ dn = IF d + 1 = Width THEN 0 ELSE d + 1
      BY <1>1, <3>1, <3>2, <3>3, <3>4
    <3> HIDE DEF dn, d, a, b, S
    <3>6. b + 1 < Width
      BY <1>1, <3>5
    <3> QED BY <3>2, <3>6 DEF b
  <2>4. inIrq => S(count, cval) + 1 < Width
    <3>1. inIrq => /\ S(count, cval) = S(count, ccr) - S(cval, ccr)
                   /\ S(count, ccr) < Tics /\ S(cval, ccr) \in Nat
      BY HandlerCount, Distances DEF CompareOK
    <3> HIDE DEF S
    <3> QED BY <1>1, <3>1
  <2>5. /\ S(count', lastCount) = S(count, lastCount) + 1
        /\ inIrq => S(count', cval) = S(count, cval) + 1
        /\ fg = "get" => S(count', copy.last) = S(count, copy.last) + 1
    <3> HIDE DEF S
    <3>1. S(count', lastCount) = S(count, lastCount) + 1
      BY <1>1, <2>1, <2>3
    <3>2. inIrq => S(count', cval) = S(count, cval) + 1
      BY <1>1, <2>1, <2>4
    <3>3. fg = "get" => S(count', copy.last) = S(count, copy.last) + 1
      BY <1>1, <2>1, <2>2
    <3> QED BY <3>1, <3>2, <3>3
  <2>6. /\ ~inIrq => pulses + 1 = pulseCount + (S(count, lastCount) + 1)
        /\ inIrq => pulses + 1 = pulseCount + S(cval, lastCount) + (S(count, cval) + 1)
        /\ fg = "get" => pulses + 1 = copy.pulses + (S(count, copy.last) + 1)
    <3> HIDE DEF S
    <3> QED BY <1>1, <1>2, <2>3
  <2> QED BY <2>1, <2>3, <2>5, <2>6 DEF CountsOK
<1>4. CASE Encoder!Time \/ Encoder!Overflow \/ UNCHANGED Encoder!vars
  BY <1>4 DEF Encoder!Time, Encoder!Overflow, Encoder!vars, CountsOK
<1>5. CASE Encoder!Irq_Read
  <2>1. /\ match /\ ~inIrq /\ inIrq' = TRUE /\ cval' = count
        /\ UNCHANGED <<enabled, count, lastCount, pulseCount, pulses, fg, copy>>
    BY <1>5 DEF Encoder!Irq_Read
  <2>2. S(count, count) = 0
    BY SinceIs DEF EncoderTypes, Sizes
  <2>3. fg # "cleared"
    BY <2>1 DEF CompareOK
  <2>4. pulses = pulseCount + S(count, lastCount) + 0
    <3> HIDE DEF S
    <3> QED BY <1>1, <1>2, <2>1, <2>3
  <2> QED BY <1>2, <2>1, <2>2, <2>3, <2>4 DEF CountsOK
<1>6. CASE Encoder!Irq_Store
  <2>1. /\ inIrq /\ inIrq' = FALSE /\ lastCount' = cval /\ pulseCount' = pulseCount + S(cval, lastCount)
        /\ UNCHANGED <<enabled, count, pulses, fg, copy>>
    BY <1>6 DEF Encoder!Irq_Store, Encoder!Counted
  <2>2. fg # "cleared"
    BY <2>1 DEF CompareOK
  <2> QED BY <1>2, <2>1, <2>2 DEF CountsOK
<1>7. CASE Encoder!Get_Copy
  <2>1. /\ ~inIrq /\ fg = "idle" /\ fg' = "get"
        /\ copy' = [pulses |-> pulseCount, last |-> lastCount]
        /\ UNCHANGED <<inIrq, cval, count, lastCount, pulseCount, pulses>>
    BY <1>7 DEF Encoder!Get_Copy
  <2>2. copy'.pulses = pulseCount /\ copy'.last = lastCount
    BY <2>1
  <2> QED BY <1>2, <2>1, <2>2 DEF CountsOK
<1>8. CASE Encoder!Get_Count \/ Encoder!Reset_Stamp \/ Encoder!Reset_Stop
  BY <1>2, <1>8 DEF Encoder!Get_Count, Encoder!Reset_Stamp, Encoder!Reset_Stop, CountsOK
<1>9. CASE Encoder!Reset_Data
  BY <1>2, <1>9 DEF Encoder!Reset_Data, CountsOK
<1>10. CASE Encoder!Reset_Count
  <2>1. /\ ~inIrq /\ fg = "cleared" /\ fg' = "idle" /\ lastCount = 0 /\ count' = 0 /\ pulses' = 0
        /\ pulseCount = 0 /\ UNCHANGED <<inIrq, cval, lastCount, pulseCount>>
    BY <1>2, <1>10 DEF Encoder!Reset_Count, CompareOK
  <2>2. S(0, 0) = 0
    <3>1. 0 \in 0..Width - 1
      BY <1>1
    <3> QED BY <3>1, SinceIs
  <2> QED BY <2>1, <2>2 DEF CountsOK
<1> QED BY <1>3, <1>4, <1>5, <1>6, <1>7, <1>8, <1>9, <1>10 DEF Encoder!Next

-----------------------------------------------------------------------------
(* The theorems.                                                            *)

EncoderInv == EncoderTypes /\ StampsOK
CompareInv == EncoderTypes /\ CompareOK
CountInv   == EncoderTypes /\ CompareOK /\ CountsOK

\* The counts, the compare value and what is kept of them fit the counters,
\* whatever races happen.
THEOREM EncoderTypesHold == ASSUME Sizes PROVE Encoder!Spec => []Encoder!TypeOK
<1>1. Encoder!Init => EncoderTypes
  BY EncoderInit
<1>2. EncoderTypes /\ [Encoder!Next]_Encoder!vars => EncoderTypes'
  BY EncoderTypesStep
<1>3. EncoderTypes => Encoder!TypeOK
  BY DEF EncoderTypes, Encoder!TypeOK
<1> QED BY <1>1, <1>2, <1>3, PTL DEF Encoder!Spec

\* The length of a pulse is the time between the last two that were handled, for
\* any width of the timestamp, also when interrupts are late or a reader is held
\* up, as long as no timestamp is read before its overflow is handled.
THEOREM LengthsAreTrue ==
    ASSUME Sizes, "overflow" \notin EncoderRaces
    PROVE  Encoder!Spec => []PulseLengthIsTrue
<1>1. Encoder!Init => EncoderInv
  BY EncoderInit DEF EncoderInv
<1>2. EncoderInv /\ [Encoder!Next]_Encoder!vars => EncoderInv'
  BY EncoderTypesStep, StampsStep DEF EncoderInv
<1>3. EncoderInv => PulseLengthIsTrue
  BY DEF EncoderInv, StampsOK, PulseLengthIsTrue, Encoder!PulseLengthIsTrue
<1> QED BY <1>1, <1>2, <1>3, PTL DEF Encoder!Spec

\* The next interrupt is never more than Tics pulses away, when each is handled
\* before the next is due.
THEOREM NextPulseComes ==
    ASSUME Sizes, "late_irq" \notin EncoderRaces
    PROVE  Encoder!Spec => []NextPulseIsTold
<1>1. Encoder!Init => CompareInv
  BY EncoderInit DEF CompareInv
<1>2. CompareInv /\ [Encoder!Next]_Encoder!vars => CompareInv'
  BY EncoderTypesStep, CompareStep DEF CompareInv
<1>3. CompareInv => NextPulseIsTold
  <2> SUFFICES ASSUME CompareInv, enabled, ~match, ~inIrq
               PROVE  Encoder!Since(ccr, count) \in 1..Tics
    BY DEF NextPulseIsTold, Encoder!NextPulseIsTold
  <2> DEFINE S(c, l) == Encoder!Since(c, l)
  <2>1. S(ccr, lastCount) \in 1..Tics /\ S(count, lastCount) < S(ccr, lastCount)
    BY DEF CompareInv, CompareOK
  <2>2. /\ Width \in Nat /\ Tics \in Nat /\ Tics >= 1 /\ 2 * Tics <= Width
        /\ count \in Nat /\ ccr \in Nat /\ lastCount \in Nat
        /\ count < Width /\ ccr < Width /\ lastCount < Width
        /\ \A c, l \in {count, ccr, lastCount, cval} :
                /\ S(c, l) \in 0..Width - 1
                /\ c >= l => S(c, l) = c - l
                /\ c < l => S(c, l) = c - l + Width
    BY Distances DEF CompareInv
  <2> HIDE DEF S
  <2>3. S(ccr, count) \in 1..Tics
    BY <2>1, <2>2
  <2> QED BY <2>3 DEF S
<1> QED BY <1>1, <1>2, <1>3, PTL DEF Encoder!Spec

\* The pulses told are those there were, however often the counter has wrapped,
\* but for a wrap between what was copied and the count that is read, when the
\* handler and the reader are in time.
THEOREM CountsAreTrue ==
    ASSUME Sizes, "late_irq" \notin EncoderRaces, "held_up" \notin EncoderRaces
    PROVE  Encoder!Spec => CountIsTrue
<1>1. Encoder!Init => CountInv
  BY EncoderInit DEF CountInv
<1>2. CountInv /\ [Encoder!Next]_Encoder!vars => CountInv'
  BY EncoderTypesStep, CompareStep, CountsStep DEF CountInv
<1>3. CountInv /\ [Encoder!Next]_Encoder!vars =>
        [fg = "get" /\ fg' = "idle" =>
          reported' = pulses - (IF count < copy.last THEN Width ELSE 0)]_Encoder!vars
  <2> SUFFICES ASSUME CountInv, [Encoder!Next]_Encoder!vars, fg = "get", fg' = "idle"
               PROVE  reported' = pulses - (IF count < copy.last THEN Width ELSE 0)
    OBVIOUS
  <2>1. Encoder!Get_Count
    BY DEF Encoder!Next, Encoder!Pulse, Encoder!Time, Encoder!Overflow, Encoder!Irq_Read,
           Encoder!Irq_Store, Encoder!Get_Copy, Encoder!Reset_Stamp, Encoder!Reset_Stop,
           Encoder!Reset_Data, Encoder!Reset_Count, Encoder!Foreground, Encoder!fgVars, Encoder!vars
  <2>2. reported' = copy.pulses + (count - copy.last)
    BY <2>1 DEF Encoder!Get_Count
  <2>3. /\ pulses = copy.pulses + Encoder!Since(count, copy.last)
        /\ copy.last \in 0..Width - 1 /\ copy.pulses \in Nat /\ count \in 0..Width - 1
    BY DEF CountInv, CountsOK, EncoderTypes
  <2>4. Encoder!Since(count, copy.last) =
            IF count >= copy.last THEN count - copy.last ELSE count - copy.last + Width
    BY <2>3, SinceIs
  <2>5. Width \in Nat
    BY DEF Sizes
  <2>6. CASE count < copy.last
    BY <2>2, <2>3, <2>4, <2>5, <2>6
  <2>7. CASE ~(count < copy.last)
    BY <2>2, <2>3, <2>4, <2>5, <2>7
  <2> QED BY <2>6, <2>7
<1> QED BY <1>1, <1>2, <1>3, PTL DEF Encoder!Spec, CountIsTrue, Encoder!CountIsTrue
=============================================================================
