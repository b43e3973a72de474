------------------------- MODULE SensorDriver_proofs -------------------------
(* Theorems about SensorDriver, for every word size, line time, frame length, exposure
   and gain that the assumptions admit; those of the driver's five modes do. *)
EXTENDS SensorDriver, TLAPS

LEMMA DivBounds ==
    ASSUME NEW a \in Nat, NEW b \in Nat \ {0}
    PROVE  /\ a \div b \in Nat
           /\ (a \div b) * b <= a
           /\ a < (a \div b) * b + b
BY SMT

LEMMA DivAtLeast ==
    ASSUME NEW a \in Nat, NEW b \in Nat \ {0}, NEW q \in Nat, q * b <= a
    PROVE  q <= a \div b
BY DivBounds, SMT

LEMMA DivAtMost ==
    ASSUME NEW a \in Nat, NEW b \in Nat \ {0}, NEW q \in Nat, a <= q * b
    PROVE  a \div b <= q
BY DivBounds, SMT

LEMMA ModSmall ==
    ASSUME NEW a \in Nat, NEW b \in Nat \ {0}, a < b
    PROVE  a % b = a
BY SMT

LEMMA ModBounds ==
    ASSUME NEW a \in Nat, NEW b \in Nat \ {0}
    PROVE  a % b \in Nat /\ a % b < b
BY SMT

LEMMA MulMonotone ==
    ASSUME NEW a \in Nat, NEW b \in Nat, NEW c \in Nat, a <= b
    PROVE  a * c <= b * c
BY SMT

(* What a line time is while one is configured. *)
LEMMA LineTime ==
    ASSUME TypeOK, lineTime # 0
    PROVE  /\ lineTime \in Nat \ {0} /\ lineTime >= Milli
           /\ LinesMax * lineTime < Word
BY ModesAssumption, WordAssumption DEF TypeOK

(* An exposure of e lines, noted in microseconds, is at most e lines long. *)
LEMMA TimeOfExact ==
    ASSUME TypeOK, lineTime # 0, NEW e \in 0 .. LinesMax
    PROVE  /\ TimeOf(e) \in Nat
           /\ TimeOf(e) = (e * lineTime) \div Milli
           /\ TimeOf(e) * Milli <= e * lineTime
           /\ e * lineTime < TimeOf(e) * Milli + Milli
           /\ e * lineTime < Word
<1>1. /\ lineTime \in Nat \ {0} /\ LinesMax * lineTime < Word BY LineTime
<1>2. e * lineTime \in Nat /\ e * lineTime <= LinesMax * lineTime
  BY <1>1, MulMonotone, LinesAssumption
<1>3. e * lineTime < Word BY <1>1, <1>2, LinesAssumption, WordAssumption
<1>4. (e * lineTime) % Word = e * lineTime BY <1>2, <1>3, ModSmall, WordAssumption
<1>5. TimeOf(e) = (e * lineTime) \div Milli BY <1>4 DEF TimeOf, U32
<1> QED BY <1>2, <1>3, <1>5, DivBounds, WordAssumption

(* Noted in microseconds and read back, an exposure has lost at most one line. *)
LEMMA Rounding ==
    ASSUME TypeOK, lineTime # 0, NEW e \in 1 .. LinesMax
    PROVE  /\ LinesOf(TimeOf(e)) \in Nat
           /\ e - 1 <= LinesOf(TimeOf(e))
<1> DEFINE h == TimeOf(e)
<1>1. /\ lineTime \in Nat \ {0} /\ lineTime >= Milli BY LineTime
<1>2. /\ h \in Nat /\ h * Milli <= e * lineTime
      /\ e * lineTime < h * Milli + Milli /\ e * lineTime < Word
  BY TimeOfExact, LinesAssumption
<1> HIDE DEF h
<1>3. h * Milli \in Nat /\ h * Milli < Word
  BY <1>1, <1>2, WordAssumption
<1>4. (h * Milli) % Word = h * Milli BY <1>3, ModSmall, WordAssumption
<1>5. LinesOf(h) = (h * Milli) \div lineTime BY <1>4 DEF LinesOf, U32
<1>6. (e - 1) * lineTime = e * lineTime - lineTime BY <1>1, LinesAssumption
<1>7. (e - 1) * lineTime <= h * Milli BY <1>1, <1>2, <1>3, <1>6, WordAssumption, LinesAssumption
<1>8. e - 1 <= (h * Milli) \div lineTime BY <1>1, <1>3, <1>7, DivAtLeast, LinesAssumption
<1> QED BY <1>1, <1>3, <1>5, <1>8, DivBounds DEF h
-----------------------------------------------------------------------------
(* The exposure in the registers is the noted one, and a configured frame has room for
   an exposure. *)
Noted == regs.exp # 0 => lineTime # 0 /\ hdrIntTime = TimeOf(regs.exp)
FrameRange == lineTime # 0 => initVTS \in LinesMin + Adjust .. LinesMax

(* Before the registers are first fetched nothing is known to be delivered. *)
BeforeFirst ==
    /\ main \in {"closed", "opened"} => ~syncInit
    /\ ~syncInit => prev = NoRegs /\ ~stale /\ Fits(hw)

IInv == /\ TypeOK /\ Noted /\ FrameRange /\ BeforeFirst
        /\ DeliveredIsCurrent /\ ExposureFits

(* What auto exposure computes is in range. *)
LEMMA ClampRange ==
    ASSUME NEW n \in Nat, NEW lo \in Nat, NEW hi \in Nat, lo <= hi
    PROVE  Clamp(n, lo, hi) \in lo .. hi
BY DEF Clamp

LEMMA LinesOfNat ==
    ASSUME TypeOK, lineTime # 0, NEW us \in Nat
    PROVE  LinesOf(us) \in Nat
<1>1. lineTime \in Nat \ {0} BY LineTime
<1>2. us * Milli \in Nat BY WordAssumption
<1>3. U32(us * Milli) \in Nat BY <1>2, ModBounds, WordAssumption DEF U32
<1> QED BY <1>1, <1>3, DivBounds DEF LinesOf

LEMMA NoRegsOK == NoRegs \in Regs /\ Fits(NoRegs)
BY LinesAssumption, GainAssumption DEF NoRegs, Regs, Fits

(* The steps of the main thread. *)
LEMMA MainStep ==
    ASSUME IInv,
           \/ Open \/ ConfigUnknown \/ IspStreamOn \/ StreamOn \/ StreamOff \/ IspStreamOff
           \/ Close \/ \E m \in Modes : Config(m)
    PROVE  IInv'
<1> USE DEF IInv, cfgVars, aeVars, regVars
<1>1. CASE Open \/ Close
  <2>1. Cleared /\ main' \in {"closed", "opened"} /\ fd' \in BOOLEAN
    BY <1>1 DEF Open, Close
  <2>2. TypeOK'
    <3>1. /\ main' \in {"closed", "opened", "ready", "isp", "run", "stopped"}
          /\ fd' \in BOOLEAN /\ stream_on_flag' \in {0, 1}
          /\ syncInit' \in BOOLEAN /\ stale' \in BOOLEAN
      BY <2>1 DEF Cleared
    <3>2. /\ minVTS' \in Nat /\ initVTS' \in 0 .. LinesMax
          /\ lineTime' = 0 /\ hdrIntTime' \in Nat
      BY <2>1, LinesAssumption DEF Cleared
    <3>3. regs' \in Regs /\ prev' \in Regs /\ hw' \in Regs BY <2>1, NoRegsOK DEF Cleared
    <3> QED BY <3>1, <3>2, <3>3 DEF TypeOK
  <2>3. Noted' /\ FrameRange' BY <2>1 DEF Cleared, Noted, FrameRange, NoRegs
  <2>4. Fits(regs)' /\ Fits(prev)' /\ Fits(hw)'
    BY <2>1, NoRegsOK DEF Cleared, Fits
  <2> QED BY <2>1, <2>2, <2>3, <2>4
          DEF Cleared, BeforeFirst, DeliveredIsCurrent, ExposureFits
<1>2. CASE ConfigUnknown \/ IspStreamOn \/ StreamOff \/ IspStreamOff
  BY <1>2 DEF ConfigUnknown, IspStreamOn, StreamOff, IspStreamOff, TypeOK, Noted, FrameRange,
     BeforeFirst, DeliveredIsCurrent, ExposureFits, Fits, TimeOf, U32
<1>3. CASE StreamOn
  <2>1. /\ main' = "run" /\ stream_on_flag' \in {0, 1} /\ stale' \in BOOLEAN
        /\ UNCHANGED <<fd, minVTS, lineTime, initVTS, hdrIntTime, regs, syncInit, prev>>
    BY <1>3 DEF StreamOn, WriteRegs, TypeOK
  <2>2. Noted' /\ FrameRange' BY <2>1 DEF Noted, FrameRange, TimeOf, U32
  <2>3. CASE WriteRegs /\ syncInit
    <3>1. PICK W \in SUBSET DOMAIN hw :
            hw' = [r \in DOMAIN hw |-> IF r \in W THEN regs[r] ELSE hw[r]]
      BY <2>3 DEF WriteRegs
    <3>2. regs \in Regs /\ prev \in Regs /\ hw \in Regs BY DEF TypeOK
    <3>3. hw' \in Regs BY <3>1, <3>2 DEF Regs
    <3>4. ~stale' => hw' = prev
      <4>1. SUFFICES ASSUME ~stale' PROVE hw' = prev OBVIOUS
      <4>2. ~stale /\ regs = prev /\ hw = prev
        BY <2>3, <4>1 DEF WriteRegs, DeliveredIsCurrent
      <4>3. \A r \in DOMAIN hw : hw'[r] = prev[r] BY <3>1, <4>2
      <4> QED BY <3>2, <3>3, <4>2, <4>3 DEF Regs
    <3>5. TypeOK' BY <2>1, <3>2, <3>3 DEF TypeOK
    <3>6. BeforeFirst' /\ DeliveredIsCurrent' /\ ExposureFits'
      BY <2>1, <2>3, <3>4 DEF BeforeFirst, DeliveredIsCurrent, ExposureFits, Fits
    <3> QED BY <2>2, <3>5, <3>6
  <2>4. CASE UNCHANGED <<hw, stale>>
    BY <2>1, <2>2, <2>4 DEF TypeOK, BeforeFirst, DeliveredIsCurrent, ExposureFits, Fits
  <2>5. CASE WriteRegs /\ ~syncInit
    <3>1. hw' = [r \in DOMAIN hw |-> hw[r]] /\ stale' = stale
      BY <2>5 DEF WriteRegs, TypeOK
    <3>2. hw' = hw BY <3>1 DEF TypeOK, Regs
    <3> QED BY <2>4, <3>1, <3>2
  <2> QED BY <1>3, <2>3, <2>4, <2>5 DEF StreamOn
<1>4. ASSUME NEW m \in Modes, Config(m) PROVE IInv'
  <2>1. /\ m.lineTime \in Nat /\ m.lineTime # 0
        /\ m.vts \in LinesMin + Adjust .. LinesMax
        /\ m.exp \in LinesMin .. m.vts - Adjust
        /\ m.again \in 0 .. AMax /\ m.dgain \in 0 .. DMax
    BY ModesAssumption, WordAssumption
  <2> DEFINE t == [exp |-> m.exp, vts |-> m.vts, again |-> m.again, dgain |-> m.dgain]
  <2>2. t \in Regs /\ Fits(t) BY <2>1, LinesAssumption DEF Regs, Fits
  <2>3. hw' = t \/ hw' = NoRegs BY <1>4 DEF Config
  <2> HIDE DEF t
  <2>4. hw' \in Regs /\ Fits(hw)' BY <2>2, <2>3, NoRegsOK DEF Fits
  <2>5. TypeOK'
    <3>1. /\ main' = "ready" /\ UNCHANGED <<fd, stream_on_flag, stale>>
          /\ syncInit' = FALSE /\ hdrIntTime' = 0
          /\ minVTS' = m.vts /\ initVTS' = m.vts /\ lineTime' = m.lineTime
          /\ regs' = NoRegs /\ prev' = NoRegs
      BY <1>4 DEF Config
    <3>2. minVTS' \in Nat /\ initVTS' \in 0 .. LinesMax
      BY <2>1, <3>1, LinesAssumption
    <3> QED BY <2>4, <3>1, <3>2, NoRegsOK DEF TypeOK
  <2>6. Noted' /\ FrameRange' BY <1>4, <2>1 DEF Config, Noted, FrameRange, NoRegs
  <2>7. regs' = NoRegs /\ prev' = NoRegs /\ syncInit' = FALSE /\ stale' = stale
    BY <1>4 DEF Config
  <2>8. Fits(regs)' /\ Fits(prev)' BY <2>7, NoRegsOK DEF Fits
  <2>10. ~stale BY <1>4 DEF Config, BeforeFirst
  <2> QED BY <1>4, <2>4, <2>5, <2>6, <2>7, <2>8, <2>10 DEF Config, BeforeFirst, DeliveredIsCurrent, ExposureFits
<1> QED BY <1>1, <1>2, <1>3, <1>4

(* The steps of auto exposure; each leaves the main thread, the device and the mode
   alone. *)
LEMMA FpsStep ==
    ASSUME IInv, NEW v \in Lines, FpsSet(v)
    PROVE  IInv'
<1>1. /\ UNCHANGED <<main, fd, stream_on_flag, minVTS, lineTime, hdrIntTime>>
      /\ UNCHANGED <<syncInit, prev, hw, stale>>
      /\ initVTS' = v /\ lineTime # 0
  BY DEF FpsSet, AeRuns, cfgVars, regVars
<1>2. v \in LinesMin + Adjust .. LinesMax /\ v \in 0 .. LinesMax BY LinesAssumption
<1>3. TypeOK BY DEF IInv
<1>4. regs' \in Regs /\ regs'.exp = regs.exp
  BY <1>2, <1>3 DEF FpsSet, TypeOK, Regs
<1>5. TypeOK' BY <1>1, <1>2, <1>3, <1>4 DEF TypeOK
<1>6. Noted' BY <1>1, <1>4 DEF IInv, Noted, TimeOf, U32
<1>7. FrameRange' BY <1>1, <1>2 DEF FrameRange
<1>8. Fits(regs)'
  <2>1. CASE LinesOf(hdrIntTime) <= v - Adjust /\ regs.exp # 0
    <3>1. regs'.vts = v BY <1>3, <2>1 DEF FpsSet, TypeOK, Regs
    <3>2. regs.exp \in 1 .. LinesMax BY <1>3, <2>1, LinesAssumption DEF TypeOK, Regs
    <3>3. hdrIntTime = TimeOf(regs.exp) BY <2>1 DEF IInv, Noted
    <3>4. LinesOf(hdrIntTime) \in Nat /\ regs.exp - 1 <= LinesOf(hdrIntTime)
      BY <1>1, <1>3, <3>2, <3>3, Rounding
    <3> HIDE DEF FpsSet
    <3>5. regs.exp + Adjust <= v + 1
      BY <1>2, <2>1, <3>2, <3>4, LinesAssumption
    <3> QED BY <1>4, <3>1, <3>5 DEF Fits
  <2>2. CASE regs.exp = 0 BY <1>4, <2>2 DEF Fits
  <2>3. CASE ~(LinesOf(hdrIntTime) <= v - Adjust)
    BY <2>3 DEF FpsSet, IInv, ExposureFits, Fits
  <2> QED BY <2>1, <2>2, <2>3
<1> QED BY <1>1, <1>5, <1>6, <1>7, <1>8
        DEF IInv, BeforeFirst, DeliveredIsCurrent, ExposureFits, Fits

LEMMA ExpoStep ==
    ASSUME IInv, NEW us \in ExpoTimes, ExpoTimeUpdate(us)
    PROVE  IInv'
<1> DEFINE e == Clamp(LinesOf(us), LinesMin, LinesMax - Adjust)
<1>1. SetExposure(e) /\ lineTime # 0 BY DEF ExpoTimeUpdate, AeRuns
<1>2. TypeOK BY DEF IInv
<1>3. e \in LinesMin .. LinesMax - Adjust
  <2>1. us \in Nat /\ LinesMin \in Nat /\ LinesMax - Adjust \in Nat
        /\ LinesMin <= LinesMax - Adjust
    BY LinesAssumption
  <2> QED BY <1>1, <1>2, <2>1, LinesOfNat, ClampRange
<1> HIDE DEF e
<1>4. e \in 1 .. LinesMax /\ e \in 0 .. LinesMax BY <1>3, LinesAssumption
<1>5. /\ UNCHANGED <<main, fd, stream_on_flag, minVTS, lineTime, initVTS>>
      /\ UNCHANGED <<syncInit, prev, hw, stale>>
      /\ hdrIntTime' = TimeOf(e)
      /\ regs' = [regs EXCEPT !.exp = e, !.vts = FrameFor(e)]
  BY <1>1 DEF SetExposure, cfgVars, regVars
<1>6. initVTS \in 0 .. LinesMax BY <1>2 DEF TypeOK
<1>7. FrameFor(e) \in 0 .. LinesMax /\ e + Adjust <= FrameFor(e)
  BY <1>3, <1>6, LinesAssumption DEF FrameFor
<1>8. regs' \in Regs /\ regs'.exp = e /\ regs'.vts = FrameFor(e)
  BY <1>2, <1>4, <1>5, <1>7 DEF TypeOK, Regs
<1>9. TypeOK'
  <2>1. hdrIntTime' \in Nat BY <1>1, <1>2, <1>4, <1>5, TimeOfExact
  <2> QED BY <1>2, <1>5, <1>8, <2>1 DEF TypeOK
<1>10. Noted' BY <1>1, <1>5, <1>8 DEF Noted, TimeOf, U32
<1>11. FrameRange' BY <1>5 DEF IInv, FrameRange
<1>12. Fits(regs)'
  <2>1. e \in Int /\ FrameFor(e) \in Int /\ Adjust \in Int BY <1>4, <1>7, LinesAssumption
  <2>2. e + Adjust <= FrameFor(e) + 1 BY <1>7, <2>1
  <2> QED BY <1>8, <2>2 DEF Fits
<1> QED BY <1>5, <1>9, <1>10, <1>11, <1>12
        DEF IInv, BeforeFirst, DeliveredIsCurrent, ExposureFits, Fits

LEMMA GainStep ==
    ASSUME IInv, NEW a \in AGains, NEW d \in DGains, GainUpdate(a, d)
    PROVE  IInv'
<1> DEFINE ag == Clamp(a \div 2, AMin, AMax)
           dg == Clamp(d \div 4, DMin, DMax)
<1>1. ag \in AMin .. AMax /\ dg \in DMin .. DMax
  <2>1. a \div 2 \in Nat /\ d \div 4 \in Nat BY GainAssumption, DivBounds
  <2> QED BY <2>1, ClampRange, GainAssumption
<1>2. /\ UNCHANGED <<main, fd, stream_on_flag, minVTS, lineTime, initVTS, hdrIntTime>>
      /\ UNCHANGED <<syncInit, prev, hw, stale>>
      /\ regs' = [regs EXCEPT !.again = ag, !.dgain = dg]
  BY DEF GainUpdate, cfgVars, regVars
<1> HIDE DEF ag, dg
<1>3. ag \in 0 .. AMax /\ dg \in 0 .. DMax BY <1>1, GainAssumption
<1>4. regs' \in Regs /\ regs'.exp = regs.exp /\ regs'.vts = regs.vts
  BY <1>2, <1>3 DEF IInv, TypeOK, Regs
<1>5. TypeOK' BY <1>2, <1>4 DEF IInv, TypeOK
<1>6. Noted' BY <1>2, <1>4 DEF IInv, Noted, TimeOf, U32
<1> QED BY <1>2, <1>4, <1>5, <1>6
        DEF IInv, FrameRange, BeforeFirst, DeliveredIsCurrent,
            ExposureFits, Fits

LEMMA GetStep ==
    ASSUME IInv, GetRegInfo
    PROVE  IInv'
<1>1. /\ UNCHANGED <<main, fd, stream_on_flag, minVTS, lineTime, initVTS, hdrIntTime>>
      /\ UNCHANGED <<regs, stale>> /\ prev' = regs /\ syncInit' = TRUE
      /\ main \notin {"closed", "opened"}
      /\ hw' = [r \in DOMAIN hw |-> IF r \in Changed THEN regs[r] ELSE hw[r]]
  BY DEF GetRegInfo, Deliver, AeRuns, cfgVars, aeVars
<1>2. regs \in Regs /\ prev \in Regs /\ hw \in Regs BY DEF IInv, TypeOK
<1>3. hw' \in Regs BY <1>1, <1>2 DEF Regs
<1>4. TypeOK' BY <1>1, <1>2, <1>3 DEF IInv, TypeOK
<1>5. Noted' /\ FrameRange' BY <1>1 DEF IInv, Noted, FrameRange, TimeOf, U32
<1>6. ~stale => hw' = regs
  <2> SUFFICES ASSUME ~stale PROVE hw' = regs OBVIOUS
  <2>1. syncInit => hw = prev BY DEF IInv, DeliveredIsCurrent
  <2>2. DOMAIN hw = DOMAIN regs BY <1>2 DEF Regs
  <2>3. \A r \in DOMAIN hw : hw'[r] = regs[r]
    BY <1>1, <2>1, <2>2 DEF Changed
  <2>4. /\ hw'.exp = regs.exp /\ hw'.vts = regs.vts
        /\ hw'.again = regs.again /\ hw'.dgain = regs.dgain
    BY <1>2, <2>3 DEF Regs
  <2> QED BY <1>2, <1>3, <2>4 DEF Regs
<1>7. ExposureFits' BY <1>1, <1>6 DEF IInv, ExposureFits, Fits
<1>8. DeliveredIsCurrent' BY <1>1, <1>6 DEF DeliveredIsCurrent
<1> QED BY <1>1, <1>4, <1>5, <1>7, <1>8 DEF IInv, BeforeFirst

-----------------------------------------------------------------------------
(* The invariant the theorems rest on: what is noted of the exposure is the time of
   its lines, the frame is at least as long as the one in force, and a context without
   a mode has no registers. *)
THEOREM InductiveInvariant == Spec => []IInv
<1>1. Init => IInv
  <2> SUFFICES ASSUME Init PROVE IInv OBVIOUS
  <2>1. TypeOK
    <3>1. fd \in BOOLEAN /\ syncInit \in BOOLEAN /\ stale \in BOOLEAN BY Zenon DEF Init
    <3>2. regs \in Regs /\ prev \in Regs /\ hw \in Regs BY NoRegsOK DEF Init
    <3> QED BY <3>1, <3>2, LinesAssumption DEF Init, TypeOK
  <2>2. Noted /\ FrameRange BY DEF Init, Noted, FrameRange, NoRegs
  <2>3. BeforeFirst /\ DeliveredIsCurrent /\ ExposureFits
    BY NoRegsOK
       DEF Init, BeforeFirst, DeliveredIsCurrent, ExposureFits
  <2> QED BY <2>1, <2>2, <2>3 DEF IInv
<1>2. IInv /\ [Next]_vars => IInv'
  <2> SUFFICES ASSUME IInv, [Next]_vars PROVE IInv' OBVIOUS
  <2>1. CASE UNCHANGED vars
    BY <2>1 DEF vars, cfgVars, aeVars, regVars, IInv, TypeOK, Noted, FrameRange, BeforeFirst,
                DeliveredIsCurrent, ExposureFits, Fits, TimeOf, U32
  <2>2. CASE Next BY <2>2, MainStep, FpsStep, ExpoStep, GainStep, GetStep DEF Next
  <2> QED BY <2>1, <2>2
<1> QED BY <1>1, <1>2, PTL DEF Spec

(* Every register that is set, given or written is in the sensor's range, for every
   exposure and frame rate asked for and through the overflow of the multiplication. *)
THEOREM SensorTypeCorrect == Spec => []TypeOK
BY InductiveInvariant, PTL DEF IInv

(* The changes that are given add up to all the registers. *)
THEOREM ChangesAddUp == Spec => []DeliveredIsCurrent
BY InductiveInvariant, PTL DEF IInv

(* An exposure never needs more lines than its frame has, less the lines kept free and
   up to the one line of the rounding. *)
THEOREM ExposureAlwaysFits == Spec => []ExposureFits
BY InductiveInvariant, PTL DEF IInv

-----------------------------------------------------------------------------
LEMMA RateStep ==
    ASSUME IInv, NEW us \in ExpoTimes, ExpoTimeUpdate(us), us <= ExpoTimeByFps(initVTS)
    PROVE  regs'.vts = initVTS
<1> DEFINE room == initVTS - Adjust
           e == Clamp(LinesOf(us), LinesMin, LinesMax - Adjust)
<1>1. SetExposure(e) /\ lineTime # 0 /\ TypeOK BY DEF ExpoTimeUpdate, AeRuns, IInv
<1>2. lineTime \in Nat \ {0} BY <1>1, LineTime
<1>3. us \in Nat /\ us <= TimeOf(room) BY LinesAssumption DEF ExpoTimeByFps
<1>4. initVTS \in LinesMin + Adjust .. LinesMax BY <1>1 DEF IInv, FrameRange
<1>5. room \in 0 .. LinesMax /\ room \in Nat /\ LinesMin <= room BY <1>4, LinesAssumption
<1>6. LinesOf(us) \in Nat /\ LinesOf(us) <= room
  <2> HIDE DEF room
  <2>1. /\ TimeOf(room) \in Nat /\ TimeOf(room) * Milli <= room * lineTime
        /\ room * lineTime < Word
    BY <1>1, <1>5, TimeOfExact
  <2>2. us * Milli \in Nat /\ us * Milli <= TimeOf(room) * Milli
    BY <1>3, <2>1, MulMonotone, WordAssumption
  <2>3. room * lineTime \in Nat BY <1>2, <1>5
  <2>4. TimeOf(room) * Milli \in Nat BY <2>1, WordAssumption
  <2>5. us * Milli <= room * lineTime /\ us * Milli < Word
    BY <2>1, <2>2, <2>3, <2>4, WordAssumption
  <2>6. LinesOf(us) = (us * Milli) \div lineTime
    BY <2>2, <2>5, ModSmall, WordAssumption DEF LinesOf, U32
  <2> QED BY <1>2, <1>5, <2>2, <2>5, <2>6, DivAtMost, DivBounds
<1>7. e <= room /\ e \in Nat
  BY <1>4, <1>5, <1>6, LinesAssumption DEF Clamp
<1>8. FrameFor(e) = initVTS BY <1>4, <1>5, <1>7, LinesAssumption DEF FrameFor
<1>9. regs' = [regs EXCEPT !.exp = e, !.vts = FrameFor(e)] BY <1>1 DEF SetExposure
<1>10. regs \in Regs BY <1>1 DEF TypeOK
<1> HIDE DEF e
<1> QED BY <1>8, <1>9, <1>10 DEF Regs

(* The limit the driver gives for a frame rate is one it keeps: an exposure up to it
   never lengthens the frame, whatever is lost to rounding on the way there and back. *)
THEOREM RateIsHeld == Spec => RateHeld
<1>1. IInv /\ [Next]_vars =>
         [\A us \in ExpoTimes :
            ExpoTimeUpdate(us) /\ us <= ExpoTimeByFps(initVTS)
                => regs'.vts = initVTS]_vars
  BY RateStep
<1> QED BY <1>1, InductiveInvariant, PTL DEF Spec, RateHeld
=============================================================================
