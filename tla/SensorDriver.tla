---------------------------- MODULE SensorDriver ----------------------------
(***************************************************************************)
(* The driver of one sensor, sensors/sensor/ov13b10_sensor.c on the device *)
(* of cam_sensor.c, between its two callers: the main thread, which opens, *)
(* configures, starts, stops and closes it (sensor_common.c), and the      *)
(* ISP's auto exposure, which sets frame length, exposure and gain and     *)
(* fetches the registers that have changed.  Every operation holds apiLock *)
(* and is one step.                                                        *)
(*                                                                         *)
(* sensorRegs[0] and [1] are regs and prev; the bytes of one quantity are  *)
(* one field.  hw is what the sensor has been told.  Times and lines are   *)
(* computed in words of 32 bits, which Word stands for.                    *)
(***************************************************************************)
EXTENDS Integers

CONSTANTS Modes,      \* work modes: [vts, lineTime, exp, again, dgain]
          Lines,      \* frame lengths a frame rate may ask for
          ExpoTimes, AGains, DGains,  \* what auto exposure asks for
          Word, Milli,                \* 2^32, 1000
          Adjust, LinesMin, LinesMax, \* OV13B10_VTS_ADJUST, _EXPO_LINES_MIN, _VTS_LINES_MAX
          AMin, AMax, DMin, DMax      \* limits of the gain registers

ASSUME WordAssumption == Word \in Nat \ {0} /\ Milli \in Nat \ {0}

ASSUME LinesAssumption ==
    /\ Adjust \in Nat /\ LinesMin \in Nat \ {0} /\ LinesMax \in Nat
    /\ LinesMin + Adjust <= LinesMax
    /\ Lines \subseteq LinesMin + Adjust .. LinesMax
    /\ ExpoTimes \subseteq Nat

ASSUME GainAssumption ==
    /\ AGains \subseteq Nat /\ DGains \subseteq Nat
    /\ AMin \in Nat \ {0} /\ AMax \in Nat /\ AMin <= AMax
    /\ DMin \in Nat \ {0} /\ DMax \in Nat /\ DMin <= DMax

Regs == [exp : 0 .. LinesMax, vts : 0 .. LinesMax, again : 0 .. AMax, dgain : 0 .. DMax]

(* The settings of a mode fit the sensor: a line takes a microsecond or more, and a
   frame of the most lines does not overflow a word. *)
ASSUME ModesAssumption ==
    \A m \in Modes :
        /\ m.lineTime \in Nat /\ m.lineTime >= Milli /\ LinesMax * m.lineTime < Word
        /\ m.vts \in LinesMin + Adjust .. LinesMax
        /\ m.exp \in LinesMin .. m.vts - Adjust
        /\ m.again \in 0 .. AMax /\ m.dgain \in 0 .. DMax

VARIABLES
    main,            \* where the main thread is
    fd,              \* the device is open
    stream_on_flag, syncInit,
    minVTS, initVTS, lineTime,
    hdrIntTime,      \* the exposure in microseconds, of channel 0
    regs, prev, hw,
    stale            \* a stream was started with registers never fetched

cfgVars == <<minVTS, lineTime>>
aeVars  == <<initVTS, hdrIntTime, regs>>
regVars == <<syncInit, prev, hw, stale>>
vars == <<main, fd, stream_on_flag, cfgVars, aeVars, regVars>>

NoRegs == [exp |-> 0, vts |-> 0, again |-> 0, dgain |-> 0]

(* A context as calloc leaves it. *)
Cleared ==
    /\ stream_on_flag' = 0 /\ syncInit' = FALSE
    /\ minVTS' = 0 /\ initVTS' = 0 /\ lineTime' = 0 /\ hdrIntTime' = 0
    /\ regs' = NoRegs /\ prev' = NoRegs /\ hw' = NoRegs /\ stale' = FALSE

Init ==
    /\ main = "closed" /\ fd = FALSE
    /\ stream_on_flag = 0 /\ syncInit = FALSE
    /\ minVTS = 0 /\ initVTS = 0 /\ lineTime = 0 /\ hdrIntTime = 0
    /\ regs = NoRegs /\ prev = NoRegs /\ hw = NoRegs /\ stale = FALSE

-----------------------------------------------------------------------------
(* The main thread. *)

(* SPM_SENSOR_Open; whether the device opened is not looked at. *)
Open ==
    /\ main = "closed" /\ main' = "opened"
    /\ fd' \in BOOLEAN
    /\ Cleared

(* SPM_SENSOR_Config with a mode the module has.  The settings are noted before they
   are written, and the result is not looked at. *)
Config(m) ==
    /\ main = "opened" /\ main' = "ready"
    /\ minVTS' = m.vts /\ initVTS' = m.vts /\ lineTime' = m.lineTime
    /\ hdrIntTime' = 0
    /\ regs' = NoRegs /\ prev' = NoRegs
    /\ syncInit' = FALSE
    /\ \/ fd /\ hw' = [exp |-> m.exp, vts |-> m.vts, again |-> m.again, dgain |-> m.dgain]
       \/ hw' = NoRegs   \* a write failed
    /\ UNCHANGED <<fd, stream_on_flag, stale>>

(* SPM_SENSOR_Config with a mode it does not have. *)
ConfigUnknown ==
    /\ main = "opened" /\ main' = "ready"
    /\ UNCHANGED <<fd, stream_on_flag, cfgVars, aeVars, regVars>>

(* viisp_isp_streamOn and streamOff; in between auto exposure runs. *)
IspStreamOn ==
    /\ main = "ready" /\ main' = "isp"
    /\ UNCHANGED <<fd, stream_on_flag, cfgVars, aeVars, regVars>>

IspStreamOff ==
    /\ main = "stopped" /\ main' = "ready"
    /\ UNCHANGED <<fd, stream_on_flag, cfgVars, aeVars, regVars>>

(* The MIPI clock is set on an open device, to 80 or more: every mode has such a clock,
   a context without a mode has clock 0. *)
ClockValid == fd /\ lineTime # 0

(* The registers are written, once it is known which they are; one that cannot be
   written (not in W) is passed over. *)
WriteRegs ==
    /\ \E W \in SUBSET DOMAIN hw :
           hw' = [r \in DOMAIN hw |-> IF syncInit /\ r \in W THEN regs[r] ELSE hw[r]]
    /\ stale' = (stale \/ (syncInit /\ regs # prev))

(* Without its clock the sensor does not start, which the main thread does not look
   at; a device may refuse a valid clock. *)
StreamOn ==
    /\ main = "isp" /\ main' = "run"
    /\ \/ ClockValid /\ stream_on_flag' = 1 /\ WriteRegs
       \/ UNCHANGED <<stream_on_flag, hw, stale>>
    /\ UNCHANGED <<fd, cfgVars, aeVars, syncInit, prev>>

StreamOff ==
    /\ main = "run" /\ main' = "stopped"
    /\ stream_on_flag' = 0
    /\ UNCHANGED <<fd, cfgVars, aeVars, regVars>>

(* SPM_SENSOR_Close: the sensor is reset and the context freed. *)
Close ==
    /\ main = "ready" /\ main' = "closed"
    /\ fd' = FALSE
    /\ Cleared

-----------------------------------------------------------------------------
(* The ISP's auto exposure, while the ISP runs.  Without a mode there is no line time
   to divide by. *)

AeRuns == main \in {"isp", "run", "stopped"} /\ lineTime # 0

U32(n) == n % Word
Clamp(n, lo, hi) == IF n < lo THEN lo ELSE IF n > hi THEN hi ELSE n

LinesOf(us) == U32(us * Milli) \div lineTime
TimeOf(lines) == U32(lines * lineTime) \div Milli

(* pfn_sensor_get_expotime_by_fps, of the frame length the rate comes to. *)
ExpoTimeByFpsNoAdjust(v) == TimeOf(v)
ExpoTimeByFps(v) == TimeOf(v - Adjust)

(* pfn_sensor_fps_set: a rate that asks for v lines. *)
(* Mutant: the exposure is not looked at. *)
FpsSetAnyway(v) ==
    /\ AeRuns /\ v >= minVTS
    /\ initVTS' = v
    /\ regs' = [regs EXCEPT !.vts = v]
    /\ UNCHANGED <<main, fd, stream_on_flag, cfgVars, hdrIntTime, regVars>>

FpsSet(v) ==
    /\ AeRuns /\ v >= minVTS
    /\ initVTS' = v
    /\ regs' = IF LinesOf(hdrIntTime) <= v - Adjust THEN [regs EXCEPT !.vts = v] ELSE regs
    /\ UNCHANGED <<main, fd, stream_on_flag, cfgVars, hdrIntTime, regVars>>

(* pfn_sensor_expotime_update: a frame is as long as the exposure needs. *)
FrameFor(e) == IF e > initVTS - Adjust THEN e + Adjust ELSE initVTS

SetExposure(e) ==
    /\ hdrIntTime' = TimeOf(e)
    /\ regs' = [regs EXCEPT !.exp = e, !.vts = FrameFor(e)]
    /\ UNCHANGED <<main, fd, stream_on_flag, cfgVars, initVTS, regVars>>

(* Mutant: the exposure has no upper limit. *)
ExpoTimeUpdateUnlimited(us) ==
    AeRuns /\ SetExposure(IF LinesOf(us) < LinesMin THEN LinesMin ELSE LinesOf(us))

ExpoTimeUpdate(us) ==
    AeRuns /\ SetExposure(Clamp(LinesOf(us), LinesMin, LinesMax - Adjust))

(* pfn_sensor_gain_update, from Q8 to Q7 and from Q12 to Q10. *)
GainUpdate(a, d) ==
    /\ AeRuns
    /\ regs' = [regs EXCEPT !.again = Clamp(a \div 2, AMin, AMax),
                            !.dgain = Clamp(d \div 4, DMin, DMax)]
    /\ UNCHANGED <<main, fd, stream_on_flag, cfgVars, initVTS, hdrIntTime, regVars>>

(* pfn_sensor_get_reg_info: the first time every register is given to be written, then
   those that have changed since the last time.  The ISP asks once auto exposure has
   set exposure and gain. *)
Changed == {r \in DOMAIN regs : ~syncInit \/ regs[r] # prev[r]}
Deliver == hw' = [r \in DOMAIN hw |-> IF r \in Changed THEN regs[r] ELSE hw[r]]

(* Mutant: what has been given is noted only the first time. *)
GetRegInfoNotedOnce ==
    /\ AeRuns /\ regs.exp # 0 /\ regs.again # 0
    /\ Deliver
    /\ prev' = IF syncInit THEN prev ELSE regs
    /\ syncInit' = TRUE
    /\ UNCHANGED <<main, fd, stream_on_flag, cfgVars, aeVars, stale>>

GetRegInfo ==
    /\ AeRuns /\ regs.exp # 0 /\ regs.again # 0
    /\ Deliver
    /\ prev' = regs
    /\ syncInit' = TRUE
    /\ UNCHANGED <<main, fd, stream_on_flag, cfgVars, aeVars, stale>>

-----------------------------------------------------------------------------
Next ==
    \/ Open \/ ConfigUnknown \/ IspStreamOn \/ StreamOn \/ StreamOff \/ IspStreamOff \/ Close
    \/ \E m \in Modes : Config(m)
    \/ \E v \in Lines : FpsSet(v)
    \/ \E us \in ExpoTimes : ExpoTimeUpdate(us)
    \/ \E a \in AGains, d \in DGains : GainUpdate(a, d)
    \/ GetRegInfo

Spec == Init /\ [][Next]_vars

-----------------------------------------------------------------------------
(* Every variable has its type; no register is ever set beyond the sensor's range. *)
TypeOK ==
    /\ main \in {"closed", "opened", "ready", "isp", "run", "stopped"}
    /\ fd \in BOOLEAN /\ stream_on_flag \in {0, 1}
    /\ syncInit \in BOOLEAN /\ stale \in BOOLEAN
    /\ minVTS \in Nat /\ initVTS \in 0 .. LinesMax
    /\ lineTime = 0 \/ \E m \in Modes : lineTime = m.lineTime
    /\ hdrIntTime \in Nat
    /\ regs \in Regs /\ prev \in Regs /\ hw \in Regs

(* What the ISP was last given is what the sensor has, although only the changes are
   given: unless a stream was started with registers the ISP had not fetched. *)
DeliveredIsCurrent == syncInit /\ ~stale => hw = prev

(* The exposure leaves the last lines of its frame free (OV13B10_VTS_ADJUST, "vts -
   max_exposure"), in the registers that are computed, given and written, whatever order
   frame rates and exposures are set in; one line less when fps_set has computed the
   lines again from the rounded microseconds. *)
Fits(r) == r.exp = 0 \/ r.exp + Adjust <= r.vts + 1
ExposureFits == Fits(regs) /\ Fits(prev) /\ (~stale => Fits(hw))

(* An exposure no longer than the driver says the frame rate allows does not slow the
   frame rate down. *)
RateHeld ==
    [][\A us \in ExpoTimes :
         ExpoTimeUpdate(us) /\ us <= ExpoTimeByFps(initVTS)
             => regs'.vts = initVTS]_vars
=============================================================================
