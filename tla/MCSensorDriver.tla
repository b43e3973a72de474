--------------------------- MODULE MCSensorDriver ---------------------------
(* The instance of SensorDriver that SensorDriver.cfg checks: lines of 13 tenths of a
   microsecond in a word of 8192 tenths, so that the rounding of exposures and the
   overflow of a long one (820) happen. *)
EXTENDS SensorDriver

MCModes == {[vts |-> 16, lineTime |-> 13, exp |-> 8, again |-> 1, dgain |-> 1],
            [vts |-> 20, lineTime |-> 30, exp |-> 12, again |-> 1, dgain |-> 1]}
MCLines == {16, 20, 24}
MCExpoTimes == {0, 11, 15, 17, 60, 820}
MCAGains == {1, 6}
MCDGains == {8}
=============================================================================
