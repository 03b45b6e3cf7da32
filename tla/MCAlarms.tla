------------------------------ MODULE MCAlarms ------------------------------
(* Instances of Alarms for TLC.  The limits are those of ALARM_THRESHOLDS. *)
EXTENDS Alarms, TLC

\* Register 1028, Temperature; register 1029, Pressure.
Temperature == [warn_high |-> 85, crit_high |-> 100]
Pressure == [warn_high |-> 1200, crit_high |-> 1400]
OneThreshold == <<Temperature>>
BothThresholds == <<Temperature, Pressure>>

UserSymmetry == Permutations(Users)
=============================================================================
