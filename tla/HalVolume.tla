----------------------------- MODULE HalVolume ------------------------------
(***************************************************************************)
(* The conversion between the 0-100% of the HAL and the raw values of an   *)
(* ALSA control (HAL-interface/hal-volume.c).  A control is a record with  *)
(* its raw range [minval, maxval] and its decibel range [dbmin, dbmax];    *)
(* a control without a decibel scale has dbmin = dbmax.                    *)
(***************************************************************************)
EXTENDS Integers

MaxLinearDbScale == 24

HasDbScale(ctl) == ctl.dbmin < ctl.dbmax

(* volumeNormalise answers NULL for a control without any range. *)
HasRange(ctl) == HasDbScale(ctl) \/ ctl.minval < ctl.maxval

(* A short decibel scale is left as it is, any other is taken as linear. *)
IsLinear(ctl) ==
    HasDbScale(ctl) => ctl.dbmax - ctl.dbmin > MaxLinearDbScale * 100

(* ACTION_GET; the division truncates, and value is never below minval. *)
ToPercent(ctl, value) ==
    IF IsLinear(ctl)
    THEN (100 * (value - ctl.minval)) \div (ctl.maxval - ctl.minval)
    ELSE value

(* ACTION_SET: minval is not added back. *)
ToRaw(ctl, value) ==
    IF IsLinear(ctl)
    THEN (value * (ctl.maxval - ctl.minval)) \div 100
    ELSE value
=============================================================================
