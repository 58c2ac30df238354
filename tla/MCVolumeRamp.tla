---------------------------- MODULE MCVolumeRamp ----------------------------
(* The slave is a softvol control of the Jabra HAL, 0 to 255. *)
EXTENDS VolumeRamp

SoftVolume == [minval |-> 0, maxval |-> 255, dbmin |-> 0, dbmax |-> 0]
=============================================================================
