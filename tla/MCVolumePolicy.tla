---------------------------- MODULE MCVolumePolicy --------------------------
(* Two controls of the sample configuration and three HALs: one with a coarse *)
(* range, which loses a raw step to the roundings, one with a range of 100,   *)
(* and one whose range does not start at 0, where every ctlset is refused.    *)
EXTENDS VolumePolicy

MCHals == <<"jabra", "most", "scarlett">>
MCVal == [c \in Controls |-> IF c = "Navigation" THEN 40 ELSE 20]
Linear(min, max) == [minval |-> min, maxval |-> max, dbmin |-> 0, dbmax |-> 0]
MCCtl == [h \in ToSet(MCHals) |->
            CASE h = "jabra"    -> Linear(0, 7)
              [] h = "most"     -> Linear(0, 100)
              [] h = "scarlett" -> Linear(10, 12)]
MCUserVols == [h \in ToSet(MCHals) |->
                 CASE h = "jabra"    -> {5, 7}
                   [] h = "most"     -> {60, 90}
                   [] h = "scarlett" -> {11}]
=============================================================================
