---------------------------- MODULE VolumePolicy ----------------------------
(***************************************************************************)
(* The volume policy of the controller (lua.d/onload-aaaa-03-controls.lua):*)
(* a control that is granted for a time lowers one volume on every HAL and *)
(* restores it when it is released.                                        *)
(*                                                                         *)
(* As in json.d/onload-aaaa-sample.json all controls adjust the same       *)
(* volume.  A control function has the Lua interpreter for itself, but the *)
(* volume is read and written by calls to the HALs, and other clients of   *)
(* a HAL set it at any time.  The controller sees percentages and the card *)
(* raw volumes: the HAL truncates both ways.  A permanent control differs  *)
(* in nothing but its name; one that is kept is never released.            *)
(***************************************************************************)
EXTENDS HalVolume, FiniteSets, SequencesExt

CONSTANTS
    Hals,           \* the HALs of the registry, in its order
    Controls,       \* labels of controls
    Val,            \* [Controls -> percentage a control adjusts the volume to]
    Ctl,            \* [HALs -> range of the control that is adjusted]
    UserVols,       \* [HALs -> raw volumes other clients set]
    MaxFails        \* bound: calls to a HAL that fail

NoVol == -1                         \* nil
HalSet == ToSet(Hals)

Raw(h)   == Ctl[h].minval .. Ctl[h].maxval
Percents == 0 .. 100

(* A HAL registers itself once, when it starts. *)
ASSUME PolicyAssumption ==
    /\ Hals \in Seq(HalSet) /\ IsInjective(Hals)
    /\ \A h \in HalSet :
          /\ Ctl[h].minval \in Int /\ Ctl[h].maxval \in Int /\ Ctl[h].minval < Ctl[h].maxval
          /\ IsLinear(Ctl[h]) /\ UserVols[h] \subseteq Raw(h)
    /\ Val \in [Controls -> Percents] /\ MaxFails \in Nat

VARIABLES
    vol,        \* [HalSet -> raw volume]
    saved,      \* [HalSet -> percentage or NoVol]  _CurrentHalVolume
    running,    \* the control under way: [source, ctl, todo, read], or Idle
    held,       \* controls granted and not released
    wanted,     \* [HalSet -> raw volume]  history: what it was when the first of
                \* the controls was asked for, or was set to without a control
    clean,      \* history: controls were granted one at a time, and no call failed
    touched,    \* HALs other clients have set since a control was asked for
    fails       \* history: calls that failed

vars == <<vol, saved, running, held, wanted, clean, touched, fails>>

Idle == [source |-> "none", ctl |-> "none", todo |-> <<>>, read |-> NoVol]

Init ==
    /\ vol \in [HalSet -> UNION {UserVols[h] : h \in HalSet}]
    /\ \A h \in HalSet : vol[h] \in UserVols[h]
    /\ saved = [h \in HalSet |-> NoVol]
    /\ running = Idle
    /\ held = {}
    /\ wanted = vol
    /\ clean = TRUE
    /\ touched = {}
    /\ fails = 0

-----------------------------------------------------------------------------
(* Source 0: a control is requested.  A client requests what it does not have. *)
Request(c) ==
    /\ running = Idle /\ c \notin held
    /\ running' = [source |-> "request", ctl |-> c, todo |-> Hals, read |-> NoVol]
    /\ clean' = (clean /\ held = {})
    /\ IF held = {} THEN touched' = {} /\ wanted' = vol
       ELSE UNCHANGED <<touched, wanted>>
    /\ UNCHANGED <<vol, saved, held, fails>>

(* Source -1: it is released. *)
Release(c) ==
    /\ running = Idle /\ c \in held
    /\ running' = [source |-> "release", ctl |-> c, todo |-> Hals, read |-> NoVol]
    /\ UNCHANGED <<vol, saved, held, wanted, clean, touched, fails>>

HalNow == Head(running.todo)
NextHal  == [running EXCEPT !.todo = Tail(@), !.read = NoVol]

(* ctlget *)
Percent(h) == ToPercent(Ctl[h], vol[h])

(* ctlset; the card refuses a volume out of its range, of which nobody hears. *)
Put(h, percent) ==
    IF ToRaw(Ctl[h], percent) \in Raw(h)
    THEN [vol EXCEPT ![h] = ToRaw(Ctl[h], percent)] ELSE vol

(* Mutant: the volume of a HAL is saved only once. *)
GetVolumeOnce ==
    /\ running.source = "request" /\ running.todo # <<>> /\ running.read = NoVol
    /\ running' = [running EXCEPT !.read = Percent(HalNow)]
    /\ saved' = [saved EXCEPT ![HalNow] = IF @ = NoVol THEN Percent(HalNow) ELSE @]
    /\ UNCHANGED <<vol, held, wanted, clean, touched, fails>>

(* ctlget, and its answer saved for the HAL, whatever the label was. *)
GetVolume ==
    /\ running.source = "request" /\ running.todo # <<>> /\ running.read = NoVol
    /\ running' = [running EXCEPT !.read = Percent(HalNow)]
    /\ saved' = [saved EXCEPT ![HalNow] = Percent(HalNow)]
    /\ UNCHANGED <<vol, held, wanted, clean, touched, fails>>

(* A HAL without an answer ends the loop; the control is granted all the    *)
(* same, for the result is compared with nil.                               *)
GetFails ==
    /\ running.source = "request" /\ running.todo # <<>> /\ running.read = NoVol
    /\ fails < MaxFails /\ fails' = fails + 1
    /\ running' = [running EXCEPT !.todo = <<>>]
    /\ clean' = FALSE
    /\ UNCHANGED <<vol, saved, held, wanted, touched>>

(* Mutant: only the first HAL is adjusted. *)
AdjustFirst ==
    /\ running.read # NoVol
    /\ vol' = Put(HalNow, Val[running.ctl])
    /\ running' = [running EXCEPT !.todo = <<>>, !.read = NoVol]
    /\ UNCHANGED <<saved, held, wanted, clean, touched, fails>>

(* Mutant: the volume read is taken for the next HAL too. *)
AdjustKeepsRead ==
    /\ running.read # NoVol
    /\ vol' = Put(HalNow, Val[running.ctl])
    /\ running' = [running EXCEPT !.todo = Tail(@)]
    /\ UNCHANGED <<saved, held, wanted, clean, touched, fails>>

Adjust ==
    /\ running.read # NoVol
    /\ vol' = Put(HalNow, Val[running.ctl])
    /\ running' = NextHal
    /\ UNCHANGED <<saved, held, wanted, clean, touched, fails>>

Restore ==
    /\ running.source = "release" /\ running.todo # <<>>
    /\ vol' = IF saved[HalNow] = NoVol THEN vol ELSE Put(HalNow, saved[HalNow])
    /\ running' = NextHal
    /\ UNCHANGED <<saved, held, wanted, clean, touched, fails>>

(* A ctlget without an "err" leaves the HAL out; best effort: the result of a *)
(* ctlset is not looked at.                                                   *)
HalSkipped ==
    /\ running.todo # <<>>
    /\ fails < MaxFails /\ fails' = fails + 1
    /\ running' = NextHal
    /\ clean' = FALSE
    /\ UNCHANGED <<vol, saved, held, wanted, touched>>

Finish ==
    /\ running # Idle /\ running.todo = <<>>
    /\ held' = IF running.source = "request" THEN held \union {running.ctl}
               ELSE held \ {running.ctl}
    /\ running' = Idle
    /\ UNCHANGED <<vol, saved, wanted, clean, touched, fails>>

(* Another client, a slider for one, sets the volume.  It is what is wanted *)
(* without controls if none is held or under way.                           *)
UserSet(h, v) ==
    /\ v # vol[h]
    /\ vol' = [vol EXCEPT ![h] = v]
    /\ IF held = {} /\ running = Idle
       THEN wanted' = [wanted EXCEPT ![h] = v] /\ UNCHANGED touched
       ELSE touched' = touched \union {h} /\ UNCHANGED wanted
    /\ UNCHANGED <<saved, running, held, clean, fails>>

Step == GetVolume \/ GetFails \/ Adjust \/ Restore \/ HalSkipped \/ Finish

Next ==
    \/ \E c \in Controls : Request(c) \/ Release(c)
    \/ Step
    \/ \E h \in HalSet : \E v \in UserVols[h] : UserSet(h, v)

Spec == Init /\ [][Next]_vars

-----------------------------------------------------------------------------
TypeOK ==
    /\ vol \in [HalSet -> Int] /\ wanted \in [HalSet -> Int]
    /\ \A h \in HalSet : vol[h] \in Raw(h) /\ wanted[h] \in Raw(h)
    /\ saved \in [HalSet -> Percents \union {NoVol}]
    /\ running.source \in {"none", "request", "release"}
    /\ running.source # "none" => running.ctl \in Controls
    /\ running.source = "request" => running.ctl \notin held
    /\ running.source = "release" => running.ctl \in held
    /\ running.read # NoVol => running.source = "request" /\ running.todo # <<>>
    /\ IsSuffix(running.todo, Hals)
    /\ held \subseteq Controls /\ touched \subseteq HalSet /\ fails \in 0 .. MaxFails

(* The HALs a control can be said to adjust: those nobody else set since it was *)
(* asked for, with a range from 0, for a ctlset does not add minval.            *)
Untouched == {h \in HalSet \ touched : Ctl[h].minval = 0}

(* What the two truncations leave of the volume that is wanted: never more, *)
(* and less by a percent of the range and one raw step at most.             *)
Restored(h) ==
    /\ vol[h] <= wanted[h]
    /\ 100 * (wanted[h] - vol[h]) < Ctl[h].maxval + 100

(* "when label is release reverse action at preempt time": without a control *)
(* every HAL has the volume it had when the last one was asked for, up to the *)
(* rounding of one reading and one writing; provided that controls were never *)
(* held together, no call failed, and other clients left the volume alone.    *)
RestoresUnlessNested ==
    clean /\ held = {} /\ running = Idle => \A h \in Untouched : Restored(h)

(* The same of controls that are held together, as those of the sample      *)
(* configuration are.                                                       *)
RestoresVolume ==
    fails = 0 /\ held = {} /\ running = Idle => \A h \in Untouched : Restored(h)

(* While a single control is held every HAL has its value, provided that no *)
(* call failed: the grant itself says nothing of it.                        *)
GrantedMeansAdjusted ==
    clean /\ running = Idle =>
        \A c \in held : \A h \in Untouched : vol[h] = ToRaw(Ctl[h], Val[c])
=============================================================================
