----------------------------- MODULE VolumeRamp -----------------------------
(***************************************************************************)
(* The software volume ramp of the HALs (HAL-interface/hal-volramp.c).     *)
(* Moving a ramp control starts a timer that steps the volume of a slave   *)
(* control towards a target; further controls change how the ramp steps.   *)
(* Timers and control events are handlers of the binder's event loop and   *)
(* run to completion, but nothing keeps a second ramp from starting while  *)
(* the timer of the first is armed: both then step the same handle.        *)
(*                                                                         *)
(* Time is counted in ticks; a timer may fire late.                        *)
(***************************************************************************)
EXTENDS HalVolume, FiniteSets

CONSTANTS
    Control,        \* range of the slave controls
    Slaves,         \* controls a ramp may have as slave
    Sources,        \* timers that can be armed at the same time (bound)
    InitialRaw,     \* raw volumes of the slave at start
    ForeignRaw,     \* raw volumes other clients give the slave
    Targets,        \* volumes users ask of the ramp control
    Modes,          \* ramp modes users choose
    Steps,          \* steps users choose
    Ticks50,        \* ticks in 50 ms
    Delays          \* delays users choose, in ticks

Off      == -1      \* no timer armed
Raw      == Control.minval .. Control.maxval
Percents == 0 .. 100

ASSUME RampAssumption ==
    /\ Control.minval \in Int /\ Control.maxval \in Int /\ Control.minval < Control.maxval
    /\ HasRange(Control) /\ IsLinear(Control)
    /\ InitialRaw \subseteq Raw /\ ForeignRaw \subseteq Raw
    /\ Targets \subseteq Percents /\ Steps \subseteq Nat
    /\ Ticks50 \in Nat \ {0} /\ Delays \subseteq Nat
    /\ Modes \subseteq {"smooth", "normal", "emergency"}

VARIABLES
    slave, delay, stepDown, stepUp,     \* fields of halVolRampT
    current, target,                    \* fields of halVolRampT
    timers,     \* [Sources -> ticks until it is due, or Off]
    card,       \* [Slaves -> Raw]  volumes of the sound card
    hold,       \* history: ticks the latest volume of the ramp must still stand
    overlapped, \* history: a ramp was started while a timer was armed
    abandoned,  \* history: a timer was given up since the latest ramp started
    refused,    \* history: the card refused the latest volume of that ramp
    foreign     \* history: the slave was changed, or set by others, since then

config  == <<slave, delay, stepDown, stepUp>>
history == <<hold, overlapped, abandoned, refused, foreign>>
vars == <<config, current, target, timers, card, history>>

Armed == {s \in Sources : timers[s] # Off}

(* volRampMaster; the rest of the handle is zero. *)
Init ==
    /\ slave \in Slaves /\ delay = 2 * Ticks50 /\ stepDown = 1 /\ stepUp = 1
    /\ current = 0 /\ target = 0
    /\ timers = [s \in Sources |-> Off]
    /\ card \in [Slaves -> InitialRaw]
    /\ hold = 0
    /\ overlapped = FALSE /\ abandoned = FALSE /\ refused = FALSE /\ foreign = TRUE

-----------------------------------------------------------------------------
(* Mutant: the ramp starts from what the handle remembers of the volume. *)
StartRampStale(percent, s) ==
    /\ s \notin Armed
    /\ target' = percent
    /\ timers' = [timers EXCEPT ![s] = 0]
    /\ hold' = 0
    /\ overlapped' = (overlapped \/ Armed # {})
    /\ abandoned' = FALSE /\ refused' = FALSE /\ foreign' = FALSE
    /\ UNCHANGED <<config, current, card>>

(* volumeDoRamp, when the slave can be read; otherwise nothing changes. *)
StartRamp(percent, s) ==
    /\ s \notin Armed
    /\ target' = percent
    /\ current' = ToPercent(Control, card[slave])
    /\ timers' = [timers EXCEPT ![s] = 0]
    /\ hold' = 0
    /\ overlapped' = (overlapped \/ Armed # {})
    /\ abandoned' = FALSE /\ refused' = FALSE /\ foreign' = FALSE
    /\ UNCHANGED <<config, card>>

(* Mutant: a step may go past the target. *)
SteppedUnclamped ==
    IF current > target THEN current - stepDown
    ELSE IF current < target THEN current + stepUp
    ELSE current

(* One step down or up, never past the target. *)
Stepped ==
    LET lower == IF current - stepDown < target THEN target ELSE current - stepDown
        upper == IF current + stepUp > target THEN target ELSE current + stepUp
    IN  IF current > target THEN lower
        ELSE IF current < target THEN upper
        ELSE current

(* The next volume is computed and, at the target, the timer ends. *)
StepTo(s, again) ==
    /\ timers[s] = 0
    /\ current' = Stepped
    /\ timers' = [timers EXCEPT ![s] = IF current' = target THEN Off ELSE again]
    /\ hold' = delay
    /\ UNCHANGED <<config, target, overlapped, abandoned, foreign>>

(* The card takes the volume, which has to be in the range of the slave. *)
Written ==
    /\ ToRaw(Control, current') \in Raw
    /\ card' = [card EXCEPT ![slave] = ToRaw(Control, current')]
    /\ refused' = FALSE

(* Mutants: the timer is due again at once; it is dropped before the target; *)
(* it is armed again at the target, too.                                     *)
FireAtOnce(s) == StepTo(s, 0) /\ Written
FireOnce(s)   == StepTo(s, Off) /\ Written
FireForever(s) ==
    /\ timers[s] = 0
    /\ current' = Stepped
    /\ timers' = [timers EXCEPT ![s] = delay]
    /\ hold' = delay
    /\ Written
    /\ UNCHANGED <<config, target, overlapped, abandoned, foreign>>

(* RampTimerCB *)
Fire(s) == StepTo(s, delay) /\ Written

(* RampTimerCB, when the card refuses the volume: the core answers success   *)
(* with a warning, which nobody reads, and the ramp goes on.                 *)
FireRefused(s) ==
    /\ StepTo(s, delay)
    /\ refused' = TRUE
    /\ UNCHANGED card

(* RampTimerCB, when the call to the core fails: the timer is abandoned. *)
FireFails(s) ==
    /\ timers[s] = 0
    /\ current' = Stepped
    /\ timers' = [timers EXCEPT ![s] = Off]
    /\ abandoned' = TRUE
    /\ UNCHANGED <<config, target, card, hold, overlapped, refused, foreign>>

(* volumeRamp on the configuration controls. *)
SetMode(mode) ==
    /\ CASE mode = "smooth"    -> delay' = 2 * Ticks50 /\ stepDown' = 1 /\ stepUp' = 1
         [] mode = "normal"    -> delay' = 2 * Ticks50 /\ stepDown' = 3 /\ stepUp' = 2
         [] mode = "emergency" -> delay' = Ticks50 /\ stepDown' = 6 /\ stepUp' = 2
    /\ UNCHANGED <<slave, current, target, timers, card, history>>

SetDelay(ticks) ==
    /\ delay' = ticks
    /\ UNCHANGED <<slave, stepDown, stepUp, current, target, timers, card, history>>

SetDown(step) ==
    /\ stepDown' = step
    /\ UNCHANGED <<slave, delay, stepUp, current, target, timers, card, history>>

SetUp(step) ==
    /\ stepUp' = step
    /\ UNCHANGED <<slave, delay, stepDown, current, target, timers, card, history>>

SetSlave(control) ==
    /\ slave' = control
    /\ foreign' = TRUE
    /\ UNCHANGED <<delay, stepDown, stepUp, current, target, timers, card, hold,
                   overlapped, abandoned, refused>>

(* Another client of the card moves a control. *)
ForeignSet(control, raw) ==
    /\ card' = [card EXCEPT ![control] = raw]
    /\ foreign' = (foreign \/ control = slave)
    /\ UNCHANGED <<config, current, target, timers, hold, overlapped, abandoned,
                   refused>>

Tick ==
    /\ timers' = [s \in Sources |-> IF timers[s] > 0 THEN timers[s] - 1 ELSE timers[s]]
    /\ hold' = IF hold > 0 THEN hold - 1 ELSE 0
    /\ UNCHANGED <<config, current, target, card, overlapped, abandoned, refused, foreign>>

-----------------------------------------------------------------------------
User ==
    \/ \E p \in Targets, s \in Sources : StartRamp(p, s)
    \/ \E m \in Modes : SetMode(m)
    \/ \E d \in Delays : SetDelay(d)
    \/ \E x \in Steps : SetDown(x) \/ SetUp(x)
    \/ \E c \in Slaves : SetSlave(c)
    \/ \E c \in Slaves, r \in ForeignRaw : ForeignSet(c, r)

Timer(s) == Fire(s) \/ FireRefused(s) \/ FireFails(s)

Next == User \/ (\E s \in Sources : Timer(s)) \/ Tick

(* Time passes and the event loop runs timers that are due. *)
Fairness == WF_vars(Tick) /\ \A s \in Sources : WF_vars(Timer(s))

Spec == Init /\ [][Next]_vars /\ Fairness

-----------------------------------------------------------------------------
TypeOK ==
    /\ slave \in Slaves /\ delay \in Nat
    /\ stepDown \in Nat /\ stepUp \in Nat
    /\ current \in Percents /\ target \in Percents
    /\ timers \in [Sources -> Nat \union {Off}]
    /\ card \in [Slaves -> Raw]
    /\ hold \in Nat
    /\ overlapped \in BOOLEAN /\ abandoned \in BOOLEAN
    /\ refused \in BOOLEAN /\ foreign \in BOOLEAN

(* A ramp under way always has a timer, however ramps overlap, whatever is    *)
(* configured in between and whatever the card refuses, unless the call that  *)
(* sets a volume failed and a timer was given up.                             *)
RampAlive == current # target /\ ~abandoned => Armed # {}

(* On a slave whose range starts at 0 (what is set has minval not added back), *)
(* the timer of a ramp moves the slave towards the target and never past it,   *)
(* so that no step is heard in the wrong direction, although the ramp starts   *)
(* from a rounded reading of the slave and steps may be refused.  Not so once  *)
(* somebody else has moved the slave, or with a step of zero, which writes the *)
(* rounded reading back.                                                       *)
Between(a, x, b) == (a <= x /\ x <= b) \/ (b <= x /\ x <= a)
TowardsTarget ==
    [][\A s \in Sources :
          Fire(s) /\ ~foreign /\ stepUp > 0 /\ Control.minval = 0
            => Between(card[slave], card'[slave], ToRaw(Control, target))]_vars

(* "delay between volset in us": a volume of the ramp stands for the delay   *)
(* configured when it was set before the ramp asks for the next, as long as  *)
(* no ramp is started while another is under way.                            *)
SpacedUnlessOverlapped ==
    [][\A s \in Sources : (Fire(s) \/ FireRefused(s)) /\ ~overlapped => hold = 0]_vars

(* Once users leave the ramp alone, steps are positive and the calls that set *)
(* the slave succeed, all timers stop, also those of overlapping ramps and    *)
(* those the card refuses; and unless another client had moved the slave or   *)
(* the card refused the last volume, a slave whose range starts at 0 reads as *)
(* the target, up to a percent.                                               *)
Undisturbed ==
    <>[][~User /\ (\A s \in Sources : ~FireFails(s)) /\ stepUp > 0 /\ stepDown > 0]_vars
AtTarget ==
    target - ToPercent(Control, card[slave]) \in 0 .. 1
RampSettles ==
    Undisturbed =>
        <>[](/\ Armed = {}
             /\ ~foreign /\ ~abandoned /\ ~refused /\ Control.minval = 0 => AtTarget)
=============================================================================
