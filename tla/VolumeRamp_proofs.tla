-------------------------- MODULE VolumeRamp_proofs --------------------------
(***************************************************************************)
(* Proofs about VolumeRamp for any range of the slave, any slaves, steps,  *)
(* delays and targets, and any number of ramps at the same time.  What is  *)
(* said of the direction of steps is said of ranges that start at 0.       *)
(***************************************************************************)
EXTENDS VolumeRamp, TLAPS

(* The slave has been moved towards the target only: it is not beyond the    *)
(* next volume up, and not below the present one on the way down.            *)
NotPast ==
    ~foreign /\ Control.minval = 0 =>
        /\ current < target => card[slave] <= ToRaw(Control, current + 1)
        /\ current > target => card[slave] >= ToRaw(Control, current)

(* The only timer of ramps that do not overlap waits as long as the volume *)
(* it has set must stand.                                                  *)
OneTimer ==
    ~overlapped =>
        /\ \A s, z \in Armed : s = z
        /\ \A s \in Armed : timers[s] >= hold

IInv == TypeOK /\ RampAlive /\ NotPast /\ OneTimer

-----------------------------------------------------------------------------
(* The raw range of the slave, and the two conversions over it. *)
Span == Control.maxval - Control.minval
LEMMA Conversions ==
  /\ Span \in Nat \ {0}
  /\ \A v \in Int : ToPercent(Control, v) = (100 * (v - Control.minval)) \div Span
  /\ \A c \in Int : ToRaw(Control, c) = (c * Span) \div 100
BY RampAssumption DEF ToPercent, ToRaw, Span

(* Quotients of integers, as the two inequalities that determine them. *)
LEMMA Quotient ==
  ASSUME NEW a \in Int, NEW b \in Nat \ {0}
  PROVE  a \div b \in Int /\ b * (a \div b) <= a /\ a < b * (a \div b) + b
OBVIOUS

(* A raw volume becomes a percentage. *)
LEMMA ToPercentType ==
  ASSUME NEW v \in Raw
  PROVE  ToPercent(Control, v) \in Percents
<1> DEFINE M == Span
           w == v - Control.minval
           q == (100 * w) \div M
<1>1. M \in Nat \ {0} /\ w \in Nat /\ w <= M /\ 100 * w \in Int /\ v \in Int
  BY RampAssumption DEF Raw, Span
<1>2. q \in Int /\ M * q <= 100 * w /\ 100 * w < M * q + M
  BY <1>1, Quotient
<1>3. ToPercent(Control, v) = q
  BY <1>1, Conversions
<1> HIDE DEF M, w, q
<1>4. q >= 0
  BY <1>1, <1>2
<1>5. q <= 100
  BY <1>1, <1>2
<1>6. QED
  BY <1>2, <1>3, <1>4, <1>5 DEF Percents

(* A percentage becomes a raw volume, an integer. *)
LEMMA ToRawInt ==
  ASSUME NEW c \in Int
  PROVE  ToRaw(Control, c) \in Int
<1>1. c * Span \in Int
  BY Conversions
<1>2. QED
  BY <1>1, Conversions

(* A higher percentage is never a lower volume. *)
LEMMA ToRawMonotone ==
  ASSUME NEW c \in Int, NEW d \in Int, c <= d
  PROVE  ToRaw(Control, c) <= ToRaw(Control, d)
<1> DEFINE M == Span
           p == (c * M) \div 100
           q == (d * M) \div 100
<1>1. M \in Nat \ {0} /\ c * M \in Int /\ d * M \in Int
  BY Conversions
<1>2. c * M <= d * M
  <2> HIDE DEF M
  <2>1. QED
    BY <1>1
<1>3. p \in Int /\ 100 * p <= c * M
  BY <1>1, Quotient
<1>4. q \in Int /\ d * M < 100 * q + 100
  BY <1>1, Quotient
<1>5. ToRaw(Control, c) = p /\ ToRaw(Control, d) = q
  BY Conversions
<1> HIDE DEF M, p, q
<1>6. QED
  BY <1>1, <1>2, <1>3, <1>4, <1>5

(* In a range from 0, a volume lies between those of the percentage it is read *)
(* as and the next.                                                            *)
LEMMA ReadBack ==
  ASSUME NEW v \in Raw, Control.minval = 0
  PROVE  LET c == ToPercent(Control, v)
         IN  ToRaw(Control, c) <= v /\ v <= ToRaw(Control, c + 1)
<1> DEFINE M == Span
           c == (100 * v) \div M
           p == (c * M) \div 100
           q == ((c + 1) * M) \div 100
<1>1. M \in Nat \ {0} /\ v \in Nat /\ 100 * v \in Int
  BY RampAssumption, Conversions DEF Raw
<1>2. c \in Int /\ M * c <= 100 * v /\ 100 * v < M * c + M
  BY <1>1, Quotient
<1>3. ToPercent(Control, v) = c
  <2>1. v - Control.minval = v
    BY <1>1
  <2>2. QED
    BY <1>1, <2>1, Conversions
<1> HIDE DEF c
<1>4. c * M \in Int /\ (c + 1) * M \in Int /\ (c + 1) * M = M * c + M /\ c * M = M * c
  <2> HIDE DEF M
  <2>1. QED
    BY <1>1, <1>2
<1>5. p \in Int /\ 100 * p <= c * M
  BY <1>4, Quotient
<1>6. q \in Int /\ (c + 1) * M < 100 * q + 100
  BY <1>4, Quotient
<1>7. ToRaw(Control, c) = p /\ ToRaw(Control, c + 1) = q
  BY <1>2, Conversions
<1>8. p <= v /\ v <= q
  <2> HIDE DEF M, p, q
  <2>1. M * c \in Int
    BY <1>1, <1>2
  <2>2. QED
    BY <1>1, <1>2, <1>4, <1>5, <1>6, <2>1
<1>9. QED
  BY <1>3, <1>7, <1>8

-----------------------------------------------------------------------------
(* A step goes towards the target and stops at it. *)
LEMMA SteppedTowards ==
  ASSUME TypeOK
  PROVE  /\ Stepped \in Percents
         /\ current < target => current <= Stepped /\ Stepped <= target
         /\ current > target => target <= Stepped /\ Stepped <= current
         /\ current = target => Stepped = target
         /\ stepUp > 0 /\ current < target => current + 1 <= Stepped
<1>1. /\ current \in 0 .. 100 /\ target \in 0 .. 100
      /\ stepDown \in Nat /\ stepUp \in Nat
  BY DEF TypeOK, Percents
<1>2. CASE current < target
  BY <1>1, <1>2 DEF Stepped, Percents
<1>3. CASE current > target
  BY <1>1, <1>3 DEF Stepped, Percents
<1>4. CASE current = target
  BY <1>1, <1>4 DEF Stepped, Percents
<1>5. QED
  BY <1>1, <1>2, <1>3, <1>4

(* The initial states satisfy the invariant. *)
LEMMA InitIInv == Init => IInv
<1> SUFFICES ASSUME Init PROVE IInv
  OBVIOUS
<1>1. TypeOK
  <2>1. timers \in [Sources -> Nat \union {Off}] /\ hold \in Nat
    BY DEF Init, Off
  <2>2. card \in [Slaves -> Raw]
    BY RampAssumption DEF Init
  <2>3. /\ slave \in Slaves /\ delay \in Nat /\ stepDown \in Nat /\ stepUp \in Nat
        /\ current \in Percents /\ target \in Percents
    BY RampAssumption DEF Init, Percents
  <2>4. /\ overlapped \in BOOLEAN /\ abandoned \in BOOLEAN
        /\ refused \in BOOLEAN /\ foreign \in BOOLEAN
    BY Zenon DEF Init
  <2>5. QED
    BY <2>1, <2>2, <2>3, <2>4 DEF TypeOK
<1>2. RampAlive /\ NotPast /\ OneTimer
  BY DEF Init, RampAlive, NotPast, OneTimer, Armed, Off
<1>3. QED
  BY <1>1, <1>2 DEF IInv

(* A ramp starts, from what the slave reads as. *)
LEMMA StartRampIInv ==
  ASSUME IInv, NEW p \in Targets, NEW s \in Sources, StartRamp(p, s)
  PROVE  IInv'
<1>1. /\ p \in Percents /\ slave \in Slaves /\ card[slave] \in Raw
      /\ current' \in Percents
  BY RampAssumption, ToPercentType DEF StartRamp, IInv, TypeOK
<1>2. /\ timers' \in [Sources -> Nat \union {Off}]
      /\ timers' = [timers EXCEPT ![s] = 0] /\ s \notin Armed
      /\ Armed' = Armed \union {s} /\ timers'[s] = 0
  <2>1. /\ timers' = [timers EXCEPT ![s] = 0] /\ s \notin Armed
        /\ timers \in [Sources -> Nat \union {Off}]
    BY DEF StartRamp, IInv, TypeOK
  <2>2. timers' \in [Sources -> Nat \union {Off}]
    BY <2>1 DEF Off
  <2>3. \A z \in Sources : timers'[z] = IF z = s THEN 0 ELSE timers[z]
    BY <2>1
  <2>4. Armed' = Armed \union {s}
    BY <2>3 DEF Armed, Off
  <2>5. QED
    BY <2>1, <2>2, <2>3, <2>4
<1>3. TypeOK'
  <2>1. /\ slave' = slave /\ delay' = delay /\ stepDown' = stepDown /\ stepUp' = stepUp
        /\ card' = card /\ target' \in Percents /\ hold' = 0
    BY <1>1 DEF StartRamp, config
  <2>2. /\ overlapped' \in BOOLEAN /\ abandoned' \in BOOLEAN
        /\ refused' \in BOOLEAN /\ foreign' \in BOOLEAN
    BY Zenon DEF StartRamp
  <2>3. QED
    BY <1>1, <1>2, <2>1, <2>2 DEF IInv, TypeOK
<1>4. RampAlive'
  BY <1>2 DEF RampAlive
<1>5. NotPast'
  <2> DEFINE c == ToPercent(Control, card[slave])
  <2>1. current' = c /\ card' = card /\ slave' = slave
    BY DEF StartRamp, config
  <2>2. c \in Int /\ card[slave] \in Int
    BY <1>1, <2>1, RampAssumption DEF Percents, Raw
  <2>3. Control.minval = 0
          => ToRaw(Control, c) <= card[slave] /\ card[slave] <= ToRaw(Control, c + 1)
    BY <1>1, ReadBack
  <2> HIDE DEF c
  <2>4. ToRaw(Control, c) \in Int
    BY <2>2, ToRawInt
  <2>5. QED
    BY <2>1, <2>2, <2>3, <2>4 DEF NotPast
<1>6. OneTimer'
  <2> SUFFICES ASSUME ~overlapped' PROVE OneTimer'
    BY DEF OneTimer
  <2>1. Armed' = {s} /\ hold' = 0
    BY <1>2 DEF StartRamp
  <2>2. QED
    BY <1>2, <2>1 DEF OneTimer
<1>7. QED
  BY <1>3, <1>4, <1>5, <1>6 DEF IInv

(* The next volume is computed, and the timer is armed again or ends. *)
LEMMA StepToIInv ==
  ASSUME IInv, NEW s \in Sources, StepTo(s, delay),
         card' \in [Slaves -> Raw], refused' \in BOOLEAN
  PROVE  TypeOK' /\ RampAlive' /\ OneTimer'
<1>1. /\ current' = Stepped /\ current' \in Percents
      /\ UNCHANGED <<slave, delay, stepDown, stepUp, target, overlapped, abandoned, foreign>>
      /\ delay \in Nat /\ hold' = delay /\ s \in Armed
  BY SteppedTowards DEF StepTo, IInv, TypeOK, config, Armed, Off
<1>2. /\ timers' = [timers EXCEPT ![s] = IF current' = target THEN Off ELSE delay]
      /\ timers \in [Sources -> Nat \union {Off}]
  BY DEF StepTo, IInv, TypeOK
<1>3. timers' \in [Sources -> Nat \union {Off}]
  BY <1>1, <1>2
<1>4. TypeOK'
  BY <1>1, <1>3 DEF IInv, TypeOK
<1>5. RampAlive'
  <2> SUFFICES ASSUME current' # target PROVE s \in Armed'
    BY <1>1 DEF RampAlive
  <2>1. timers'[s] = delay
    BY <1>2
  <2>2. QED
    BY <1>1, <2>1 DEF Armed, Off
<1>6. OneTimer'
  <2> SUFFICES ASSUME ~overlapped PROVE OneTimer'
    BY <1>1 DEF OneTimer
  <2>1. \A z \in Armed : z = s
    BY <1>1 DEF IInv, OneTimer
  <2>2. \A z \in Armed' : z = s /\ timers'[z] = delay
    BY <1>2, <2>1 DEF Armed
  <2>3. QED
    BY <1>1, <2>2, <1>3 DEF OneTimer
<1>7. QED
  BY <1>4, <1>5, <1>6

(* A volume of the ramp that does not reach the card leaves it behind the ramp. *)
LEMMA Behind ==
  ASSUME IInv, current' = Stepped, UNCHANGED <<slave, target, card, foreign>>
  PROVE  NotPast'
<1>1. /\ current' \in Int /\ current \in Int /\ target \in Int /\ card[slave] \in Int
  BY SteppedTowards, RampAssumption DEF IInv, TypeOK, Raw, Percents
<1>2. /\ ToRaw(Control, current + 1) \in Int /\ ToRaw(Control, current' + 1) \in Int
      /\ ToRaw(Control, current) \in Int /\ ToRaw(Control, current') \in Int
  <2>1. current + 1 \in Int /\ current' + 1 \in Int
    BY <1>1
  <2>2. QED
    BY <1>1, <2>1, ToRawInt
<1>3. CASE current < target
  <2>1. ToRaw(Control, current + 1) <= ToRaw(Control, current' + 1)
    BY <1>1, <1>3, SteppedTowards, ToRawMonotone DEF IInv
  <2>2. QED
    BY <1>1, <1>2, <1>3, <2>1, SteppedTowards DEF IInv, NotPast
<1>4. CASE current > target
  <2>1. ToRaw(Control, current') <= ToRaw(Control, current)
    BY <1>1, <1>4, SteppedTowards, ToRawMonotone DEF IInv
  <2>2. QED
    BY <1>1, <1>2, <1>4, <2>1, SteppedTowards DEF IInv, NotPast
<1>5. CASE current = target
  BY <1>1, <1>5, SteppedTowards DEF IInv, NotPast
<1>6. QED
  BY <1>1, <1>3, <1>4, <1>5

(* A timer fires and the slave gets the next volume. *)
LEMMA FireIInv ==
  ASSUME IInv, NEW s \in Sources, Fire(s)
  PROVE  IInv'
<1>1. /\ current' = Stepped /\ current' \in Percents
      /\ UNCHANGED <<slave, target>> /\ slave \in Slaves /\ StepTo(s, delay)
      /\ card' = [card EXCEPT ![slave] = ToRaw(Control, current')]
      /\ ToRaw(Control, current') \in Raw /\ refused' = FALSE
  BY SteppedTowards DEF Fire, StepTo, Written, IInv, TypeOK, config
<1>2. card' \in [Slaves -> Raw] /\ card'[slave] = ToRaw(Control, current')
  BY <1>1 DEF IInv, TypeOK
<1>3. NotPast'
  <2>1. current' \in Int /\ current' + 1 \in Int
    BY <1>1 DEF Percents
  <2>2. ToRaw(Control, current') <= ToRaw(Control, current' + 1)
    BY <2>1, ToRawMonotone
  <2>3. ToRaw(Control, current') \in Int
    BY <2>1, ToRawInt
  <2>4. QED
    BY <1>1, <1>2, <2>1, <2>2, <2>3 DEF NotPast
<1>4. TypeOK' /\ RampAlive' /\ OneTimer'
  BY <1>1, <1>2, StepToIInv
<1>5. QED
  BY <1>3, <1>4 DEF IInv

(* A timer fires and the card refuses the volume. *)
LEMMA FireRefusedIInv ==
  ASSUME IInv, NEW s \in Sources, FireRefused(s)
  PROVE  IInv'
<1>1. /\ current' = Stepped /\ UNCHANGED <<slave, target, card, foreign>>
      /\ StepTo(s, delay) /\ refused' = TRUE
  BY DEF FireRefused, StepTo, config
<1>2. TypeOK' /\ RampAlive' /\ OneTimer'
  BY <1>1, StepToIInv DEF IInv, TypeOK
<1>3. NotPast'
  BY <1>1, Behind
<1>4. QED
  BY <1>2, <1>3 DEF IInv

(* A timer fires and is given up. *)
LEMMA FireFailsIInv ==
  ASSUME IInv, NEW s \in Sources, FireFails(s)
  PROVE  IInv'
<1>1. /\ current' = Stepped /\ current' \in Percents /\ abandoned' = TRUE
      /\ UNCHANGED <<slave, delay, stepDown, stepUp, target, card, hold, overlapped, refused,
                     foreign>>
  BY SteppedTowards DEF FireFails, IInv, TypeOK, config, Percents
<1>2. timers' = [timers EXCEPT ![s] = Off] /\ timers \in [Sources -> Nat \union {Off}]
  BY DEF FireFails, IInv, TypeOK
<1>3. timers' \in [Sources -> Nat \union {Off}]
  BY <1>2
<1>4. TypeOK' /\ RampAlive'
  BY <1>1, <1>3 DEF IInv, TypeOK, RampAlive
<1>5. NotPast'
  BY <1>1, Behind
<1>6. OneTimer'
  BY <1>1, <1>2 DEF IInv, OneTimer, Armed
<1>7. QED
  BY <1>4, <1>5, <1>6 DEF IInv

(* Configuration leaves the ramp and its timers alone. *)
LEMMA ConfigureIInv ==
  ASSUME IInv,
         UNCHANGED <<slave, current, target, timers, card, hold, overlapped, abandoned, refused,
                     foreign>>,
         delay' \in Nat, stepDown' \in Nat, stepUp' \in Nat
  PROVE  IInv'
BY DEF IInv, TypeOK, RampAlive, NotPast, OneTimer, Armed

(* The slave of the ramp changes, or another client sets a volume. *)
LEMMA OthersIInv ==
  ASSUME IInv,
         \/ \E c \in Slaves : SetSlave(c)
         \/ \E c \in Slaves, r \in ForeignRaw : ForeignSet(c, r)
  PROVE  IInv'
<1>1. ASSUME NEW c \in Slaves, SetSlave(c) PROVE IInv'
  BY <1>1 DEF SetSlave, IInv, TypeOK, RampAlive, NotPast, OneTimer, Armed
<1>2. ASSUME NEW c \in Slaves, NEW r \in ForeignRaw, ForeignSet(c, r) PROVE IInv'
  <2>1. /\ card' \in [Slaves -> Raw] /\ foreign' \in BOOLEAN
        /\ c # slave => card'[slave] = card[slave]
    BY <1>2, RampAssumption DEF ForeignSet, IInv, TypeOK
  <2>2. /\ UNCHANGED <<slave, delay, stepDown, stepUp, current, target, timers, hold,
                       overlapped, abandoned, refused>>
        /\ foreign' = (foreign \/ c = slave)
    BY <1>2 DEF ForeignSet, config
  <2>3. TypeOK'
    BY <2>1, <2>2 DEF IInv, TypeOK
  <2>4. NotPast'
    BY <2>1, <2>2 DEF IInv, NotPast
  <2>5. QED
    BY <2>2, <2>3, <2>4 DEF IInv, RampAlive, OneTimer, Armed
<1>3. QED
  BY <1>1, <1>2

(* Time passes. *)
LEMMA TickIInv == IInv /\ Tick => IInv'
<1> SUFFICES ASSUME IInv, Tick PROVE IInv'
  OBVIOUS
<1>1. /\ UNCHANGED <<slave, delay, stepDown, stepUp, current, target, card, overlapped,
                     abandoned, refused, foreign>>
      /\ timers' = [s \in Sources |-> IF timers[s] > 0 THEN timers[s] - 1 ELSE timers[s]]
      /\ hold' = IF hold > 0 THEN hold - 1 ELSE 0
      /\ hold \in Nat /\ \A s \in Sources : timers[s] \in Nat \union {-1}
  BY DEF Tick, config, IInv, TypeOK, Off
<1>2. /\ \A s \in Sources : timers'[s] \in Nat \union {-1}
      /\ \A s \in Sources : timers'[s] = -1 <=> timers[s] = -1
      /\ hold' \in Nat
  BY <1>1
<1>3. timers' \in [Sources -> Nat \union {-1}] /\ Armed' = Armed
  BY <1>1, <1>2 DEF Armed, Off
<1>4. TypeOK'
  BY <1>1, <1>2, <1>3 DEF IInv, TypeOK, Off
<1>5. OneTimer'
  <2> SUFFICES ASSUME ~overlapped, NEW s \in Armed PROVE timers'[s] >= hold'
    BY <1>1, <1>3 DEF IInv, OneTimer
  <2>1. s \in Sources /\ timers[s] # -1 /\ timers[s] >= hold
    BY DEF IInv, OneTimer, Armed, Off
  <2>2. QED
    BY <1>1, <2>1
<1>6. QED
  BY <1>1, <1>3, <1>4, <1>5 DEF IInv, RampAlive, NotPast

(* Every step keeps the inductive invariant. *)
LEMMA NextIInv == IInv /\ [Next]_vars => IInv'
<1> SUFFICES ASSUME IInv, [Next]_vars PROVE IInv'
  OBVIOUS
<1>1. ASSUME NEW m \in Modes, SetMode(m) PROVE IInv'
  <2>1. m \in {"smooth", "normal", "emergency"}
    BY RampAssumption
  <2>2. /\ delay' \in Nat /\ stepDown' \in Nat /\ stepUp' \in Nat
        /\ UNCHANGED <<slave, current, target, timers, card, history>>
    <3>1. CASE m = "smooth"
      BY <1>1, <3>1, RampAssumption DEF SetMode
    <3>2. CASE m = "normal"
      BY <1>1, <3>2, RampAssumption DEF SetMode
    <3>3. CASE m = "emergency"
      BY <1>1, <3>3, RampAssumption DEF SetMode
    <3>4. QED
      BY <2>1, <3>1, <3>2, <3>3
  <2>3. QED
    BY <2>2, ConfigureIInv DEF history
<1>2. ASSUME NEW d \in Delays, SetDelay(d) PROVE IInv'
  BY <1>2, ConfigureIInv, RampAssumption DEF SetDelay, history, IInv, TypeOK
<1>3. ASSUME NEW x \in Steps, SetDown(x) \/ SetUp(x) PROVE IInv'
  BY <1>3, ConfigureIInv, RampAssumption DEF SetDown, SetUp, history, IInv, TypeOK
<1>4. CASE UNCHANGED vars
  BY <1>4, ConfigureIInv DEF vars, config, history, IInv, TypeOK
<1>5. QED
  BY <1>1, <1>2, <1>3, <1>4, StartRampIInv, FireIInv, FireRefusedIInv,
     FireFailsIInv, OthersIInv, TickIInv
  DEF Next, User, Timer

-----------------------------------------------------------------------------
(* The inductive invariant of the ramp. *)
THEOREM Invariant == Spec => []IInv
<1>1. QED
  BY InitIInv, NextIInv, PTL DEF Spec

(* Every variable keeps its type: the percentages of ramps and the raw volumes *)
(* of slaves stay in their ranges through all conversions.                     *)
THEOREM TypeCorrect == Spec => []TypeOK
<1>1. IInv => TypeOK
  BY DEF IInv
<1>2. QED
  BY <1>1, Invariant, PTL

(* A ramp under way always has a timer, unless one was given up. *)
THEOREM RampIsAlive == Spec => []RampAlive
<1>1. IInv => RampAlive
  BY DEF IInv
<1>2. QED
  BY <1>1, Invariant, PTL

(* No timer moves the slave in the wrong direction or past the target, as   *)
(* long as nobody else moves it and steps are not zero.                     *)
THEOREM StepsTowardsTarget == Spec => TowardsTarget
<1>1. ASSUME IInv, NEW s \in Sources, Fire(s), ~foreign, stepUp > 0, Control.minval = 0
      PROVE  Between(card[slave], card'[slave], ToRaw(Control, target))
  <2>1. /\ card'[slave] = ToRaw(Control, current') /\ current' = Stepped /\ TypeOK
        /\ Stepped \in Percents /\ current \in Percents /\ target \in Percents
    <3>1. card' = [card EXCEPT ![slave] = ToRaw(Control, current')] /\ slave \in DOMAIN card
      BY <1>1 DEF Fire, Written, IInv, TypeOK
    <3>2. QED
      BY <1>1, <3>1, SteppedTowards DEF Fire, StepTo, IInv, TypeOK
  <2>2. card[slave] \in Int /\ \A c \in Int : ToRaw(Control, c) \in Int
    BY <1>1, ToRawInt, RampAssumption DEF IInv, TypeOK, Raw
  <2>3. CASE current < target
    <3>1. /\ ToRaw(Control, current + 1) <= ToRaw(Control, Stepped)
          /\ ToRaw(Control, Stepped) <= ToRaw(Control, target)
      BY <1>1, <2>1, <2>3, SteppedTowards, ToRawMonotone DEF Percents
    <3>2. card[slave] <= ToRaw(Control, current + 1)
      BY <1>1, <2>3 DEF IInv, NotPast
    <3>3. QED
      BY <2>1, <2>2, <3>1, <3>2 DEF Between, Percents
  <2>4. CASE current > target
    <3>1. /\ ToRaw(Control, Stepped) <= ToRaw(Control, current)
          /\ ToRaw(Control, target) <= ToRaw(Control, Stepped)
      BY <2>1, <2>4, SteppedTowards, ToRawMonotone DEF Percents
    <3>2. card[slave] >= ToRaw(Control, current)
      BY <1>1, <2>4 DEF IInv, NotPast
    <3>3. QED
      BY <2>1, <2>2, <3>1, <3>2 DEF Between, Percents
  <2>5. CASE current = target
    BY <2>1, <2>2, <2>5, SteppedTowards DEF Between, Percents
  <2>6. QED
    BY <2>1, <2>3, <2>4, <2>5 DEF Percents
<1>2. IInv /\ [Next]_vars =>
        [\A s \in Sources :
            Fire(s) /\ ~foreign /\ stepUp > 0 /\ Control.minval = 0
              => Between(card[slave], card'[slave], ToRaw(Control, target))]_vars
  BY <1>1
<1>3. QED
  BY <1>2, Invariant, PTL DEF Spec, TowardsTarget

(* A volume of the ramp stands for its delay before the next, as long as ramps *)
(* do not overlap.                                                             *)
THEOREM VolumesAreSpaced == Spec => SpacedUnlessOverlapped
<1>1. IInv /\ [Next]_vars =>
        [\A s \in Sources : (Fire(s) \/ FireRefused(s)) /\ ~overlapped => hold = 0]_vars
  <2> SUFFICES ASSUME IInv, NEW s \in Sources, Fire(s) \/ FireRefused(s), ~overlapped
      PROVE  hold = 0
    OBVIOUS
  <2>1. timers[s] = 0 /\ s \in Armed
    BY DEF Fire, FireRefused, StepTo, Armed, Off
  <2>2. QED
    BY <2>1 DEF IInv, OneTimer, TypeOK
<1>2. QED
  BY <1>1, Invariant, PTL DEF Spec, SpacedUnlessOverlapped
=============================================================================
