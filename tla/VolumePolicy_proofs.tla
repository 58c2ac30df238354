------------------------- MODULE VolumePolicy_proofs -------------------------
(***************************************************************************)
(* Proofs about VolumePolicy for any registry of HALs with any linear      *)
(* ranges, any controls, and any number of calls that fail.                *)
(***************************************************************************)
EXTENDS VolumePolicy, SequenceTheorems, TLAPS

(* The control under way, and the HALs it has still to visit: the last ones *)
(* of the registry, in its order.                                           *)
RunningOK ==
    /\ running \in [source : {"none", "request", "release"}, ctl : Controls \union {"none"},
                    todo : Seq(HalSet), read : Percents \union {NoVol}]
    /\ running.source = "none" => running = Idle
    /\ IsInjective(running.todo)
    /\ Len(running.todo) <= Len(Hals)
    /\ \A i \in 1 .. Len(running.todo) :
          running.todo[i] = Hals[Len(Hals) - Len(running.todo) + i]

Left == ToSet(running.todo)

(* What the volumes and the saved ones are, HAL by HAL, while controls are    *)
(* granted one at a time: without a control, with one, while it is requested  *)
(* and while it is released.                                                  *)
Free(h)     == vol[h] = wanted[h]
Kept(h)     == saved[h] = ToPercent(Ctl[h], wanted[h])
Adjusted(h) == vol[h] = ToRaw(Ctl[h], Val[running.ctl]) /\ Kept(h)

AtRest ==
    running.source = "none" =>
        /\ held = {} => \A h \in Untouched : Restored(h)
        /\ \A c \in held : \A h \in Untouched : vol[h] = ToRaw(Ctl[h], Val[c]) /\ Kept(h)
        /\ \A c, d \in held : c = d
AtRequest ==
    running.source = "request" =>
        /\ held = {}
        /\ \A h \in Untouched : IF h \in Left THEN Free(h) ELSE Adjusted(h)
        /\ running.read # NoVol /\ HalNow \in Untouched => Kept(HalNow)
AtRelease ==
    running.source = "release" =>
        /\ held = {running.ctl}
        /\ \A h \in Untouched : IF h \in Left THEN Adjusted(h) ELSE Restored(h)

OneAtATime == clean => AtRest /\ AtRequest /\ AtRelease

TypesOK ==
    /\ vol \in [HalSet -> Int] /\ wanted \in [HalSet -> Int]
    /\ \A h \in HalSet : vol[h] \in Raw(h) /\ wanted[h] \in Raw(h)
    /\ saved \in [HalSet -> Percents \union {NoVol}]
    /\ running.source # "none" => running.ctl \in Controls
    /\ running.source = "request" => running.ctl \notin held
    /\ running.source = "release" => running.ctl \in held
    /\ running.read # NoVol => running.source = "request" /\ running.todo # <<>>
    /\ held \subseteq Controls /\ touched \subseteq HalSet /\ fails \in 0 .. MaxFails

IInv == RunningOK /\ TypesOK /\ OneAtATime

-----------------------------------------------------------------------------
(* The range of a HAL, and the two conversions over it. *)
Span(h) == Ctl[h].maxval - Ctl[h].minval
LEMMA Conversions ==
  ASSUME NEW h \in HalSet
  PROVE  /\ Span(h) \in Nat \ {0} /\ Ctl[h].minval \in Int /\ Ctl[h].maxval \in Int
         /\ \A v \in Int : ToPercent(Ctl[h], v) = (100 * (v - Ctl[h].minval)) \div Span(h)
         /\ \A c \in Int : ToRaw(Ctl[h], c) = (c * Span(h)) \div 100
<1>1. /\ Ctl[h].minval \in Int /\ Ctl[h].maxval \in Int /\ Ctl[h].minval < Ctl[h].maxval
      /\ IsLinear(Ctl[h])
  BY PolicyAssumption
<1>2. Span(h) \in Nat \ {0}
  BY <1>1 DEF Span
<1>3. QED
  BY <1>1, <1>2 DEF ToPercent, ToRaw, Span

(* Quotients of integers, as the two inequalities that determine them. *)
LEMMA Quotient ==
  ASSUME NEW a \in Int, NEW b \in Nat \ {0}
  PROVE  a \div b \in Int /\ b * (a \div b) <= a /\ a < b * (a \div b) + b
OBVIOUS

(* What is read of a HAL is a percentage. *)
LEMMA ReadIsPercent ==
  ASSUME NEW h \in HalSet, NEW v \in Raw(h)
  PROVE  ToPercent(Ctl[h], v) \in Percents
<1> DEFINE M == Span(h)
           w == v - Ctl[h].minval
           q == (100 * w) \div M
<1>1. M \in Nat \ {0} /\ w \in Nat /\ w <= M /\ 100 * w \in Int /\ v \in Int
  <2>1. M \in Nat \ {0} /\ Ctl[h].minval \in Int /\ Ctl[h].maxval \in Int
    BY Conversions
  <2>2. v \in Int /\ Ctl[h].minval <= v /\ v <= Ctl[h].maxval
    BY <2>1 DEF Raw
  <2>3. QED
    BY <2>1, <2>2 DEF Span
<1>2. q \in Int /\ M * q <= 100 * w /\ 100 * w < M * q + M
  BY <1>1, Quotient
<1>3. ToPercent(Ctl[h], v) = q
  BY <1>1, Conversions
<1> HIDE DEF M, w, q
<1>4. q >= 0
  BY <1>1, <1>2
<1>5. q <= 100
  BY <1>1, <1>2
<1>6. QED
  BY <1>2, <1>3, <1>4, <1>5 DEF Percents

(* What is written fits the range of the HAL, if that starts at 0. *)
LEMMA WriteFits ==
  ASSUME NEW h \in HalSet, NEW c \in Percents, Ctl[h].minval = 0
  PROVE  ToRaw(Ctl[h], c) \in Raw(h)
<1> DEFINE M == Span(h)
           p == (c * M) \div 100
<1>1. M \in Nat \ {0} /\ c \in Int /\ 0 <= c /\ c <= 100 /\ M = Ctl[h].maxval
  <2>1. M \in Nat \ {0} /\ Ctl[h].maxval \in Int
    BY Conversions
  <2>2. QED
    BY <2>1 DEF Percents, Span
<1>2. ToRaw(Ctl[h], c) = p
  BY <1>1, Conversions
<1> HIDE DEF M
<1>3. c * M \in Int /\ 0 <= c * M /\ c * M <= 100 * M
  BY <1>1
<1>4. p \in Int /\ 100 * p <= c * M /\ c * M < 100 * p + 100
  BY <1>3, Quotient
<1> HIDE DEF p
<1>5. 0 <= p /\ p <= M
  BY <1>1, <1>3, <1>4
<1>6. QED
  BY <1>1, <1>2, <1>4, <1>5 DEF Raw

(* A volume that is read and written back never grows, and loses one percent *)
(* of the range and one raw step at most.                                    *)
LEMMA WrittenBack ==
  ASSUME NEW h \in HalSet, NEW v \in Raw(h), Ctl[h].minval = 0
  PROVE  LET w == ToRaw(Ctl[h], ToPercent(Ctl[h], v))
         IN  w \in Raw(h) /\ w <= v /\ 100 * (v - w) < Ctl[h].maxval + 100
<1> DEFINE M == Span(h)
           q == (100 * v) \div M
           p == (q * M) \div 100
<1>1. M \in Nat \ {0} /\ v \in Int /\ 100 * v \in Int /\ M = Ctl[h].maxval
      /\ v - Ctl[h].minval = v
  <2>1. M \in Nat \ {0} /\ Ctl[h].maxval \in Int
    BY Conversions
  <2>2. v \in Int
    BY <2>1 DEF Raw
  <2>3. QED
    BY <2>1, <2>2 DEF Span
<1>2. q \in Int /\ M * q <= 100 * v /\ 100 * v < M * q + M
  BY <1>1, Quotient
<1>3. ToPercent(Ctl[h], v) = q
  BY <1>1, Conversions
<1> HIDE DEF q
<1>4. q * M \in Int /\ q * M = M * q
  <2> HIDE DEF M
  <2>1. QED
    BY <1>1, <1>2
<1>5. p \in Int /\ 100 * p <= q * M /\ q * M < 100 * p + 100
  BY <1>4, Quotient
<1>6. ToRaw(Ctl[h], q) = p
  BY <1>2, Conversions
<1>7. p \in Raw(h)
  BY <1>3, <1>6, ReadIsPercent, WriteFits
<1>8. p <= v /\ 100 * (v - p) < M + 100
  <2> HIDE DEF M, p
  <2>1. QED
    BY <1>1, <1>2, <1>4, <1>5
<1>9. QED
  BY <1>1, <1>3, <1>6, <1>7, <1>8

(* A volume that is as wanted is as good as restored. *)
LEMMA FreeIsRestored ==
  ASSUME TypesOK, NEW h \in HalSet, Free(h), Ctl[h].minval = 0
  PROVE  Restored(h)
<1>1. vol[h] \in Int /\ Ctl[h].maxval \in Int /\ 0 < Ctl[h].maxval
  BY PolicyAssumption DEF TypesOK
<1>2. QED
  BY <1>1 DEF Free, Restored

(* A HAL that is written to: it takes the volume, if its range starts at 0. *)
LEMMA Written ==
  ASSUME TypesOK, NEW h \in HalSet, NEW c \in Percents
  PROVE  /\ Put(h, c) \in [HalSet -> Int]
         /\ \A x \in HalSet : Put(h, c)[x] \in Raw(x)
         /\ \A x \in HalSet : x # h => Put(h, c)[x] = vol[x]
         /\ Ctl[h].minval = 0 => Put(h, c)[h] = ToRaw(Ctl[h], c)
<1>1. vol \in [HalSet -> Int] /\ \A x \in HalSet : vol[x] \in Raw(x)
  BY DEF TypesOK
<1>2. CASE ToRaw(Ctl[h], c) \in Raw(h)
  <2> DEFINE r == ToRaw(Ctl[h], c)
  <2>1. Put(h, c) = [vol EXCEPT ![h] = r] /\ r \in Raw(h)
    BY <1>2 DEF Put
  <2>2. r \in Int
    BY <2>1, Conversions DEF Raw
  <2> HIDE DEF r
  <2>3. /\ Put(h, c) \in [HalSet -> Int]
        /\ \A x \in HalSet : x # h => Put(h, c)[x] = vol[x]
        /\ Put(h, c)[h] = r
    BY <1>1, <2>1, <2>2
  <2>4. QED
    BY <1>1, <2>1, <2>3 DEF r
<1>3. CASE ~(ToRaw(Ctl[h], c) \in Raw(h))
  BY <1>1, <1>3, WriteFits DEF Put
<1>4. QED
  BY <1>2, <1>3

-----------------------------------------------------------------------------
(* The first HAL of a list is one to visit, and the rest are all the others. *)
LEMMA HeadAndTail ==
  ASSUME NEW S, NEW s \in Seq(S), s # <<>>, IsInjective(s)
  PROVE  /\ Head(s) \in S /\ Head(s) \in ToSet(s)
         /\ Tail(s) \in Seq(S) /\ Len(Tail(s)) = Len(s) - 1
         /\ \A i \in 1 .. Len(s) - 1 : Tail(s)[i] = s[i + 1]
         /\ IsInjective(Tail(s))
         /\ ToSet(Tail(s)) = ToSet(s) \ {Head(s)}
<1>1. /\ Head(s) \in S /\ Tail(s) \in Seq(S) /\ Len(Tail(s)) = Len(s) - 1
      /\ \A i \in 1 .. Len(s) - 1 : Tail(s)[i] = s[i + 1]
  BY HeadTailProperties
<1>2. /\ DOMAIN s = 1 .. Len(s) /\ Len(s) \in Nat /\ Len(s) # 0 /\ Head(s) = s[1]
      /\ DOMAIN Tail(s) = 1 .. Len(s) - 1
  BY <1>1, LenProperties, EmptySeq
<1>3. IsInjective(Tail(s))
  <2> SUFFICES ASSUME NEW i \in 1 .. Len(s) - 1, NEW j \in 1 .. Len(s) - 1,
                      Tail(s)[i] = Tail(s)[j]
               PROVE  i = j
    BY <1>2 DEF IsInjective
  <2>1. s[i + 1] = s[j + 1] /\ i + 1 \in 1 .. Len(s) /\ j + 1 \in 1 .. Len(s)
    BY <1>1, <1>2
  <2>2. QED
    BY <1>2, <2>1 DEF IsInjective
<1>4. ToSet(Tail(s)) \subseteq ToSet(s) \ {Head(s)}
  <2> SUFFICES ASSUME NEW i \in 1 .. Len(s) - 1
               PROVE  Tail(s)[i] \in ToSet(s) /\ Tail(s)[i] # s[1]
    BY <1>2 DEF ToSet
  <2>1. Tail(s)[i] = s[i + 1] /\ i + 1 \in 1 .. Len(s) /\ i + 1 # 1 /\ 1 \in 1 .. Len(s)
    BY <1>1, <1>2
  <2>2. QED
    BY <1>2, <2>1 DEF ToSet, IsInjective
<1>5. ToSet(s) \ {Head(s)} \subseteq ToSet(Tail(s))
  <2> SUFFICES ASSUME NEW j \in 1 .. Len(s), s[j] # s[1]
               PROVE  s[j] \in ToSet(Tail(s))
    BY <1>2 DEF ToSet
  <2>1. j - 1 \in 1 .. Len(s) - 1 /\ Tail(s)[j - 1] = s[j]
    BY <1>1, <1>2
  <2>2. QED
    BY <1>2, <2>1 DEF ToSet
<1>6. Head(s) \in ToSet(s)
  BY <1>2 DEF ToSet
<1>7. ToSet(Tail(s)) = ToSet(s) \ {Head(s)}
  BY <1>4, <1>5
<1>8. QED
  BY <1>1, <1>3, <1>6, <1>7

(* The HALs still to visit are a suffix of the registry. *)
LEMMA TodoIsSuffix ==
  ASSUME RunningOK PROVE IsSuffix(running.todo, Hals)
<1> DEFINE s == running.todo
           r == Reverse(s)
           t == Reverse(Hals)
<1>1. /\ s \in Seq(HalSet) /\ Hals \in Seq(HalSet) /\ Len(s) <= Len(Hals)
      /\ \A i \in 1 .. Len(s) : s[i] = Hals[Len(Hals) - Len(s) + i]
  BY PolicyAssumption DEF RunningOK
<1>2. Len(s) \in Nat /\ Len(Hals) \in Nat
  BY <1>1, LenProperties
<1>3. /\ r \in Seq(HalSet) /\ Len(r) = Len(s)
      /\ \A i \in 1 .. Len(s) : r[i] = s[Len(s) - i + 1]
  <2>1. \A i \in 1 .. Len(s) : s[Len(s) - i + 1] \in HalSet
    BY <1>1, <1>2, ElementOfSeq
  <2>2. QED
    BY <1>2, <2>1, IsASeq, LenProperties DEF Reverse
<1>4. /\ t \in Seq(HalSet) /\ Len(t) = Len(Hals)
      /\ \A i \in 1 .. Len(Hals) : t[i] = Hals[Len(Hals) - i + 1]
  <2>1. \A i \in 1 .. Len(Hals) : Hals[Len(Hals) - i + 1] \in HalSet
    BY <1>1, <1>2, ElementOfSeq
  <2>2. QED
    BY <1>2, <2>1, IsASeq, LenProperties DEF Reverse
<1>5. \A i \in 1 .. Len(s) : r[i] = t[i]
  <2> SUFFICES ASSUME NEW i \in 1 .. Len(s) PROVE r[i] = t[i]
    OBVIOUS
  <2>1. /\ Len(s) - i + 1 \in 1 .. Len(s) /\ i \in 1 .. Len(Hals)
        /\ Len(Hals) - Len(s) + (Len(s) - i + 1) = Len(Hals) - i + 1
    BY <1>1, <1>2
  <2> HIDE DEF s, r, t
  <2>2. QED
    BY <1>1, <1>3, <1>4, <2>1
<1> HIDE DEF s, r, t
<1>6. SubSeq(r, 1, Len(r)) = SubSeq(t, 1, Len(r))
  <2>1. /\ \A i \in 1 .. Len(s) : r[i] \in HalSet
        /\ \A i \in 1 .. Len(s) : t[i] \in HalSet
    BY <1>1, <1>2, <1>3, <1>4, <1>5, ElementOfSeq
  <2>2. /\ SubSeq(r, 1, Len(s)) \in Seq(HalSet)
        /\ Len(SubSeq(r, 1, Len(s))) = Len(s)
        /\ \A i \in 1 .. Len(s) : SubSeq(r, 1, Len(s))[i] = r[i]
    BY <1>2, <2>1, SubSeqProperties
  <2>3. /\ SubSeq(t, 1, Len(s)) \in Seq(HalSet)
        /\ Len(SubSeq(t, 1, Len(s))) = Len(s)
        /\ \A i \in 1 .. Len(s) : SubSeq(t, 1, Len(s))[i] = t[i]
    BY <1>2, <2>1, SubSeqProperties
  <2>4. QED
    BY <1>2, <1>3, <1>5, <2>2, <2>3, SeqEqual
<1>7. QED
  BY <1>1, <1>3, <1>4, <1>6 DEF IsSuffix, IsPrefix, s, r, t

(* A control under way that goes on to the next HAL. *)
LEMMA NextHalOK ==
  ASSUME RunningOK, running.source # "none", running.todo # <<>>, running' = NextHal
  PROVE  /\ RunningOK' /\ HalNow \in HalSet /\ HalNow \in Left
         /\ Left' = Left \ {HalNow}
         /\ running'.source = running.source /\ running'.ctl = running.ctl
         /\ running'.read = NoVol
<1> DEFINE s == running.todo
<1>1. /\ s \in Seq(HalSet) /\ s # <<>> /\ IsInjective(s) /\ Len(s) <= Len(Hals)
      /\ running.source \in {"none", "request", "release"}
      /\ running.ctl \in Controls \union {"none"}
      /\ running = [source |-> running.source, ctl |-> running.ctl, todo |-> s,
                    read |-> running.read]
      /\ \A i \in 1 .. Len(s) : s[i] = Hals[Len(Hals) - Len(s) + i]
  BY DEF RunningOK
<1>2. /\ Head(s) \in HalSet /\ Head(s) \in ToSet(s)
      /\ Tail(s) \in Seq(HalSet) /\ Len(Tail(s)) = Len(s) - 1
      /\ \A i \in 1 .. Len(s) - 1 : Tail(s)[i] = s[i + 1]
      /\ IsInjective(Tail(s))
      /\ ToSet(Tail(s)) = ToSet(s) \ {Head(s)}
  BY <1>1, HeadAndTail
<1>3. Len(s) \in Nat /\ Len(Hals) \in Nat
  BY <1>1, LenProperties, PolicyAssumption
<1>4. running' = [source |-> running.source, ctl |-> running.ctl, todo |-> Tail(s),
                  read |-> NoVol]
  BY <1>1 DEF NextHal
<1>5. \A i \in 1 .. Len(Tail(s)) : Tail(s)[i] = Hals[Len(Hals) - Len(Tail(s)) + i]
  <2> SUFFICES ASSUME NEW i \in 1 .. Len(s) - 1
               PROVE  Tail(s)[i] = Hals[Len(Hals) - (Len(s) - 1) + i]
    BY <1>2
  <2>1. /\ i + 1 \in 1 .. Len(s)
        /\ Len(Hals) - Len(s) + (i + 1) = Len(Hals) - (Len(s) - 1) + i
    BY <1>3
  <2> HIDE DEF s
  <2>2. QED
    BY <1>1, <1>2, <2>1
<1>6. RunningOK'
  <2> HIDE DEF s
  <2>1. running' \in [source : {"none", "request", "release"}, ctl : Controls \union {"none"},
                      todo : Seq(HalSet), read : Percents \union {NoVol}]
    BY <1>1, <1>2, <1>4
  <2>2. /\ running'.source # "none" /\ running'.todo = Tail(s)
    BY <1>4
  <2>3. Len(Tail(s)) <= Len(Hals)
    BY <1>1, <1>2, <1>3
  <2>4. QED
    BY <1>2, <1>5, <2>1, <2>2, <2>3 DEF RunningOK
<1>7. QED
  BY <1>2, <1>4, <1>6 DEF HalNow, Left

-----------------------------------------------------------------------------
(* The initial states satisfy the invariant. *)
LEMMA InitIInv == Init => IInv
<1> SUFFICES ASSUME Init PROVE IInv
  OBVIOUS
<1>1. running = Idle /\ <<>> \in Seq(HalSet) /\ Len(<<>>) = 0 /\ Len(Hals) \in Nat
  BY PolicyAssumption, EmptySeq, LenProperties DEF Init
<1>2. running \in [source : {"none", "request", "release"}, ctl : Controls \union {"none"},
                   todo : Seq(HalSet), read : Percents \union {NoVol}]
  BY <1>1 DEF Idle
<1>3. running.todo = <<>> /\ running.source = "none" /\ running.read = NoVol
  BY <1>1 DEF Idle
<1>4. RunningOK
  BY <1>1, <1>2, <1>3 DEF RunningOK, IsInjective
<1>5. TypesOK
  <2>1. \A h \in HalSet : vol[h] \in Raw(h)
    BY PolicyAssumption DEF Init
  <2>2. \A h \in HalSet : vol[h] \in Int
    BY <2>1, Conversions DEF Raw
  <2>3. vol \in [HalSet -> Int]
    BY <2>2 DEF Init
  <2>4. QED
    BY <1>3, <2>1, <2>3, PolicyAssumption DEF Init, TypesOK
<1>6. OneAtATime
  <2>1. \A h \in Untouched : Restored(h)
    BY <1>5, FreeIsRestored DEF Init, Free, Untouched
  <2>2. QED
    BY <1>3, <2>1 DEF Init, OneAtATime, AtRest, AtRequest, AtRelease
<1>7. QED
  BY <1>4, <1>5, <1>6 DEF IInv

(* A control is requested or released: it has all HALs to visit. *)
LEMMA StartOK ==
  ASSUME NEW c \in Controls, NEW source \in {"request", "release"},
         running' = [source |-> source, ctl |-> c, todo |-> Hals, read |-> NoVol]
  PROVE  /\ RunningOK' /\ Left' = HalSet
         /\ running'.source = source /\ running'.ctl = c /\ running'.read = NoVol
<1>1. /\ Hals \in Seq(HalSet) /\ IsInjective(Hals) /\ Len(Hals) \in Nat
      /\ running'.todo = Hals /\ running'.source = source
  BY PolicyAssumption, LenProperties
<1>2. running' \in [source : {"none", "request", "release"}, ctl : Controls \union {"none"},
                    todo : Seq(HalSet), read : Percents \union {NoVol}]
  BY <1>1
<1>3. \A i \in 1 .. Len(Hals) : Hals[i] = Hals[Len(Hals) - Len(Hals) + i]
  BY <1>1
<1>4. RunningOK'
  BY <1>1, <1>2, <1>3 DEF RunningOK
<1>5. QED
  BY <1>1, <1>4 DEF Left, HalSet

(* A control is requested. *)
LEMMA RequestIInv ==
  ASSUME IInv, NEW c \in Controls, Request(c)
  PROVE  IInv'
<1>1. /\ running = Idle /\ running.source = "none" /\ c \notin held
      /\ running' = [source |-> "request", ctl |-> c, todo |-> Hals, read |-> NoVol]
      /\ UNCHANGED <<vol, saved, held, fails>>
      /\ clean' => clean /\ held = {}
      /\ held = {} => wanted' = vol
      /\ held # {} => touched' = touched /\ wanted' = wanted
      /\ held = {} => touched' = {}
  BY DEF Request, Idle
<1>2. /\ RunningOK' /\ Left' = HalSet
      /\ running'.source = "request" /\ running'.ctl = c /\ running'.read = NoVol
  BY <1>1, StartOK
<1>3. TypesOK'
  BY <1>1, <1>2 DEF IInv, TypesOK
<1>4. OneAtATime'
  BY <1>1, <1>2 DEF OneAtATime, AtRest, AtRequest, AtRelease, Untouched, Free
<1>5. QED
  BY <1>2, <1>3, <1>4 DEF IInv

(* A control is released. *)
LEMMA ReleaseIInv ==
  ASSUME IInv, NEW c \in Controls, Release(c)
  PROVE  IInv'
<1>1. /\ running = Idle /\ running.source = "none" /\ c \in held
      /\ running' = [source |-> "release", ctl |-> c, todo |-> Hals, read |-> NoVol]
      /\ UNCHANGED <<vol, saved, held, wanted, clean, touched, fails>>
  BY DEF Release, Idle
<1>2. /\ RunningOK' /\ Left' = HalSet
      /\ running'.source = "release" /\ running'.ctl = c /\ running'.read = NoVol
  BY <1>1, StartOK
<1>3. TypesOK'
  BY <1>1, <1>2 DEF IInv, TypesOK
<1>4. OneAtATime'
  <2> SUFFICES ASSUME clean PROVE AtRelease'
    BY <1>1, <1>2 DEF OneAtATime, AtRest, AtRequest
  <2>1. /\ \A h \in Untouched : vol[h] = ToRaw(Ctl[h], Val[c]) /\ Kept(h)
        /\ held = {c}
    BY <1>1 DEF IInv, OneAtATime, AtRest
  <2>2. QED
    BY <1>1, <1>2, <2>1 DEF AtRelease, Untouched, Adjusted, Kept
<1>5. QED
  BY <1>2, <1>3, <1>4 DEF IInv

(* The volume of a HAL is read: the HALs to visit stay the same. *)
LEMMA GetVolumeIInv ==
  ASSUME IInv, GetVolume
  PROVE  IInv'
<1> DEFINE h == HalNow
<1>1. /\ running.source = "request" /\ running.todo # <<>>
      /\ running' = [running EXCEPT !.read = Percent(h)]
      /\ saved' = [saved EXCEPT ![h] = Percent(h)]
      /\ UNCHANGED <<vol, held, wanted, clean, touched, fails>>
  BY DEF GetVolume
<1>2. h \in HalSet /\ h \in Left /\ Percent(h) \in Percents
  <2>1. h \in HalSet /\ h \in Left
    BY <1>1, HeadAndTail DEF IInv, RunningOK, HalNow, Left
  <2>2. QED
    BY <2>1, ReadIsPercent DEF IInv, TypesOK, Percent
<1>3. /\ running' = [source |-> running.source, ctl |-> running.ctl, todo |-> running.todo,
                     read |-> Percent(h)]
  BY <1>1 DEF IInv, RunningOK
<1>4. /\ running'.source = running.source /\ running'.ctl = running.ctl
      /\ running'.todo = running.todo /\ running'.read = Percent(h) /\ HalNow' = h /\ Left' = Left
  BY <1>3 DEF HalNow, Left
<1> HIDE DEF h
<1>5. running' \in [source : {"none", "request", "release"}, ctl : Controls \union {"none"},
                    todo : Seq(HalSet), read : Percents \union {NoVol}]
  BY <1>2, <1>3 DEF IInv, RunningOK
<1>6. RunningOK'
  BY <1>1, <1>4, <1>5 DEF IInv, RunningOK
<1>7. TypesOK'
  BY <1>1, <1>2, <1>4 DEF IInv, TypesOK
<1>8. /\ \A x \in HalSet : x # h => saved'[x] = saved[x]
      /\ saved'[h] = Percent(h)
  BY <1>1, <1>2 DEF IInv, TypesOK
<1>9. OneAtATime'
  <2> SUFFICES ASSUME clean PROVE AtRequest'
    BY <1>1, <1>4 DEF OneAtATime, AtRest, AtRelease
  <2>1. /\ held = {}
        /\ \A x \in Untouched : IF x \in Left THEN Free(x) ELSE Adjusted(x)
    BY <1>1 DEF IInv, OneAtATime, AtRequest
  <2>2. h \in Untouched => saved'[h] = ToPercent(Ctl[h], wanted'[h])
    BY <1>1, <1>2, <1>8, <2>1 DEF Free, Percent
  <2>3. \A x \in Untouched : x \notin Left => Adjusted(x)'
    BY <1>1, <1>2, <1>4, <1>8, <2>1 DEF Untouched, Adjusted, Kept
  <2>4. \A x \in Untouched : x \in Left => Free(x)'
    BY <1>1, <2>1 DEF Free
  <2>5. Untouched' = Untouched
    BY <1>1 DEF Untouched
  <2>6. QED
    BY <1>1, <1>4, <2>1, <2>2, <2>3, <2>4, <2>5 DEF AtRequest, Kept
<1>10. QED
  BY <1>6, <1>7, <1>9 DEF IInv

(* A HAL that does not answer ends the visits. *)
LEMMA GetFailsIInv ==
  ASSUME IInv, GetFails
  PROVE  IInv'
<1>1. /\ running.source = "request" /\ running.read = NoVol
      /\ running' = [source |-> running.source, ctl |-> running.ctl, todo |-> <<>>,
                     read |-> running.read]
      /\ fails < MaxFails /\ fails' = fails + 1 /\ clean' = FALSE
      /\ UNCHANGED <<vol, saved, held, wanted, touched>>
  BY DEF GetFails, IInv, RunningOK
<1>2. /\ running'.source = "request" /\ running'.ctl = running.ctl /\ running'.todo = <<>>
      /\ running'.read = NoVol
  BY <1>1
<1>3. <<>> \in Seq(HalSet) /\ Len(<<>>) = 0 /\ Len(Hals) \in Nat
  BY EmptySeq, LenProperties, PolicyAssumption
<1>4. running' \in [source : {"none", "request", "release"}, ctl : Controls \union {"none"},
                    todo : Seq(HalSet), read : Percents \union {NoVol}]
  BY <1>1, <1>3 DEF IInv, RunningOK
<1>5. RunningOK'
  BY <1>2, <1>3, <1>4 DEF RunningOK, IsInjective
<1>6. TypesOK'
  BY <1>1, <1>2, PolicyAssumption DEF IInv, TypesOK
<1>7. QED
  BY <1>1, <1>5, <1>6 DEF IInv, OneAtATime

(* A HAL gets the volume of the control. *)
LEMMA AdjustIInv ==
  ASSUME IInv, Adjust
  PROVE  IInv'
<1> DEFINE h == HalNow
<1>1. /\ running.source = "request" /\ running.todo # <<>> /\ running.read # NoVol
      /\ vol' = Put(h, Val[running.ctl]) /\ running' = NextHal
      /\ UNCHANGED <<saved, held, wanted, clean, touched, fails>>
      /\ running.ctl \in Controls /\ running.ctl \notin held
  BY DEF Adjust, IInv, TypesOK
<1>2. /\ RunningOK' /\ h \in HalSet /\ h \in Left /\ Left' = Left \ {h}
      /\ running'.source = "request" /\ running'.ctl = running.ctl
      /\ running'.read = NoVol
  BY <1>1, NextHalOK DEF IInv
<1>3. Val[running.ctl] \in Percents
  BY <1>1, PolicyAssumption
<1> HIDE DEF h
<1>4. /\ vol' \in [HalSet -> Int] /\ \A x \in HalSet : vol'[x] \in Raw(x)
      /\ \A x \in HalSet : x # h => vol'[x] = vol[x]
      /\ Ctl[h].minval = 0 => vol'[h] = ToRaw(Ctl[h], Val[running.ctl])
  BY <1>1, <1>2, <1>3, Written DEF IInv
<1>5. TypesOK'
  BY <1>1, <1>2, <1>4 DEF IInv, TypesOK
<1>6. OneAtATime'
  <2> SUFFICES ASSUME clean PROVE AtRequest'
    BY <1>1, <1>2 DEF OneAtATime, AtRest, AtRelease
  <2>1. /\ held = {}
        /\ \A x \in Untouched : IF x \in Left THEN Free(x) ELSE Adjusted(x)
        /\ h \in Untouched => Kept(h)
    BY <1>1 DEF IInv, OneAtATime, AtRequest, h
  <2>2. Untouched' = Untouched /\ Untouched \subseteq HalSet
    BY <1>1 DEF Untouched
  <2>3. \A x \in HalSet : Kept(x)' <=> Kept(x)
    BY <1>1 DEF Kept
  <2>4. \A x \in Untouched : IF x \in Left' THEN Free(x)' ELSE Adjusted(x)'
    <3> SUFFICES ASSUME NEW x \in Untouched PROVE IF x \in Left' THEN Free(x)' ELSE Adjusted(x)'
      OBVIOUS
    <3>1. CASE x = h
      BY <1>1, <1>2, <1>4, <2>1, <2>3, <3>1 DEF Adjusted, Untouched
    <3>2. CASE x # h
      BY <1>1, <1>2, <1>4, <2>1, <2>2, <2>3, <3>2 DEF Adjusted, Free
    <3>3. QED
      BY <3>1, <3>2
  <2>5. QED
    BY <1>1, <1>2, <2>1, <2>2, <2>4 DEF AtRequest
<1>7. QED
  BY <1>2, <1>5, <1>6 DEF IInv

(* A HAL gets its saved volume back. *)
LEMMA RestoreIInv ==
  ASSUME IInv, Restore
  PROVE  IInv'
<1> DEFINE h == HalNow
<1>1. /\ running.source = "release" /\ running.todo # <<>>
      /\ vol' = IF saved[h] = NoVol THEN vol ELSE Put(h, saved[h])
      /\ running' = NextHal
      /\ UNCHANGED <<saved, held, wanted, clean, touched, fails>>
      /\ running.ctl \in Controls /\ running.ctl \in held
  BY DEF Restore, IInv, TypesOK
<1>2. /\ RunningOK' /\ h \in HalSet /\ h \in Left /\ Left' = Left \ {h}
      /\ running'.source = "release" /\ running'.ctl = running.ctl
      /\ running'.read = NoVol
  BY <1>1, NextHalOK DEF IInv
<1> HIDE DEF h
<1>3. /\ saved[h] \in Percents \union {NoVol} /\ NoVol \notin Percents
      /\ vol \in [HalSet -> Int] /\ \A x \in HalSet : vol[x] \in Raw(x)
      /\ wanted[h] \in Raw(h)
  BY <1>2 DEF IInv, TypesOK, Percents, NoVol
<1>4. /\ vol' \in [HalSet -> Int] /\ \A x \in HalSet : vol'[x] \in Raw(x)
      /\ \A x \in HalSet : x # h => vol'[x] = vol[x]
      /\ saved[h] # NoVol /\ Ctl[h].minval = 0 => vol'[h] = ToRaw(Ctl[h], saved[h])
  <2>1. CASE saved[h] = NoVol
    BY <1>1, <1>3, <2>1
  <2>2. CASE saved[h] # NoVol
    BY <1>1, <1>2, <1>3, <2>2, Written DEF IInv
  <2>3. QED
    BY <2>1, <2>2
<1>5. TypesOK'
  BY <1>1, <1>2, <1>4 DEF IInv, TypesOK
<1>6. OneAtATime'
  <2> SUFFICES ASSUME clean PROVE AtRelease'
    BY <1>1, <1>2 DEF OneAtATime, AtRest, AtRequest
  <2>1. /\ held = {running.ctl}
        /\ \A x \in Untouched : IF x \in Left THEN Adjusted(x) ELSE Restored(x)
    BY <1>1 DEF IInv, OneAtATime, AtRelease
  <2>2. Untouched' = Untouched /\ Untouched \subseteq HalSet
    BY <1>1 DEF Untouched
  <2>3. \A x \in HalSet : Kept(x)' <=> Kept(x)
    BY <1>1 DEF Kept
  <2>4. \A x \in Untouched : IF x \in Left' THEN Adjusted(x)' ELSE Restored(x)'
    <3> SUFFICES ASSUME NEW x \in Untouched
                 PROVE  IF x \in Left' THEN Adjusted(x)' ELSE Restored(x)'
      OBVIOUS
    <3>1. CASE x = h
      <4>1. saved[h] = ToPercent(Ctl[h], wanted[h]) /\ Ctl[h].minval = 0
        BY <1>2, <2>1, <3>1 DEF Adjusted, Kept, Untouched
      <4>2. saved[h] # NoVol
        BY <1>2, <1>3, <4>1, ReadIsPercent
      <4>3. vol'[h] = ToRaw(Ctl[h], ToPercent(Ctl[h], wanted[h])) /\ wanted' = wanted
        BY <1>1, <1>4, <4>1, <4>2
      <4>4. vol'[h] <= wanted[h] /\ 100 * (wanted[h] - vol'[h]) < Ctl[h].maxval + 100
        BY <1>2, <1>3, <4>1, <4>3, WrittenBack
      <4>5. QED
        BY <1>2, <3>1, <4>3, <4>4 DEF Restored
    <3>2. CASE x # h
      BY <1>1, <1>2, <1>4, <2>1, <2>2, <2>3, <3>2 DEF Adjusted, Restored
    <3>3. QED
      BY <3>1, <3>2
  <2>5. QED
    BY <1>1, <1>2, <2>1, <2>2, <2>4 DEF AtRelease
<1>7. QED
  BY <1>2, <1>5, <1>6 DEF IInv

(* A HAL is left out, or a call that sets its volume fails. *)
LEMMA HalSkippedIInv ==
  ASSUME IInv, HalSkipped
  PROVE  IInv'
<1>1. /\ running.source # "none" /\ running.todo # <<>> /\ running' = NextHal
      /\ fails < MaxFails /\ fails' = fails + 1 /\ clean' = FALSE
      /\ UNCHANGED <<vol, saved, held, wanted, touched>>
  BY DEF HalSkipped, IInv, RunningOK, Idle
<1>2. /\ RunningOK' /\ running'.source = running.source /\ running'.ctl = running.ctl
      /\ running'.read = NoVol
  BY <1>1, NextHalOK DEF IInv
<1>3. TypesOK'
  BY <1>1, <1>2, PolicyAssumption DEF IInv, TypesOK
<1>4. QED
  BY <1>1, <1>2, <1>3 DEF IInv, OneAtATime

(* All HALs were visited. *)
LEMMA FinishIInv ==
  ASSUME IInv, Finish
  PROVE  IInv'
<1>1. /\ running # Idle /\ running.todo = <<>> /\ running' = Idle
      /\ held' = IF running.source = "request" THEN held \union {running.ctl}
                 ELSE held \ {running.ctl}
      /\ UNCHANGED <<vol, saved, wanted, clean, touched, fails>>
  BY DEF Finish
<1>2. /\ running.source \in {"request", "release"} /\ running.ctl \in Controls
      /\ Left = {}
  BY <1>1 DEF IInv, RunningOK, TypesOK, Left, ToSet
<1>3. /\ running'.source = "none" /\ running'.todo = <<>> /\ running'.read = NoVol
      /\ <<>> \in Seq(HalSet) /\ Len(<<>>) = 0 /\ Len(Hals) \in Nat
  BY <1>1, EmptySeq, LenProperties, PolicyAssumption DEF Idle
<1>4. running' \in [source : {"none", "request", "release"}, ctl : Controls \union {"none"},
                    todo : Seq(HalSet), read : Percents \union {NoVol}]
  BY <1>1, <1>3 DEF Idle
<1>5. RunningOK'
  BY <1>1, <1>3, <1>4 DEF RunningOK, IsInjective
<1>6. TypesOK'
  BY <1>1, <1>2, <1>3 DEF IInv, TypesOK
<1>7. OneAtATime'
  <2> SUFFICES ASSUME clean PROVE AtRest'
    BY <1>1, <1>3 DEF OneAtATime, AtRequest, AtRelease
  <2>1. Untouched' = Untouched
    BY <1>1 DEF Untouched
  <2>2. CASE running.source = "request"
    <3>1. held' = {running.ctl} /\ \A h \in Untouched : Adjusted(h)
      BY <1>1, <1>2, <2>2 DEF IInv, OneAtATime, AtRequest
    <3>2. QED
      BY <1>1, <2>1, <3>1 DEF AtRest, Adjusted, Kept
  <2>3. CASE running.source = "release"
    <3>1. held' = {} /\ \A h \in Untouched : Restored(h)
      BY <1>1, <1>2, <2>3 DEF IInv, OneAtATime, AtRelease
    <3>2. QED
      BY <1>1, <2>1, <3>1 DEF AtRest, Restored
  <2>4. QED
    BY <1>2, <2>2, <2>3
<1>8. QED
  BY <1>5, <1>6, <1>7 DEF IInv

(* Another client sets a volume: what it sets is wanted, or the HAL no longer *)
(* counts.                                                                    *)
LEMMA UserSetIInv ==
  ASSUME IInv, NEW h \in HalSet, NEW v \in UserVols[h], UserSet(h, v)
  PROVE  IInv'
<1>1. /\ vol' = [vol EXCEPT ![h] = v] /\ v \in Raw(h) /\ v \in Int
      /\ UNCHANGED <<saved, running, held, clean, fails>>
  <2>1. UserVols[h] \subseteq Raw(h)
    BY PolicyAssumption
  <2>2. v \in Raw(h) /\ v \in Int
    BY <2>1, Conversions DEF Raw
  <2>3. QED
    BY <2>2 DEF UserSet
<1>2. /\ vol' \in [HalSet -> Int] /\ vol'[h] = v
      /\ \A x \in HalSet : x # h => vol'[x] = vol[x]
      /\ \A x \in HalSet : vol'[x] \in Raw(x)
      /\ Left' = Left /\ HalNow' = HalNow
  BY <1>1 DEF IInv, TypesOK, Left, HalNow
<1>3. RunningOK'
  BY <1>1 DEF IInv, RunningOK, Idle
<1>4. CASE held = {} /\ running = Idle
  <2>1. /\ wanted' = [wanted EXCEPT ![h] = v] /\ touched' = touched
        /\ running.source = "none"
    BY <1>4 DEF UserSet, Idle
  <2>2. /\ wanted' \in [HalSet -> Int] /\ wanted'[h] = v
        /\ \A x \in HalSet : x # h => wanted'[x] = wanted[x]
        /\ \A x \in HalSet : wanted'[x] \in Raw(x)
    BY <1>1, <2>1 DEF IInv, TypesOK
  <2>3. TypesOK'
    BY <1>1, <1>2, <2>1, <2>2 DEF IInv, TypesOK
  <2>4. OneAtATime'
    <3> SUFFICES ASSUME clean, NEW x \in Untouched PROVE Restored(x)'
      BY <1>1, <1>4, <2>1 DEF OneAtATime, AtRest, AtRequest, AtRelease, Untouched
    <3>1. Restored(x) /\ x \in HalSet /\ Ctl[x].minval = 0
      BY <1>4, <2>1 DEF IInv, OneAtATime, AtRest, Untouched
    <3>2. CASE x = h
      <4>1. Ctl[h].maxval \in Int /\ 0 < Ctl[h].maxval
        BY <3>1, <3>2, PolicyAssumption
      <4>2. QED
        BY <1>1, <1>2, <2>2, <3>2, <4>1 DEF Restored
    <3>3. CASE x # h
      BY <1>2, <2>2, <3>1, <3>3 DEF Restored
    <3>4. QED
      BY <3>2, <3>3
  <2>5. QED
    BY <1>3, <2>3, <2>4 DEF IInv
<1>5. CASE ~(held = {} /\ running = Idle)
  <2>1. touched' = touched \union {h} /\ wanted' = wanted
    BY <1>5 DEF UserSet
  <2>2. TypesOK'
    BY <1>1, <1>2, <2>1 DEF IInv, TypesOK
  <2>3. /\ Untouched' = Untouched \ {h} /\ Untouched \subseteq HalSet
        /\ \A x \in Untouched' : (Free(x)' <=> Free(x)) /\ (Adjusted(x)' <=> Adjusted(x))
        /\ \A x \in Untouched' : (Restored(x)' <=> Restored(x)) /\ (Kept(x)' <=> Kept(x))
        /\ \A x \in Untouched' : vol'[x] = vol[x]
    BY <1>1, <1>2, <2>1 DEF Untouched, Free, Adjusted, Restored, Kept
  <2>4. OneAtATime'
    <3> SUFFICES ASSUME clean PROVE AtRest' /\ AtRequest' /\ AtRelease'
      BY <1>1 DEF OneAtATime
    <3>1. AtRest /\ AtRequest /\ AtRelease
      BY DEF IInv, OneAtATime
    <3>2. AtRest'
      BY <1>1, <2>1, <2>3, <3>1 DEF AtRest
    <3>3. AtRequest' /\ AtRelease'
      BY <1>1, <1>2, <2>1, <2>3, <3>1 DEF AtRequest, AtRelease
    <3>4. QED
      BY <3>2, <3>3
  <2>5. QED
    BY <1>3, <2>2, <2>4 DEF IInv
<1>6. QED
  BY <1>4, <1>5

(* Every step keeps the inductive invariant. *)
LEMMA NextIInv == IInv /\ [Next]_vars => IInv'
<1> SUFFICES ASSUME IInv, [Next]_vars PROVE IInv'
  OBVIOUS
<1>1. CASE UNCHANGED vars
  BY <1>1 DEF vars, IInv, RunningOK, TypesOK, OneAtATime, AtRest, AtRequest, AtRelease, Left,
              Untouched, Free, Adjusted, Restored, Kept, HalNow
<1>2. QED
  BY <1>1, RequestIInv, ReleaseIInv, GetVolumeIInv, GetFailsIInv, AdjustIInv, RestoreIInv,
     HalSkippedIInv, FinishIInv, UserSetIInv DEF Next, Step

-----------------------------------------------------------------------------
(* The inductive invariant of the volume policy. *)
THEOREM Invariant == Spec => []IInv
<1>1. QED
  BY InitIInv, NextIInv, PTL DEF Spec

(* Every volume stays in the range of its HAL, what is saved is a           *)
(* percentage, and a control under way has a suffix of the registry to visit. *)
THEOREM TypeCorrect == Spec => []TypeOK
<1>1. IInv => TypeOK
  <2> SUFFICES ASSUME IInv PROVE TypeOK
    OBVIOUS
  <2>1. IsSuffix(running.todo, Hals)
    BY TodoIsSuffix DEF IInv
  <2>2. running.source \in {"none", "request", "release"}
    BY DEF IInv, RunningOK
  <2>3. QED
    BY <2>1, <2>2 DEF IInv, TypesOK, TypeOK
<1>2. QED
  BY <1>1, Invariant, PTL

(* Without a control every HAL has the volume it had when the last one was   *)
(* asked for, less one percent of its range and one raw step at most, and    *)
(* never more; if controls were never held together, no call failed, nobody  *)
(* else set it meanwhile, and its range starts at 0.                         *)
THEOREM ReleaseRestores == Spec => []RestoresUnlessNested
<1>1. IInv => RestoresUnlessNested
  BY DEF IInv, OneAtATime, AtRest, Idle, RestoresUnlessNested
<1>2. QED
  BY <1>1, Invariant, PTL

(* While a control is held every HAL has its value, on the same condition. *)
THEOREM GrantAdjusts == Spec => []GrantedMeansAdjusted
<1>1. IInv => GrantedMeansAdjusted
  BY DEF IInv, OneAtATime, AtRest, Idle, GrantedMeansAdjusted
<1>2. QED
  BY <1>1, Invariant, PTL
=============================================================================
