-------------------------- MODULE MostVolume_proofs --------------------------
(***************************************************************************)
(* Proofs about MostVolume for any number of values, nodes and keys.       *)
(***************************************************************************)
EXTENDS MostVolume, TLAPS

(* Volumes coming through the wrapper fit the library's uint8_t. *)
LEMMA CalculateType == \A p \in Nat : Calculate(p) \in Volumes
  BY DEF Calculate, Volumes

(* The round robin stays inside the list of values. *)
LEMMA VisitedType ==
  ASSUME idxProcessing \in Values, NEW k \in 1 .. N
  PROVE  Visited(k) \in Values
  BY ConfigAssumption DEF Visited, Values

(* Asking for service keeps the flag and the timer together, and leaves a *)
(* timer pending.                                                         *)
LEMMA RequestServiceArms ==
  ASSUME timers \in Nat, serviceRequested \in BOOLEAN, OneTimer, RequestService
  PROVE  /\ timers' \in Nat /\ serviceRequested' \in BOOLEAN
         /\ OneTimer' /\ timers' > 0
<1>1. CASE serviceRequested
  BY <1>1 DEF RequestService, OneTimer, timerVars
<1>2. CASE ~serviceRequested
  BY <1>2 DEF RequestService, OneTimer, timerVars
<1>3. QED
  BY <1>1, <1>2

(* The initial state satisfies the inductive invariant. *)
LEMMA InitIInv == Init => IInv
<1> SUFFICES ASSUME Init PROVE IInv
  OBVIOUS
<1>1. TypeOK
  <2>1. idxProcessing \in Values
    BY ConfigAssumption DEF Init, Values
  <2>2. Unset \in Volumes
    BY DEF Unset, Volumes
  <2>3. timers \in Nat
    BY DEF Init
  <2>4. QED
    BY <2>1, <2>2, <2>3 DEF Init, TypeOK
<1>2. SingleWrite /\ AnswerFindsItsWrite
  BY DEF Init, SingleWrite, AnswerFindsItsWrite
<1>3. OneTimer
  BY DEF Init, OneTimer
<1>4. NoLostWakeup
  BY DEF Init, NoLostWakeup, RequiresUpdate
<1>5. QED
  BY <1>1, <1>2, <1>3, <1>4 DEF IInv

(* Recording new targets preserves it. *)
LEMMA SetValuesIInv ==
  ASSUME IInv, NEW D, NEW vols \in [D -> Volumes], SetValues(vols)
  PROVE  IInv'
<1> DEFINE touched == {i \in Values : Key[i] \in D}
<1>0. DOMAIN vols = D
  OBVIOUS
<1>1. /\ target' = [i \in Values |-> IF i \in touched THEN vols[Key[i]] ELSE target[i]]
      /\ UNCHANGED <<running, available, busy, transmitted, actual,
                     idxProcessing, txBusy, inFlight>>
      /\ IF ~txBusy /\ \E i \in touched : RequiresUpdate(i)'
         THEN RequestService ELSE UNCHANGED timerVars
  BY <1>0 DEF SetValues
<1>2. /\ timers' \in Nat /\ serviceRequested' \in BOOLEAN /\ OneTimer'
      /\ timers > 0 => timers' > 0
      /\ ~txBusy /\ (\E i \in touched : RequiresUpdate(i)') => timers' > 0
  BY <1>1, RequestServiceArms DEF IInv, TypeOK, OneTimer, timerVars
<1>3. TypeOK'
  <2>1. target' \in [Values -> Volumes]
    BY <1>1 DEF IInv, TypeOK
  <2>2. QED
    BY <1>1, <1>2, <2>1 DEF IInv, TypeOK
<1>4. SingleWrite' /\ AnswerFindsItsWrite'
  BY <1>1 DEF IInv, SingleWrite, AnswerFindsItsWrite
<1>5. NoLostWakeup'
  <2> SUFFICES ASSUME NEW i \in Values, RequiresUpdate(i)', ~txBusy'
               PROVE  timers' > 0
    BY <1>1, <1>2 DEF NoLostWakeup, IInv, TypeOK
  <2>1. CASE i \in touched
    BY <2>1, <1>1, <1>2
  <2>2. CASE i \notin touched
    <3>1. RequiresUpdate(i)
      BY <2>2, <1>1 DEF RequiresUpdate, IInv, TypeOK
    <3>2. QED
      BY <3>1, <1>1, <1>2 DEF IInv, NoLostWakeup
  <2>3. QED
    BY <2>1, <2>2
<1>6. QED
  BY <1>2, <1>3, <1>4, <1>5 DEF IInv

(* Starting the library preserves it. *)
LEMMA LibInitIInv == IInv /\ LibInit => IInv'
  BY DEF LibInit, IInv, TypeOK, SingleWrite, OneTimer, NoLostWakeup,
         AnswerFindsItsWrite, RequiresUpdate, deviceVars, timerVars

(* The user's volumes preserve it. *)
LEMMA SetVolumeIInv == IInv /\ SetVolume => IInv'
<1> SUFFICES ASSUME IInv, SetVolume PROVE IInv'
  OBVIOUS
<1>1. ASSUME NEW p \in Percents, SetMaster(p) PROVE IInv'
  <2>1. [k \in {Master} |-> Calculate(p)] \in [{Master} -> Volumes]
    BY <1>1, CalculateType, ConfigAssumption
  <2>2. QED
    BY <1>1, <2>1, SetValuesIInv DEF SetMaster
<1>2. ASSUME NEW ps \in [Keys \ {Master} -> Percents], SetPcm(ps) PROVE IInv'
  <2>1. [k \in Keys \ {Master} |-> Calculate(ps[k])] \in [Keys \ {Master} -> Volumes]
    BY <1>2, CalculateType, ConfigAssumption
  <2>2. QED
    BY <1>2, <2>1, SetValuesIInv DEF SetPcm
<1>3. ASSUME NEW key \in Keys, NEW v \in DirectVolumes, SetDirect(key, v) PROVE IInv'
  <2>1. [k \in {key} |-> v] \in [{key} -> Volumes]
    BY <1>3, ConfigAssumption
  <2>2. QED
    BY <1>3, <2>1, SetValuesIInv DEF SetDirect
<1>4. QED
  BY <1>1, <1>2, <1>3 DEF SetVolume

(* A run of Update preserves it: it finds nothing to do, starts the only    *)
(* write there is, or leaves a timer behind.                                *)
LEMMA ServiceIInv == IInv /\ Service => IInv'
<1> SUFFICES ASSUME IInv, Service PROVE IInv'
  OBVIOUS
<1>1. CASE ServiceIdle
  <2> USE <1>1
  <2>1. OneTimer' /\ timers' \in Nat
    BY DEF ServiceIdle, IInv, OneTimer
  <2>2. TypeOK'
    BY <2>1 DEF ServiceIdle, IInv, TypeOK, deviceVars
  <2>3. SingleWrite' /\ AnswerFindsItsWrite'
    BY DEF ServiceIdle, IInv, SingleWrite, AnswerFindsItsWrite, deviceVars
  <2>4. NoLostWakeup'
    BY DEF ServiceIdle, NoLostWakeup, RequiresUpdate, deviceVars
  <2>5. QED
    BY <2>1, <2>2, <2>3, <2>4 DEF IInv
<1>2. ASSUME NEW k \in 1 .. N, ServiceFires(k) PROVE IInv'
  <2> DEFINE i == Visited(k)
  <2>1. i \in Values
    BY VisitedType DEF IInv, TypeOK
  <2>2. /\ timers' = timers - 1 /\ serviceRequested' = FALSE
        /\ idxProcessing' = i
        /\ transmitted' = [transmitted EXCEPT ![i] = target[i]]
        /\ busy' = [busy EXCEPT ![i] = TRUE]
        /\ txBusy' = TRUE /\ inFlight' = inFlight \union {i}
        /\ timers > 0 /\ ~txBusy
        /\ UNCHANGED <<running, available, target, actual>>
    BY <1>2 DEF ServiceFires
  <2> HIDE DEF i
  <2>3. OneTimer' /\ timers' \in Nat
    BY <2>2 DEF IInv, OneTimer
  <2>4. TypeOK'
    BY <2>1, <2>2, <2>3 DEF IInv, TypeOK
  <2>5. inFlight = {}
    BY <2>2 DEF IInv, SingleWrite
  <2>6. SingleWrite' /\ AnswerFindsItsWrite'
    BY <2>1, <2>2, <2>5 DEF IInv, TypeOK, SingleWrite, AnswerFindsItsWrite
  <2>7. NoLostWakeup'
    BY <2>2 DEF NoLostWakeup
  <2>8. QED
    BY <2>3, <2>4, <2>6, <2>7 DEF IInv
<1>3. ASSUME NEW k \in 1 .. N, ServiceFails(k) PROVE IInv'
  <2>1. Visited(k) \in Values
    BY VisitedType DEF IInv, TypeOK
  <2>2. OneTimer' /\ timers' \in Nat
    BY <1>3 DEF ServiceFails, IInv, OneTimer
  <2>3. TypeOK'
    BY <1>3, <2>1, <2>2 DEF ServiceFails, IInv, TypeOK, deviceVars
  <2>4. SingleWrite' /\ AnswerFindsItsWrite'
    BY <1>3 DEF ServiceFails, IInv, SingleWrite, AnswerFindsItsWrite, deviceVars
  <2>5. NoLostWakeup'
    BY <1>3, <2>2 DEF ServiceFails, NoLostWakeup, OneTimer
  <2>6. QED
    BY <2>2, <2>3, <2>4, <2>5 DEF IInv
<1>4. QED
  BY <1>1, <1>2, <1>3 DEF Service

(* An answer preserves it: it ends the only write and leaves a timer behind. *)
LEMMA AnswerIInv == IInv /\ Answer => IInv'
<1> SUFFICES ASSUME IInv, NEW i \in Values, NEW s \in Statuses, I2cResult(i, s)
             PROVE  IInv'
  BY DEF Answer
<1>1. /\ i \in inFlight /\ inFlight' = inFlight \ {i}
      /\ actual' = [actual EXCEPT ![i] = transmitted[i]] \/ actual' = actual
      /\ txBusy' = FALSE /\ RequestService
      /\ busy' = [busy EXCEPT ![i] = FALSE]
      /\ UNCHANGED <<running, available, target, transmitted, idxProcessing>>
  BY DEF I2cResult
<1>2. timers' \in Nat /\ serviceRequested' \in BOOLEAN /\ OneTimer' /\ timers' > 0
  BY <1>1, RequestServiceArms DEF IInv, TypeOK
<1>3. transmitted[i] \in Volumes
  BY <1>1 DEF IInv, AnswerFindsItsWrite
<1>4. TypeOK'
  BY <1>1, <1>2, <1>3 DEF IInv, TypeOK
<1>5. inFlight' = {}
  BY <1>1 DEF IInv, SingleWrite
<1>6. SingleWrite' /\ AnswerFindsItsWrite'
  BY <1>1, <1>5 DEF IInv, TypeOK, SingleWrite, AnswerFindsItsWrite
<1>7. NoLostWakeup'
  BY <1>2 DEF NoLostWakeup
<1>8. QED
  BY <1>2, <1>4, <1>6, <1>7 DEF IInv

(* A node that comes or goes preserves it: only a node that comes can give *)
(* the library something to write, and then service is asked for.          *)
LEMMA NodeEventIInv == IInv /\ NodeEvent => IInv'
<1> SUFFICES ASSUME IInv, NEW a \in Addresses, NEW b \in BOOLEAN, NodeAvailable(a, b)
             PROVE  IInv'
  BY DEF NodeEvent
<1>1. CASE UNCHANGED vars
  BY <1>1 DEF vars, deviceVars, timerVars, IInv, TypeOK, SingleWrite, OneTimer,
              NoLostWakeup, AnswerFindsItsWrite, RequiresUpdate
<1>2. CASE ~ UNCHANGED vars
  <2>1. /\ available' = [i \in Values |-> IF Address[i] = a THEN b ELSE available[i]]
        /\ actual' = [i \in Values |-> IF Address[i] = a THEN Unset ELSE actual[i]]
        /\ IF b THEN RequestService ELSE UNCHANGED timerVars
        /\ UNCHANGED <<running, busy, target, transmitted, idxProcessing,
                       txBusy, inFlight>>
    BY <1>2 DEF NodeAvailable
  <2>2. /\ timers' \in Nat /\ serviceRequested' \in BOOLEAN /\ OneTimer'
        /\ b \/ timers > 0 => timers' > 0
    BY <2>1, RequestServiceArms DEF IInv, TypeOK, OneTimer, timerVars
  <2>3. TypeOK'
    BY <2>1, <2>2 DEF IInv, TypeOK, Volumes, Unset
  <2>4. SingleWrite' /\ AnswerFindsItsWrite'
    BY <2>1 DEF IInv, SingleWrite, AnswerFindsItsWrite
  <2>5. NoLostWakeup'
    <3> SUFFICES ASSUME NEW i \in Values, RequiresUpdate(i)', ~b, ~txBusy'
                 PROVE  timers' > 0
      BY <2>2 DEF NoLostWakeup
    <3>1. Address[i] # a
      BY <2>1 DEF RequiresUpdate, IInv, TypeOK
    <3>2. RequiresUpdate(i)
      BY <3>1, <2>1 DEF RequiresUpdate, IInv, TypeOK
    <3>3. QED
      BY <3>2, <2>1, <2>2 DEF IInv, NoLostWakeup
  <2>6. QED
    BY <2>2, <2>3, <2>4, <2>5 DEF IInv
<1>3. QED
  BY <1>1, <1>2

(* The inductive invariant holds in every reachable state. *)
THEOREM Invariant == Spec => []IInv
<1>1. IInv /\ [Next]_vars => IInv'
  <2> SUFFICES ASSUME IInv, [Next]_vars PROVE IInv'
    OBVIOUS
  <2>1. CASE UNCHANGED vars
    BY <2>1 DEF vars, deviceVars, timerVars, IInv, TypeOK, SingleWrite, OneTimer,
                NoLostWakeup, AnswerFindsItsWrite, RequiresUpdate
  <2>2. QED
    BY <2>1, LibInitIInv, SetVolumeIInv, ServiceIInv, AnswerIInv, NodeEventIInv
    DEF Next
<1>2. QED
  BY InitIInv, <1>1, PTL DEF Spec

(* Every variable keeps its type, so that in particular no uninitialised or  *)
(* out-of-range volume is ever compared or confirmed.                        *)
THEOREM TypeCorrect == Spec => []TypeOK
<1>1. IInv => TypeOK
  BY DEF IInv
<1>2. QED
  BY <1>1, Invariant, PTL

(* There is never more than one I2C write on its way, and the flags of the   *)
(* container and of the values say so.                                       *)
THEOREM OneWriteAtATime == Spec => []SingleWrite
<1>1. IInv => SingleWrite
  BY DEF IInv
<1>2. QED
  BY <1>1, Invariant, PTL

(* A volume that has to be written is never forgotten: a timer or an answer *)
(* is always about to look at it.                                           *)
THEOREM WakeupIsPending == Spec => []NoLostWakeup
<1>1. IInv => NoLostWakeup
  BY DEF IInv
<1>2. QED
  BY <1>1, Invariant, PTL

(* _service_requested and the armed timer never disagree. *)
THEOREM TimerFollowsFlag == Spec => []OneTimer
<1>1. IInv => OneTimer
  BY DEF IInv
<1>2. QED
  BY <1>1, Invariant, PTL
-----------------------------------------------------------------------------
(* The mirror's write under way, as the library records it. *)
Pending == [i \in Values |-> IF busy[i] THEN transmitted[i] ELSE NoWrite]

(* The mark of no write is not a volume. *)
LEMMA NoWriteIsNoVolume == NoWrite \notin Volumes
  BY DEF NoWrite, Volumes

(* An idle library has no write under way in the mirror. *)
LEMMA IdleIsPendingFree ==
  ASSUME IInv, ~txBusy
  PROVE  \A j \in Values : Pending[j] = NoWrite
  BY DEF IInv, SingleWrite, Pending

(* New targets are a Want step of the mirror. *)
LEMMA SetVolumeRefines == IInv /\ IInv' /\ SetVolume => Mirror!Want
<1> SUFFICES ASSUME IInv, IInv', SetVolume PROVE Mirror!Want
  OBVIOUS
<1>1. UNCHANGED <<available, busy, transmitted, actual>>
  BY DEF SetVolume, SetMaster, SetPcm, SetDirect, SetValues
<1>2. target' \in [Values -> Volumes]
  BY DEF IInv, TypeOK
<1>3. UNCHANGED Pending
  BY <1>1 DEF Pending
<1>4. QED
  BY <1>1, <1>2, <1>3 DEF Mirror!Want, Pending

(* A run of Update starts one write of the mirror or none. *)
LEMMA ServiceRefines ==
  IInv /\ Service =>
      (\E i \in Values : Mirror!StartWrite(i)) \/ UNCHANGED Mirror!vars
<1> SUFFICES ASSUME IInv, Service
             PROVE  (\E i \in Values : Mirror!StartWrite(i)) \/ UNCHANGED Mirror!vars
  OBVIOUS
<1>1. ASSUME UNCHANGED deviceVars PROVE UNCHANGED Mirror!vars
  BY <1>1 DEF deviceVars, Mirror!vars
<1>2. CASE ServiceIdle \/ \E k \in 1 .. N : ServiceFails(k)
  BY <1>1, <1>2 DEF ServiceIdle, ServiceFails
<1>3. ASSUME NEW k \in 1 .. N, ServiceFires(k)
      PROVE  \E i \in Values : Mirror!StartWrite(i)
  <2> DEFINE i == Visited(k)
  <2>1. i \in Values
    BY VisitedType DEF IInv, TypeOK
  <2>2. /\ RequiresUpdate(i) /\ ~txBusy
        /\ transmitted' = [transmitted EXCEPT ![i] = target[i]]
        /\ busy' = [busy EXCEPT ![i] = TRUE]
        /\ UNCHANGED <<running, available, target, actual>>
    BY <1>3 DEF ServiceFires, NextRequiring
  <2> HIDE DEF i
  <2>3. available[i] /\ target[i] # actual[i]
    BY <2>2 DEF RequiresUpdate
  <2>4. \A j \in Values : Pending[j] = NoWrite
    BY <2>2, IdleIsPendingFree
  <2>5. Pending' = [Pending EXCEPT ![i] = target[i]]
    BY <2>1, <2>2 DEF Pending, IInv, TypeOK
  <2>6. Mirror!StartWrite(i)
    BY <2>2, <2>3, <2>4, <2>5 DEF Mirror!StartWrite, Pending
  <2>7. QED
    BY <2>1, <2>6 DEF Mirror!StartWrite
<1>4. QED
  BY <1>2, <1>3 DEF Service

(* An answer ends the mirror's write, and confirms it when it is a success. *)
LEMMA AnswerRefines ==
  IInv /\ Answer =>
      \E i \in Values, success \in BOOLEAN : Mirror!EndWrite(i, success)
<1> SUFFICES ASSUME IInv, NEW i \in Values, NEW s \in Statuses, I2cResult(i, s)
             PROVE  \E success \in BOOLEAN : Mirror!EndWrite(i, success)
  BY DEF Answer
<1>1. busy[i] /\ transmitted[i] \in Volumes
  BY DEF I2cResult, IInv, SingleWrite, AnswerFindsItsWrite
<1>2. Pending[i] = transmitted[i] /\ Pending[i] # NoWrite
  BY <1>1, NoWriteIsNoVolume DEF Pending
<1>3. /\ busy' = [busy EXCEPT ![i] = FALSE]
      /\ UNCHANGED <<available, target, transmitted>>
  BY DEF I2cResult
<1>4. Pending' = [Pending EXCEPT ![i] = NoWrite]
  BY <1>3 DEF Pending, IInv, TypeOK
<1>5. CASE NarrowStatus(s) = 0
  <2>1. actual' = [actual EXCEPT ![i] = Pending[i]]
    BY <1>2, <1>5 DEF I2cResult
  <2>2. Mirror!EndWrite(i, TRUE)
    BY <1>2, <1>3, <1>4, <2>1 DEF Mirror!EndWrite, Pending
  <2>3. QED
    BY <2>2
<1>6. CASE NarrowStatus(s) # 0
  <2>1. actual' = actual
    BY <1>6 DEF I2cResult
  <2>2. Mirror!EndWrite(i, FALSE)
    BY <1>2, <1>3, <1>4, <2>1 DEF Mirror!EndWrite, Pending
  <2>3. QED
    BY <2>2
<1>7. QED
  BY <1>5, <1>6

(* An event of a node is the same event in the mirror, or is lost. *)
LEMMA NodeEventRefines ==
  NodeEvent => (\E a \in Addresses, b \in BOOLEAN : Mirror!Node(a, b))
               \/ UNCHANGED Mirror!vars
<1> SUFFICES ASSUME NEW a \in Addresses, NEW b \in BOOLEAN, NodeAvailable(a, b)
             PROVE  Mirror!Node(a, b) \/ UNCHANGED Mirror!vars
  BY DEF NodeEvent
<1>1. CASE UNCHANGED vars
  BY <1>1 DEF vars, deviceVars, Mirror!vars
<1>2. CASE ~ UNCHANGED vars
  BY <1>2 DEF NodeAvailable, Mirror!Node
<1>3. QED
  BY <1>1, <1>2

(* Whatever its timers, flags and indexes do, the library behaves as the    *)
(* mirror of MostMirror: one write at a time, only of a volume that differs *)
(* on a node known to be there, confirmed only by its own answer.           *)
THEOREM ImplementsMirror == Spec => MirrorSpec
<1>1. Init => Mirror!Init
  BY DEF Init, Mirror!Init
<1>2. IInv /\ IInv' /\ [Next]_vars => [Mirror!Next]_(Mirror!vars)
  <2> SUFFICES ASSUME IInv, IInv', [Next]_vars PROVE Mirror!Next \/ UNCHANGED Mirror!vars
    OBVIOUS
  <2>1. CASE UNCHANGED vars \/ LibInit
    BY <2>1 DEF vars, deviceVars, LibInit, Mirror!vars
  <2>2. CASE SetVolume
    BY <2>2, SetVolumeRefines DEF Mirror!Next
  <2>3. CASE Service
    BY <2>3, ServiceRefines DEF Mirror!Next
  <2>4. CASE Answer
    BY <2>4, AnswerRefines DEF Mirror!Next
  <2>5. CASE NodeEvent
    BY <2>5, NodeEventRefines DEF Mirror!Next
  <2>6. QED
    BY <2>1, <2>2, <2>3, <2>4, <2>5 DEF Next
<1>3. QED
  BY <1>1, <1>2, Invariant, PTL DEF Spec, MirrorSpec, Mirror!Spec
=============================================================================
