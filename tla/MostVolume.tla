----------------------------- MODULE MostVolume -----------------------------
(***************************************************************************)
(* The MOST volume library (HAL_MOST_UNICENS/ucs2-vol) together with the   *)
(* wrapper that drives it (wrap_volume.c, wrap_unicens.c).                 *)
(*                                                                         *)
(* A container holds N volume values.  Each belongs to a network node and  *)
(* answers to a key (the master, or one PCM channel).  A set volume is     *)
(* only recorded as a target; a one-shot timer then runs Update, which     *)
(* walks the values round robin and starts at most one I2C write.  The     *)
(* answer of the UNICENS binding and the availability events of the nodes  *)
(* arrive later, in any order with respect to new volumes.                 *)
(*                                                                         *)
(* All entry points run to completion on the binder's event loop, so each  *)
(* handler is one action.  Time is not modelled: a timer fires some time   *)
(* after it is armed, whichever delay was asked for.                       *)
(***************************************************************************)
EXTENDS Integers

CONSTANTS
    N,              \* number of registered values
    Addresses,      \* node addresses
    Keys,           \* volume keys: the PCM channels and the master
    Master,         \* LIB_MOST_VOLUME_MASTER
    Address,        \* Address[i]: node of value i
    Key,            \* Key[i]: key of value i
    Percents,       \* volumes the ALSA controls deliver
    DirectVolumes,  \* volumes passed straight to lib_most_volume_set
    Statuses        \* status values of the writei2c answer

Values  == 0 .. N-1
Volumes == 0 .. 255                \* uint8_t

(* The conversion of the answer to uint8_t must not map an error to 0. *)
NarrowStatus(status) == (IF status < 0 THEN -status ELSE status) % 256

ASSUME ConfigAssumption ==
    /\ N \in Nat \ {0}
    /\ Master \in Keys
    /\ Address \in [Values -> Addresses]
    /\ Key \in [Values -> Keys]
    /\ Percents \subseteq Nat
    /\ DirectVolumes \subseteq Volumes

ASSUME StatusAssumption ==
    /\ Statuses \subseteq Int
    /\ \A s \in Statuses : NarrowStatus(s) = 0 => s = 0

Unset == 1              \* _target_value = _actual_value = 0x01u
Uninitialised == -1     \* _transmitted_value before the first write
NoWrite == -2           \* no write under way (in the refinement mapping)

VARIABLES
    running,            \* lib_most_volume_init was called
    available,          \* [Values -> BOOLEAN]  _is_available
    busy,               \* [Values -> BOOLEAN]  _is_busy
    target,             \* [Values -> Volumes]  _target_value
    transmitted,        \* [Values -> Volumes or garbage]  _transmitted_value
    actual,             \* [Values -> Volumes]  _actual_value
    idxProcessing,      \* _idx_processing
    txBusy,             \* _tx_busy
    serviceRequested,   \* _service_requested
    timers,             \* one-shot service timers armed and not yet fired
    inFlight            \* values whose writei2c call has not been answered

deviceVars == <<available, busy, target, transmitted, actual>>
timerVars  == <<serviceRequested, timers>>
vars == <<running, deviceVars, idxProcessing, txBusy, timerVars, inFlight>>

Init ==
    /\ running = FALSE
    /\ available = [i \in Values |-> FALSE]
    /\ busy = [i \in Values |-> FALSE]
    /\ target = [i \in Values |-> Unset]
    /\ transmitted = [i \in Values |-> Uninitialised]
    /\ actual = [i \in Values |-> Unset]
    /\ idxProcessing = N - 1
    /\ txBusy = FALSE
    /\ serviceRequested = FALSE
    /\ timers = 0
    /\ inFlight = {}

-----------------------------------------------------------------------------
(* wrap_volume_calculate(value, 100, 255) and the cast to uint8_t. *)
Calculate(percent) ==
    LET clamped == IF percent > 100 THEN 100 ELSE percent
    IN  ((clamped * 255) \div 100) % 256

RequiresUpdate(i) == available[i] /\ ~busy[i] /\ target[i] # actual[i]

(* Mutant: the flag is forgotten. *)
RequestServiceUnflagged == timers' = timers + 1 /\ UNCHANGED serviceRequested

(* RequestService: arm a timer unless one is pending already. *)
RequestService ==
    IF serviceRequested
    THEN UNCHANGED timerVars
    ELSE serviceRequested' = TRUE /\ timers' = timers + 1

LibInit ==
    /\ ~running
    /\ running' = TRUE
    /\ UNCHANGED <<deviceVars, idxProcessing, txBusy, timerVars, inFlight>>

(* Mutant: the targets are recorded and nobody is told. *)
SetValuesSilent(vols) ==
    /\ target' = [i \in Values |->
                    IF Key[i] \in DOMAIN vols THEN vols[Key[i]] ELSE target[i]]
    /\ UNCHANGED <<running, available, busy, transmitted, actual,
                   idxProcessing, txBusy, timerVars, inFlight>>

(* SetValue for every key in the domain of vols, in one handler. *)
SetValues(vols) ==
    LET touched == {i \in Values : Key[i] \in DOMAIN vols}
    IN  /\ target' = [i \in Values |->
                        IF i \in touched THEN vols[Key[i]] ELSE target[i]]
        /\ UNCHANGED <<running, available, busy, transmitted, actual,
                       idxProcessing, txBusy, inFlight>>
        /\ IF ~txBusy /\ \E i \in touched : RequiresUpdate(i)'
           THEN RequestService
           ELSE UNCHANGED timerVars

(* unicens_master_vol_cb: an ALSA event moved the master control. *)
SetMaster(percent) ==
    /\ running
    /\ SetValues([k \in {Master} |-> Calculate(percent)])

(* unicens_pcm_vol_cb: one ALSA event carries all PCM channels. *)
SetPcm(percents) ==
    /\ running
    /\ SetValues([k \in Keys \ {Master} |-> Calculate(percents[k])])

(* lib_most_volume_set, the library's own interface. *)
SetDirect(key, volume) ==
    /\ running
    /\ SetValues([k \in {key} |-> volume])

-----------------------------------------------------------------------------
(* Mutant: every Update starts from the first value again. *)
VisitedFromFirst(k) == k - 1

(* The k-th value Update looks at: IncrementProcIndex comes before each test. *)
Visited(k) ==
    IF idxProcessing + k >= N THEN idxProcessing + k - N ELSE idxProcessing + k

NextRequiring(k) ==
    /\ RequiresUpdate(Visited(k))
    /\ \A m \in 1 .. k-1 : ~RequiresUpdate(Visited(m))

(* The timer fires, and Update finds a write under way or nothing to do. *)
ServiceIdle ==
    /\ timers > 0
    /\ txBusy \/ \A i \in Values : ~RequiresUpdate(i)
    /\ timers' = timers - 1
    /\ serviceRequested' = FALSE
    /\ UNCHANGED <<running, deviceVars, idxProcessing, txBusy, inFlight>>

(* Mutants: _tx_busy is not tested; _transmitted_value is not recorded. *)
ServiceFiresWhileBusy(k) ==
    LET i == Visited(k)
    IN  /\ timers > 0
        /\ NextRequiring(k)
        /\ timers' = timers - 1
        /\ serviceRequested' = FALSE
        /\ idxProcessing' = i
        /\ transmitted' = [transmitted EXCEPT ![i] = target[i]]
        /\ busy' = [busy EXCEPT ![i] = TRUE]
        /\ txBusy' = TRUE
        /\ inFlight' = inFlight \union {i}
        /\ UNCHANGED <<running, available, target, actual>>
ServiceFiresUnrecorded(k) ==
    LET i == Visited(k)
    IN  /\ timers > 0
        /\ ~txBusy
        /\ NextRequiring(k)
        /\ timers' = timers - 1
        /\ serviceRequested' = FALSE
        /\ idxProcessing' = i
        /\ busy' = [busy EXCEPT ![i] = TRUE]
        /\ txBusy' = TRUE
        /\ inFlight' = inFlight \union {i}
        /\ UNCHANGED <<running, available, target, transmitted, actual>>

(* The timer fires, and Update starts the write of the next stale value. *)
ServiceFires(k) ==
    LET i == Visited(k)
    IN  /\ timers > 0
        /\ ~txBusy
        /\ NextRequiring(k)
        /\ timers' = timers - 1
        /\ serviceRequested' = FALSE
        /\ idxProcessing' = i
        /\ transmitted' = [transmitted EXCEPT ![i] = target[i]]
        /\ busy' = [busy EXCEPT ![i] = TRUE]
        /\ txBusy' = TRUE
        /\ inFlight' = inFlight \union {i}
        /\ UNCHANGED <<running, available, target, actual>>

(* wrap_ucs_i2cwrite is out of memory: Update asks for a retry. *)
ServiceFails(k) ==
    /\ timers > 0
    /\ ~txBusy
    /\ NextRequiring(k)
    /\ idxProcessing' = Visited(k)
    /\ timers' = (timers - 1) + 1
    /\ serviceRequested' = TRUE
    /\ UNCHANGED <<running, deviceVars, txBusy, inFlight>>

(* Mutants: a success confirms the target of the moment; a success asks for *)
(* no further service.                                                      *)
I2cResultConfirmsTarget(i, status) ==
    /\ i \in inFlight
    /\ inFlight' = inFlight \ {i}
    /\ actual' = IF NarrowStatus(status) = 0
                 THEN [actual EXCEPT ![i] = target[i]]
                 ELSE actual
    /\ txBusy' = FALSE
    /\ RequestService
    /\ busy' = [busy EXCEPT ![i] = FALSE]
    /\ UNCHANGED <<running, available, target, transmitted, idxProcessing>>
I2cResultRetriesOnly(i, status) ==
    LET result == NarrowStatus(status)
    IN  /\ i \in inFlight
        /\ inFlight' = inFlight \ {i}
        /\ actual' = IF result = 0
                     THEN [actual EXCEPT ![i] = transmitted[i]]
                     ELSE actual
        /\ txBusy' = FALSE
        /\ IF result = 0 THEN UNCHANGED timerVars ELSE RequestService
        /\ busy' = [busy EXCEPT ![i] = FALSE]
        /\ UNCHANGED <<running, available, target, transmitted, idxProcessing>>

(* wrap_ucs_i2cwrite_cb: the value takes the result, tells the container, *)
(* which asks for service, and only then is free again.                   *)
I2cResult(i, status) ==
    LET result == NarrowStatus(status)
    IN  /\ i \in inFlight
        /\ inFlight' = inFlight \ {i}
        /\ actual' = IF result = 0
                     THEN [actual EXCEPT ![i] = transmitted[i]]
                     ELSE actual
        /\ txBusy' = FALSE
        /\ RequestService
        /\ busy' = [busy EXCEPT ![i] = FALSE]
        /\ UNCHANGED <<running, available, target, transmitted, idxProcessing>>

(* Mutants: a node that comes keeps its confirmed volumes; it wakes nobody. *)
NodeAvailableKeeps(address, up) ==
    /\ available' = [i \in Values |->
                       IF Address[i] = address THEN running /\ up ELSE available[i]]
    /\ IF running /\ up THEN RequestService ELSE UNCHANGED timerVars
    /\ UNCHANGED <<running, busy, target, transmitted, actual, idxProcessing,
                   txBusy, inFlight>>
NodeAvailableSilent(address, up) ==
    /\ available' = [i \in Values |->
                       IF Address[i] = address THEN running /\ up ELSE available[i]]
    /\ actual' = [i \in Values |->
                       IF Address[i] = address THEN Unset ELSE actual[i]]
    /\ UNCHANGED <<running, busy, target, transmitted, idxProcessing,
                   txBusy, timerVars, inFlight>>

(* UNICENS/node-availibility: every value of the node is affected, and its *)
(* confirmed volume forgotten; an event before lib_most_volume_init is lost. *)
NodeAvailable(address, up) ==
    \/ /\ ~running
       /\ UNCHANGED vars
    \/ /\ running
       /\ available' = [i \in Values |->
                          IF Address[i] = address THEN up ELSE available[i]]
       /\ actual' = [i \in Values |->
                          IF Address[i] = address THEN Unset ELSE actual[i]]
       /\ IF up THEN RequestService ELSE UNCHANGED timerVars
       /\ UNCHANGED <<running, busy, target, transmitted, idxProcessing,
                      txBusy, inFlight>>

-----------------------------------------------------------------------------
SetVolume ==
    \/ \E p \in Percents : SetMaster(p)
    \/ \E ps \in [Keys \ {Master} -> Percents] : SetPcm(ps)
    \/ \E k \in Keys, v \in DirectVolumes : SetDirect(k, v)

Service == ServiceIdle \/ \E k \in 1 .. N : ServiceFires(k) \/ ServiceFails(k)

Answer == \E i \in Values, s \in Statuses : I2cResult(i, s)

NodeEvent == \E a \in Addresses, up \in BOOLEAN : NodeAvailable(a, up)

Next == LibInit \/ SetVolume \/ Service \/ Answer \/ NodeEvent

(* sd-event fires an armed timer and UNICENS answers every call; nothing is *)
(* assumed of the user, of the nodes or of the status of an answer.         *)
Fairness == WF_vars(Service) /\ WF_vars(Answer)

Spec == Init /\ [][Next]_vars /\ Fairness

-----------------------------------------------------------------------------
(* Every variable has its type; garbage only in _transmitted_value. *)
TypeOK ==
    /\ running \in BOOLEAN
    /\ available \in [Values -> BOOLEAN]
    /\ busy \in [Values -> BOOLEAN]
    /\ target \in [Values -> Volumes]
    /\ transmitted \in [Values -> Volumes \union {Uninitialised}]
    /\ actual \in [Values -> Volumes]
    /\ idxProcessing \in Values
    /\ txBusy \in BOOLEAN
    /\ serviceRequested \in BOOLEAN
    /\ timers \in Nat
    /\ inFlight \in SUBSET Values

(* The container's _tx_busy, the values' _is_busy and the unanswered calls  *)
(* agree, and there is never more than one write on its way: the flags are  *)
(* set and cleared in different handlers (Update, HandleI2cResult of the    *)
(* value, HandleI2cResult of the container), with volumes and node events   *)
(* in between.                                                              *)
SingleWrite ==
    /\ \A i \in Values : busy[i] <=> i \in inFlight
    /\ txBusy <=> inFlight # {}
    /\ \A i, j \in inFlight : i = j

(* _service_requested tells exactly whether a timer is pending: RequestService *)
(* relies on it to skip the callback, so a flag that outlives its timer stops  *)
(* the library for good, and one cleared too early piles up timers.            *)
OneTimer ==
    /\ timers \in {0, 1}
    /\ serviceRequested <=> timers = 1

(* Whenever some value still has to be written, a timer will run Update or an *)
(* answer will ask for one, although SetValue asks only when no write is under *)
(* way and a node event only when the node comes.                             *)
NoLostWakeup ==
    (\E i \in Values : RequiresUpdate(i)) => timers > 0 \/ txBusy

(* What makes the three above inductive: an answer that is still to come *)
(* finds an initialised _transmitted_value.                              *)
AnswerFindsItsWrite == \A i \in inFlight : transmitted[i] \in Volumes

IInv == TypeOK /\ SingleWrite /\ OneTimer /\ NoLostWakeup /\ AnswerFindsItsWrite

(* A volume not yet confirmed on a known node is attempted again and again:    *)
(* traffic on the other values, answers that fail and nodes that come and go   *)
(* cannot keep it waiting for ever, because Update resumes where it stopped.   *)
(* Asked for only while the binder eventually stops running out of memory.     *)
MemoryLasts == <>[][\A k \in 1 .. N : ~ServiceFails(k)]_vars
NoStarvation ==
    MemoryLasts => \A i \in Values : []<>~RequiresUpdate(i)

(* When the user and the nodes leave the library alone and writes succeed,     *)
(* every volume of every known node gets its target, and the library stops.    *)
Undisturbed ==
    <>[][/\ ~SetVolume
         /\ ~NodeEvent
         /\ \A k \in 1 .. N : ~ServiceFails(k)
         /\ \A i \in Values, s \in Statuses \ {0} : ~I2cResult(i, s)]_vars
Settled ==
    /\ \A i \in Values : available[i] => target[i] = actual[i]
    /\ timers = 0
    /\ ~txBusy
Convergence == Undisturbed => <>[]Settled

(* The library implements the mirror of MostMirror: its busy value is the   *)
(* mirror's write under way, carrying what was the target when it started.  *)
Mirror == INSTANCE MostMirror WITH
    desired   <- target,
    confirmed <- actual,
    reachable <- available,
    pending   <- [i \in Values |-> IF busy[i] THEN transmitted[i] ELSE NoWrite]
MirrorSpec == Mirror!Spec
=============================================================================
