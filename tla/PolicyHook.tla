----------------------------- MODULE PolicyHook -----------------------------
(***************************************************************************)
(* The ALSA policy hook (Alsa-Policy-Hook/PolicyHookCb.c).  Opening a PCM  *)
(* sends a list of requests to the audio agent and waits on a semaphore    *)
(* until they are answered; closing it sends them again.  The player's     *)
(* thread sends and waits, a second thread runs the event loop in which    *)
(* answers and timeouts are handled; they share a counter, an error flag   *)
(* and the semaphore, without any lock.                                    *)
(*                                                                         *)
(* Every access of a thread to the counter is a step of its own.  Time is  *)
(* not modelled: a timer may fire at any moment after it is armed.  The    *)
(* agent is outside this repository: it may answer a call, in any order,   *)
(* or never.  Loss of the connection (OnHangupCB) is not modelled.         *)
(***************************************************************************)
EXTENDS Integers, FiniteSets

CONSTANTS
    R,              \* number of requests of the hook
    Garbage         \* values malloc may leave in the counter and the error flag

Requests == 1 .. R
Phases   == {"install", "close"}
Calls    == [request : Requests, phase : Phases]
Call(r, p) == [request |-> r, phase |-> p]

ASSUME HookAssumption ==
    /\ R \in Nat \ {0}
    /\ Garbage \subseteq Int /\ Garbage # {}

VARIABLES
    pc,             \* step of the player's thread
    phase,          \* hook under way: HOOK_INSTALL or HOOK_CLOSE
    idx,            \* request being sent
    mainReg,        \* count, as the player's thread has loaded it
    loopPc,         \* step of the event loop thread
    loopReg,        \* count, as the event loop has loaded it
    semaphore, count, error,    \* fields of afbClientT
    saved,          \* requests whose afbClient field is set
    evtSource,      \* [Requests -> phase that armed the recorded timer, or "freed"]
    timers,         \* calls whose timer is armed
    outstanding,    \* calls sent and not answered
    granted,        \* history: calls answered OK
    failed,         \* history: calls denied, timed out, or not sent
    closeOk,        \* AlsaCloseHook saw no error
    early,          \* history: an answer was handled while calls were being sent
    late            \* history: an answer was handled after its timeout

mainVars == <<pc, phase, idx, mainReg>>
loopVars == <<loopPc, loopReg>>
answers  == <<early, late>>
history  == <<granted, failed, closeOk, answers>>
vars == <<mainVars, loopVars, semaphore, count, error, saved, evtSource,
          timers, outstanding, history>>

Init ==
    /\ pc = "connect" /\ phase = "install" /\ idx = 1 /\ mainReg = 0
    /\ loopPc = "idle" /\ loopReg = 0
    /\ semaphore = 0                    \* sem_init
    /\ count \in Garbage /\ error \in Garbage
    /\ saved = {}
    /\ evtSource = [r \in Requests |-> "none"]
    /\ timers = {} /\ outstanding = {}
    /\ granted = {} /\ failed = {} /\ closeOk = FALSE
    /\ early = FALSE /\ late = FALSE

-----------------------------------------------------------------------------
(* The player's thread.  The install hook first gets its event loop, starts *)
(* the thread that runs it and connects to the agent.  (A semaphore that    *)
(* cannot be initialised is only reported; that is left out.)               *)
Connect ==
    /\ pc = "connect"
    /\ pc' = "arm"
    /\ UNCHANGED <<phase, idx, mainReg, loopVars, semaphore, count, error, saved,
                   evtSource, timers, outstanding, history>>

(* Any of the three may fail: the PCM is refused before a request is made. *)
ConnectFails ==
    /\ pc = "connect"
    /\ pc' = "refused"
    /\ UNCHANGED <<phase, idx, mainReg, loopVars, semaphore, count, error, saved,
                   evtSource, timers, outstanding, history>>

(* CallWithTimeout for each request in turn. *)
this == Call(idx, phase)

ArmTimer ==
    /\ pc = "arm"
    /\ timers' = timers \union {this}
    /\ evtSource' = [evtSource EXCEPT ![idx] = phase]
    /\ pc' = "send"
    /\ UNCHANGED <<phase, idx, mainReg, loopVars, semaphore, count, error,
                   saved, outstanding, history>>

Send ==
    /\ pc = "send"
    /\ outstanding' = outstanding \union {this}
    /\ pc' = "save"
    /\ UNCHANGED <<phase, idx, mainReg, loopVars, semaphore, count, error,
                   saved, evtSource, timers, history>>

(* afb_wsj1_call_s fails: the install hook refuses the PCM, the close hook *)
(* gives up without waiting.  The timer stays armed.                       *)
SendFails ==
    /\ pc = "send"
    /\ failed' = failed \union {this}
    /\ pc' = IF phase = "install" THEN "refused" ELSE "closed"
    /\ UNCHANGED <<phase, idx, mainReg, loopVars, semaphore, count, error,
                   saved, evtSource, timers, outstanding, granted, closeOk, answers>>

SaveClient ==
    /\ pc = "save"
    /\ saved' = saved \union {idx}
    /\ pc' = "load"
    /\ UNCHANGED <<phase, idx, mainReg, loopVars, semaphore, count, error,
                   evtSource, timers, outstanding, history>>

(* afbClient->count ++ *)
LoadCount ==
    /\ pc = "load"
    /\ mainReg' = count
    /\ pc' = "store"
    /\ UNCHANGED <<phase, idx, loopVars, semaphore, count, error, saved,
                   evtSource, timers, outstanding, history>>

StoreCount ==
    /\ pc = "store"
    /\ count' = mainReg + 1
    /\ IF idx < R
       THEN idx' = idx + 1 /\ pc' = "arm"
       ELSE idx' = idx /\ pc' = "launched"
    /\ UNCHANGED <<phase, mainReg, loopVars, semaphore, error, saved,
                   evtSource, timers, outstanding, history>>

(* Mutants: idx is the index of the last request; the count is left as it is. *)
SetCountToLast ==
    /\ pc = "launched"
    /\ count' = R - 1
    /\ pc' = "wait"
    /\ UNCHANGED <<phase, idx, mainReg, loopVars, semaphore, error, saved,
                   evtSource, timers, outstanding, history>>
SetCountNot ==
    /\ pc = "launched"
    /\ pc' = "wait"
    /\ UNCHANGED <<phase, idx, mainReg, loopVars, semaphore, count, error, saved,
                   evtSource, timers, outstanding, history>>

(* LaunchCallRequest: count=idx *)
SetCount ==
    /\ pc = "launched"
    /\ count' = R
    /\ pc' = "wait"
    /\ UNCHANGED <<phase, idx, mainReg, loopVars, semaphore, error, saved,
                   evtSource, timers, outstanding, history>>

Wait ==
    /\ pc = "wait"
    /\ semaphore > 0
    /\ semaphore' = semaphore - 1
    /\ pc' = "check"
    /\ UNCHANGED <<phase, idx, mainReg, loopVars, count, error, saved,
                   evtSource, timers, outstanding, history>>

CheckInstall ==
    /\ pc = "check" /\ phase = "install"
    /\ pc' = IF error = 0 THEN "open" ELSE "refused"
    /\ UNCHANGED <<phase, idx, mainReg, loopVars, semaphore, count, error,
                   saved, evtSource, timers, outstanding, history>>

CheckClose ==
    /\ pc = "check" /\ phase = "close"
    /\ pc' = "closed"
    /\ closeOk' = (error = 0)
    /\ UNCHANGED <<phase, idx, mainReg, loopVars, semaphore, count, error,
                   saved, evtSource, timers, outstanding, granted, failed,
                   answers>>

(* The player closes the PCM: AlsaCloseHook. *)
ClosePcm ==
    /\ pc = "open"
    /\ phase' = "close" /\ idx' = 1 /\ pc' = "arm"
    /\ UNCHANGED <<mainReg, loopVars, semaphore, count, error, saved,
                   evtSource, timers, outstanding, history>>

-----------------------------------------------------------------------------
(* The event loop.  Launching covers LaunchCallRequest of either hook. *)
Launching == pc \in {"connect", "arm", "send", "save", "load", "store", "launched"}

CanAnswer(c) ==
    /\ loopPc = "idle"
    /\ c \in outstanding
    /\ c.request \in saved

(* What every answer does first: it drops the recorded timer, the latest one *)
(* armed for the request, whichever call is answered.                        *)
CancelTimer(c) ==
    /\ timers' = timers \ {Call(c.request, evtSource[c.request])}
    /\ evtSource' = [evtSource EXCEPT ![c.request] = "freed"]
    /\ outstanding' = outstanding \ {c}
    /\ early' = (early \/ Launching)
    /\ late' = (late \/ c \notin timers)

Post == semaphore' = semaphore + 1

(* OnResponseCB with a positive answer: load the counter ... *)
AnsweredOk(c) ==
    /\ CanAnswer(c)
    /\ CancelTimer(c)
    /\ granted' = granted \union {c}
    /\ loopReg' = count
    /\ loopPc' = "decrement"
    /\ UNCHANGED <<mainVars, semaphore, count, error, saved, failed, closeOk>>

(* Mutants: the last answer leaves the error flag alone; it posts nothing. *)
DecrementKeepsError ==
    /\ loopPc = "decrement"
    /\ count' = loopReg - 1
    /\ IF count' = 0 THEN Post ELSE UNCHANGED semaphore
    /\ loopPc' = "idle"
    /\ UNCHANGED <<mainVars, loopReg, error, saved, evtSource, timers,
                   outstanding, history>>
DecrementSilent ==
    /\ loopPc = "decrement"
    /\ count' = loopReg - 1
    /\ error' = IF count' = 0 THEN 0 ELSE error
    /\ loopPc' = "idle"
    /\ UNCHANGED <<mainVars, loopReg, semaphore, saved, evtSource, timers,
                   outstanding, history>>

(* ... and store it: the last one clears the error and releases the waiter. *)
Decrement ==
    /\ loopPc = "decrement"
    /\ count' = loopReg - 1
    /\ IF count' = 0
       THEN error' = 0 /\ Post
       ELSE UNCHANGED <<error, semaphore>>
    /\ loopPc' = "idle"
    /\ UNCHANGED <<mainVars, loopReg, saved, evtSource, timers, outstanding,
                   history>>

(* Mutant: a denial counts as an answer like any other. *)
AnsweredNoCounts(c) ==
    /\ CanAnswer(c)
    /\ CancelTimer(c)
    /\ failed' = failed \union {c}
    /\ loopReg' = count
    /\ loopPc' = "decrement"
    /\ UNCHANGED <<mainVars, semaphore, count, error, saved, granted, closeOk>>

(* OnResponseCB with a negative answer *)
AnsweredNo(c) ==
    /\ CanAnswer(c)
    /\ CancelTimer(c)
    /\ failed' = failed \union {c}
    /\ error' = 1
    /\ Post
    /\ UNCHANGED <<mainVars, loopVars, count, saved, granted, closeOk>>

(* OnResponseCB may kill the player: it runs before CallWithTimeout has stored *)
(* the client, or drops a timer that an earlier answer has freed.              *)
AnswerCrashes(c) ==
    /\ loopPc = "idle"
    /\ c \in outstanding
    /\ c.request \notin saved \/ evtSource[c.request] = "freed"
    /\ pc' = "crashed" /\ loopPc' = "crashed"
    /\ UNCHANGED <<phase, idx, mainReg, loopReg, semaphore, count, error, saved,
                   evtSource, timers, outstanding, history>>

(* Mutant: a timeout is only logged. *)
TimeoutLogged(c) ==
    /\ loopPc = "idle"
    /\ c \in timers
    /\ timers' = timers \ {c}
    /\ failed' = failed \union {c}
    /\ UNCHANGED <<mainVars, loopVars, semaphore, count, error, saved, evtSource,
                   outstanding, granted, closeOk, answers>>

(* OnTimeoutCB *)
Timeout(c) ==
    /\ loopPc = "idle"
    /\ c \in timers
    /\ timers' = timers \ {c}
    /\ failed' = failed \union {c}
    /\ error' = 1
    /\ Post
    /\ UNCHANGED <<mainVars, loopVars, count, saved, evtSource, outstanding,
                   granted, closeOk, answers>>

-----------------------------------------------------------------------------
Player ==
    \/ Connect \/ ConnectFails
    \/ ArmTimer \/ Send \/ SendFails \/ SaveClient \/ LoadCount \/ StoreCount
    \/ SetCount \/ Wait \/ CheckInstall \/ CheckClose

Answer(c) == AnsweredOk(c) \/ AnsweredNo(c) \/ AnswerCrashes(c)

Next ==
    \/ Player
    \/ ClosePcm
    \/ Decrement
    \/ \E c \in Calls : Answer(c) \/ Timeout(c)

(* Both threads run and armed timers fire; the agent need not answer, nor the *)
(* player close the PCM.                                                      *)
Fairness ==
    /\ WF_vars(Player)
    /\ WF_vars(Decrement)
    /\ \A c \in Calls : WF_vars(Timeout(c))

Spec == Init /\ [][Next]_vars /\ Fairness

-----------------------------------------------------------------------------
TypeOK ==
    /\ pc \in {"connect", "arm", "send", "save", "load", "store", "launched",
               "wait", "check", "open", "refused", "closed", "crashed"}
    /\ phase \in Phases
    /\ idx \in Requests
    /\ mainReg \in Int /\ loopReg \in Int /\ count \in Int /\ error \in Int
    /\ loopPc \in {"idle", "decrement", "crashed"}
    /\ semaphore \in Nat
    /\ saved \subseteq Requests
    /\ evtSource \in [Requests -> Phases \union {"none", "freed"}]
    /\ timers \subseteq Calls /\ outstanding \subseteq Calls
    /\ granted \subseteq Calls /\ failed \subseteq Calls
    /\ closeOk \in BOOLEAN /\ early \in BOOLEAN /\ late \in BOOLEAN

Opened == pc = "open" \/ phase = "close"
AllGranted(p) == \A r \in Requests : Call(r, p) \in granted

(* "Every Call should return OK in order PCM to open": the PCM is open only *)
(* when all requests of the install hook have been answered OK.             *)
OpenMeansAllGranted == Opened => AllGranted("install")

(* When no answer is handled while calls are still being sent, that is so,   *)
(* with answers after their timeout and timeouts while sending, too.         *)
OpenUnlessEarly == early \/ OpenMeansAllGranted

(* No timer was ever armed: the hook has not come to its first request. *)
NoCallMade == \A r \in Requests : evtSource[r] = "none"

(* A refusal has a cause: the agent could not be reached, and then no call   *)
(* was made, or a request was denied, timed out or could not be sent.  The   *)
(* garbage that malloc leaves in the client never refuses a PCM, nor does a  *)
(* connected hook whose requests have all been answered OK in time.          *)
RefusalHasCause ==
    pc = "refused" =>
        \/ NoCallMade
        \/ \E r \in Requests : Call(r, "install") \in failed

(* "When not more waiting call release semaphore": once every request of the *)
(* hook has been answered OK and handled, the player does not wait any more. *)
AllAnsweredReleases ==
    pc = "wait" /\ loopPc = "idle" /\ AllGranted(phase) => semaphore > 0

(* When no answer is handled while calls are still being sent, that is so. *)
ReleasedUnlessEarly == early \/ AllAnsweredReleases

(* "wait for all call request to return": the close hook reports success only *)
(* when the requests it sent have been answered OK.                           *)
CloseMeansAllGranted == pc = "closed" /\ closeOk => AllGranted("close")

(* When every answer comes after its calls are sent and before its timeout, *)
(* that is so: no post of the install hook is left for the close hook.      *)
CloseInTime == early \/ late \/ CloseMeansAllGranted

(* The player never waits for ever, although answers may never come, unless *)
(* an answer was handled while calls were being sent.                       *)
WaitEnds == pc = "wait" ~> pc # "wait" \/ early
=============================================================================
