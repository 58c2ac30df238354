-------------------------- MODULE PolicyHook_proofs --------------------------
(***************************************************************************)
(* Proofs about PolicyHook for any number of requests and any values that  *)
(* malloc leaves in the client.                                            *)
(***************************************************************************)
EXTENDS PolicyHook, FiniteSetTheorems, TLAPS

Of(p)      == {c \in Calls : c.phase = p}
Granted(p) == {r \in Requests : Call(r, p) \in granted}
Live       == Launching \/ pc \in {"wait", "check", "open"}
SomeFailed == \E r \in Requests : Call(r, "install") \in failed

(* The install hook knows of its own calls only. *)
OwnCalls ==
    phase = "install" => outstanding \union timers \union granted \union failed \subseteq Of("install")

(* A call that was made has armed a timer.                                    *)
Armed ==
    /\ pc = "connect" => NoCallMade
    /\ pc = "send" => evtSource[idx] # "none"
    /\ \A c \in outstanding : evtSource[c.request] # "none"

(* Whoever posts the semaphore for the install hook has set the error flag,   *)
(* and has set it for a failed request.                                       *)
Caused ==
    /\ pc = "refused" => NoCallMade \/ SomeFailed
    /\ phase = "install" /\ (semaphore > 0 \/ pc = "check") => error = 0 \/ SomeFailed

Verdict ==
    /\ closeOk => pc \in {"closed", "crashed"}
    /\ phase = "close" => pc \notin {"connect", "open", "refused"}

(* As long as no answer has been handled while calls were being sent: the    *)
(* calls known are of the hook under way and have their timer on record;     *)
CallsOfPhase ==
    /\ outstanding \union timers \subseteq Of(phase)
    /\ \A c \in outstanding : evtSource[c.request] = phase
    /\ pc = "send" => evtSource[idx] = phase
(* a call is answered once;                                                  *)
AnsweredOnce == granted \intersect (outstanding \union timers) = {}
(* none of the hook's calls are answered before all are sent;                *)
NoneYet == Launching => Granted(phase) = {} /\ loopPc # "decrement"
(* afterwards the counter counts those that are not answered OK;             *)
Counted ==
    pc \in {"wait", "check", "open"} =>
        /\ loopPc = "idle" => count = R - Cardinality(Granted(phase))
        /\ loopPc = "decrement" => count = R - Cardinality(Granted(phase)) + 1 /\ loopReg = count
(* the last answer has posted the semaphore, and nobody else has without     *)
(* raising the error flag, in the close hook unless an answer came too late. *)
Complete == Granted(phase) = Requests /\ loopPc # "decrement"
Posted ==
    pc = "wait" /\ loopPc = "idle" /\ Complete => semaphore > 0
Erred ==
    /\ phase = "install" \/ ~late
    /\ Launching \/ pc \in {"wait", "check"}
    /\ semaphore > 0 \/ pc = "check"
    => error = 1 \/ Complete
OpenComplete == pc = "open" => Complete

Ordered ==
    /\ CallsOfPhase /\ AnsweredOnce /\ NoneYet
    /\ Counted /\ Posted /\ Erred /\ OpenComplete
    /\ OpenMeansAllGranted

(* If moreover no answer of the install hook came after its timeout, a failed *)
(* call is never granted, and there is one post at most without a failure.    *)
Timely ==
    phase = "install" /\ Live =>
        /\ granted \intersect failed = {} /\ timers \intersect failed = {}
        /\ Launching => \A c \in timers \union failed :
                            \/ c.request < idx
                            \/ c.request = idx /\ pc \notin {"connect", "arm"}
        /\ failed = {} => /\ semaphore = IF pc = "wait" /\ Complete THEN 1 ELSE 0
                          /\ pc = "check" => Complete

IInv ==
    /\ TypeOK
    /\ OwnCalls /\ Armed /\ Caused /\ Verdict
    /\ early \/ Ordered
    /\ early \/ late \/ Timely
    /\ CloseInTime

-----------------------------------------------------------------------------
(* The call in the hands of the player. *)
LEMMA ThisIsACall == ASSUME TypeOK PROVE this \in Calls /\ this.phase = phase /\ this.request = idx
BY DEF TypeOK, this, Call, Calls

(* Every step keeps the types. *)
LEMMA TypeOKNext == TypeOK /\ [Next]_vars => TypeOK'
<1> SUFFICES ASSUME TypeOK, [Next]_vars PROVE TypeOK'
  OBVIOUS
<1> USE ThisIsACall, HookAssumption
    DEF mainVars, loopVars, answers, history
<1>20. CASE Connect \/ ConnectFails
  BY <1>20 DEF Connect, ConnectFails, TypeOK
<1>1. CASE ArmTimer
  <2>1. evtSource' \in [Requests -> Phases \union {"none", "freed"}] /\ timers' \subseteq Calls
    BY <1>1 DEF ArmTimer, TypeOK
  <2>2. QED
    BY <1>1, <2>1 DEF ArmTimer, TypeOK
<1>2. CASE Send
  BY <1>2 DEF Send, TypeOK
<1>3. CASE SendFails
  BY <1>3 DEF SendFails, TypeOK
<1>4. CASE SaveClient
  BY <1>4 DEF SaveClient, TypeOK
<1>5. CASE LoadCount
  BY <1>5 DEF LoadCount, TypeOK
<1>6. CASE StoreCount
  <2>1. count' \in Int /\ idx' \in Requests /\ pc' \in {"arm", "launched"}
    BY <1>6 DEF StoreCount, TypeOK, Requests
  <2>2. QED
    BY <1>6, <2>1 DEF StoreCount, TypeOK
<1>7. CASE SetCount
  BY <1>7 DEF SetCount, TypeOK
<1>8. CASE Wait
  <2>1. semaphore' \in Nat
    BY <1>8 DEF Wait, TypeOK
  <2>2. QED
    BY <1>8, <2>1 DEF Wait, TypeOK
<1>9. CASE CheckInstall
  BY <1>9 DEF CheckInstall, TypeOK
<1>10. CASE CheckClose
  <2>1. closeOk' \in BOOLEAN
    BY <1>10, Zenon DEF CheckClose
  <2>2. QED
    BY <1>10, <2>1 DEF CheckClose, TypeOK
<1>11. CASE ClosePcm
  BY <1>11 DEF ClosePcm, TypeOK, Phases, Requests
<1>12. CASE Decrement
  <2>1. count' \in Int /\ error' \in Int /\ semaphore' \in Nat
    BY <1>12 DEF Decrement, Post, TypeOK
  <2>2. QED
    BY <1>12, <2>1 DEF Decrement, TypeOK
<1>13. ASSUME NEW c \in Calls, CancelTimer(c)
       PROVE  /\ timers' \subseteq Calls /\ outstanding' \subseteq Calls
              /\ evtSource' \in [Requests -> Phases \union {"none", "freed"}]
              /\ early' \in BOOLEAN /\ late' \in BOOLEAN
  <2>1. early' \in BOOLEAN /\ late' \in BOOLEAN
    BY <1>13, Zenon DEF CancelTimer
  <2>2. QED
    BY <1>13, <2>1 DEF CancelTimer, TypeOK
<1>14. ASSUME NEW c \in Calls, AnsweredOk(c) PROVE TypeOK'
  BY <1>13, <1>14 DEF AnsweredOk, TypeOK
<1>15. ASSUME NEW c \in Calls, AnsweredNo(c) PROVE TypeOK'
  BY <1>13, <1>15 DEF AnsweredNo, Post, TypeOK
<1>16. ASSUME NEW c \in Calls, AnswerCrashes(c) PROVE TypeOK'
  BY <1>16 DEF AnswerCrashes, TypeOK
<1>17. ASSUME NEW c \in Calls, Timeout(c) PROVE TypeOK'
  BY <1>17 DEF Timeout, Post, TypeOK
<1>18. CASE UNCHANGED vars
  BY <1>18 DEF vars, TypeOK
<1>19. QED
  BY <1>1, <1>2, <1>3, <1>4, <1>5, <1>6, <1>7, <1>8, <1>9, <1>10, <1>11, <1>12,
     <1>14, <1>15, <1>16, <1>17, <1>18, <1>20 DEF Next, Player, Answer

-----------------------------------------------------------------------------
(* What holds however answers come. *)
Simple == OwnCalls /\ Armed /\ Caused /\ Verdict

(* Every step keeps the part that needs no condition. *)
LEMMA SimpleNext == TypeOK /\ Simple /\ [Next]_vars => Simple'
<1> SUFFICES ASSUME TypeOK, Simple, [Next]_vars PROVE Simple'
  OBVIOUS
<1> USE ThisIsACall, HookAssumption
    DEF mainVars, loopVars, answers, history, Of
<1>20. CASE Connect \/ ConnectFails
  BY <1>20 DEF Connect, ConnectFails, Simple, OwnCalls, Armed, Caused, Verdict, SomeFailed, NoCallMade
<1>1. CASE ArmTimer
  <2>1. /\ evtSource'[idx] # "none" /\ idx' = idx /\ pc' = "send"
        /\ \A r \in Requests : evtSource[r] # "none" => evtSource'[r] # "none"
    BY <1>1 DEF ArmTimer, TypeOK, Phases
  <2>2. outstanding' = outstanding /\ \A c \in outstanding : c.request \in Requests
    BY <1>1 DEF ArmTimer, TypeOK, Calls
  <2>3. Armed'
    BY <2>1, <2>2 DEF Simple, Armed
  <2>4. QED
    BY <1>1, <2>3 DEF ArmTimer, Simple, OwnCalls, Caused, Verdict, SomeFailed
<1>2. CASE Send
  BY <1>2 DEF Send, Simple, OwnCalls, Armed, Caused, Verdict, SomeFailed, NoCallMade
<1>3. CASE SendFails
  <2>1. phase = "install" => Call(idx, "install") \in failed' /\ idx \in Requests
    BY <1>3 DEF SendFails, this, TypeOK
  <2>2. phase = "install" => SomeFailed'
    BY <2>1 DEF SomeFailed
  <2>3. QED
    BY <1>3, <2>2 DEF SendFails, Simple, OwnCalls, Armed, Caused, Verdict
<1>4. CASE SaveClient
  BY <1>4 DEF SaveClient, Simple, OwnCalls, Armed, Caused, Verdict, SomeFailed, NoCallMade
<1>5. CASE LoadCount
  BY <1>5 DEF LoadCount, Simple, OwnCalls, Armed, Caused, Verdict, SomeFailed, NoCallMade
<1>6. CASE StoreCount
  BY <1>6 DEF StoreCount, Simple, OwnCalls, Armed, Caused, Verdict, SomeFailed, NoCallMade
<1>7. CASE SetCount
  BY <1>7 DEF SetCount, Simple, OwnCalls, Armed, Caused, Verdict, SomeFailed, NoCallMade
<1>8. CASE Wait
  BY <1>8 DEF Wait, Simple, OwnCalls, Armed, Caused, Verdict, SomeFailed, NoCallMade, TypeOK
<1>9. CASE CheckInstall
  BY <1>9 DEF CheckInstall, Simple, OwnCalls, Armed, Caused, Verdict, SomeFailed, NoCallMade
<1>10. CASE CheckClose
  BY <1>10 DEF CheckClose, Simple, OwnCalls, Armed, Caused, Verdict, SomeFailed, NoCallMade
<1>11. CASE ClosePcm
  BY <1>11 DEF ClosePcm, Simple, OwnCalls, Armed, Caused, Verdict, SomeFailed, NoCallMade
<1>12. CASE Decrement
  BY <1>12 DEF Decrement, Post, Simple, OwnCalls, Armed, Caused, Verdict, SomeFailed, NoCallMade
<1>13. ASSUME NEW c \in Calls, c \in outstanding \/ c \in timers, phase = "install"
       PROVE  c = Call(c.request, "install") /\ c.request \in Requests
  BY <1>13 DEF Simple, OwnCalls, Calls, Call
<1>14. ASSUME NEW c \in Calls, AnsweredOk(c) PROVE Simple'
  BY <1>14 DEF AnsweredOk, CanAnswer, CancelTimer, Simple, OwnCalls, Armed, Caused, Verdict, SomeFailed, NoCallMade
<1>15. ASSUME NEW c \in Calls, AnsweredNo(c) PROVE Simple'
  <2>1. phase = "install" => SomeFailed'
    BY <1>13, <1>15 DEF AnsweredNo, CanAnswer, SomeFailed
  <2>4. Armed' /\ (pc # "refused" \/ SomeFailed')
    <3>1. c \in outstanding /\ CancelTimer(c) /\ UNCHANGED <<pc, idx>>
      BY <1>15 DEF AnsweredNo, CanAnswer, mainVars
    <3>2. \A r \in Requests : evtSource[r] # "none" => evtSource'[r] # "none"
      BY <3>1 DEF CancelTimer, TypeOK
    <3>3. outstanding' \subseteq outstanding /\ \A d \in outstanding : d.request \in Requests
      BY <3>1 DEF CancelTimer, TypeOK, Calls
    <3>4. pc # "connect" /\ (pc = "send" => idx \in Requests)
      BY <3>1, <3>3 DEF Simple, Armed, NoCallMade, TypeOK
    <3>5. Armed'
      BY <3>1, <3>2, <3>3, <3>4 DEF Simple, Armed
    <3>6. pc # "refused" \/ SomeFailed
      BY <3>1, <3>3 DEF Simple, Armed, Caused, NoCallMade
    <3>7. SomeFailed => SomeFailed'
      BY <1>15 DEF AnsweredNo, SomeFailed
    <3>8. QED
      BY <3>5, <3>6, <3>7
  <2>2. SomeFailed => SomeFailed'
    BY <1>15 DEF AnsweredNo, SomeFailed
  <2>3. QED
    BY <1>15, <2>1, <2>2, <2>4 DEF AnsweredNo, CanAnswer, CancelTimer, Simple, OwnCalls, Caused, Verdict
<1>16. ASSUME NEW c \in Calls, AnswerCrashes(c) PROVE Simple'
  BY <1>16 DEF AnswerCrashes, Simple, OwnCalls, Armed, Caused, Verdict, SomeFailed, NoCallMade
<1>17. ASSUME NEW c \in Calls, Timeout(c) PROVE Simple'
  <2>1. phase = "install" => SomeFailed'
    BY <1>13, <1>17 DEF Timeout, SomeFailed
  <2>2. SomeFailed => SomeFailed'
    BY <1>17 DEF Timeout, SomeFailed
  <2>4. Armed' /\ NoCallMade' = NoCallMade
    BY <1>17 DEF Timeout, Simple, Armed, NoCallMade
  <2>3. QED
    BY <1>17, <2>1, <2>2, <2>4 DEF Timeout, Simple, OwnCalls, Caused, Verdict
<1>18. CASE UNCHANGED vars
  BY <1>18 DEF vars, Simple, OwnCalls, Armed, Caused, Verdict, SomeFailed, NoCallMade
<1>19. QED
  BY <1>1, <1>2, <1>3, <1>4, <1>5, <1>6, <1>7, <1>8, <1>9, <1>10, <1>11, <1>12,
     <1>14, <1>15, <1>16, <1>17, <1>18, <1>20 DEF Next, Player, Answer

-----------------------------------------------------------------------------
(* Counting the requests answered OK. *)
LEMMA GrantedCount ==
  ASSUME NEW G \in SUBSET Requests
  PROVE  /\ Cardinality(G) \in 0 .. R
         /\ Cardinality(G) = R <=> G = Requests
         /\ Cardinality({}) = 0
         /\ \A r \in Requests : r \notin G => Cardinality(G \union {r}) = Cardinality(G) + 1
<1>1. IsFiniteSet(Requests) /\ Cardinality(Requests) = R
  BY FS_Interval, HookAssumption DEF Requests
<1>2. /\ IsFiniteSet(G) /\ Cardinality(G) \in Nat /\ Cardinality(G) <= R
      /\ Cardinality(G) = R => G = Requests
  BY <1>1, FS_Subset, FS_CardinalityType
<1>3. Cardinality({}) = 0
  BY FS_EmptySet
<1>4. \A r \in Requests : r \notin G => Cardinality(G \union {r}) = Cardinality(G) + 1
  BY <1>2, FS_AddElement
<1>5. QED
  BY <1>1, <1>2, <1>3, <1>4, HookAssumption

(* A step of the player's thread before the semaphore, without an answer. *)
LEMMA LaunchingOrdered ==
  ASSUME TypeOK, OwnCalls, Ordered, ~early,
         Connect \/ ArmTimer \/ Send \/ SaveClient \/ LoadCount \/ StoreCount
  PROVE  Ordered'
<1>1. /\ Launching /\ Launching'
      /\ UNCHANGED <<phase, loopPc, semaphore, error, granted, late>>
      /\ pc' \in {"arm", "send", "save", "load", "store", "launched"}
  BY DEF Connect, ArmTimer, Send, SaveClient, LoadCount, StoreCount, Launching, loopVars, history, answers
<1>2. Granted(phase)' = Granted(phase) /\ Granted(phase) = {} /\ loopPc # "decrement"
  BY <1>1 DEF Granted, Ordered, NoneYet
<1>3. this \in Calls /\ this.phase = phase /\ this.request = idx /\ this \notin granted
  BY <1>2, ThisIsACall DEF Granted, this, Call, TypeOK
<1>4. CallsOfPhase' /\ AnsweredOnce'
  <2>1. CASE ArmTimer
    BY <1>1, <1>3, <2>1 DEF ArmTimer, Ordered, CallsOfPhase, AnsweredOnce, Of, TypeOK
  <2>2. CASE Send
    BY <1>1, <1>3, <2>2 DEF Send, Ordered, CallsOfPhase, AnsweredOnce, Of
  <2>3. CASE Connect \/ SaveClient \/ LoadCount \/ StoreCount
    BY <1>1, <2>3 DEF Connect, SaveClient, LoadCount, StoreCount, Ordered, CallsOfPhase, AnsweredOnce, Of
  <2>4. QED
    BY <2>1, <2>2, <2>3
<1>5. NoneYet' /\ Counted' /\ Posted' /\ OpenComplete'
  BY <1>1, <1>2 DEF NoneYet, Counted, Posted, OpenComplete
<1>6. Erred'
  BY <1>1, <1>2 DEF Ordered, Erred, Complete
<1>7. OpenMeansAllGranted'
  BY <1>1 DEF Ordered, OpenMeansAllGranted, Opened, AllGranted
<1>8. QED
  BY <1>4, <1>5, <1>6, <1>7 DEF Ordered

(* The player waits, and goes on. *)
LEMMA WaitingOrdered ==
  ASSUME TypeOK, OwnCalls, Ordered, ~early, early \/ late \/ Timely,
         SetCount \/ Wait \/ CheckInstall \/ CheckClose \/ SendFails \/ ConnectFails
  PROVE  Ordered'
<1>1. /\ UNCHANGED <<phase, loopPc, granted, late, evtSource, outstanding, timers, error>>
      /\ pc \in {"connect", "send", "launched", "wait", "check"}
      /\ pc' \in {"wait", "check", "open", "refused", "closed"} /\ ~Launching'
  BY DEF SetCount, Wait, CheckInstall, CheckClose, SendFails, ConnectFails, Launching, loopVars, history, answers
<1>2. Granted(phase)' = Granted(phase) /\ Complete' = Complete
  BY <1>1 DEF Granted, Complete
<1>3. CallsOfPhase' /\ AnsweredOnce' /\ NoneYet'
  BY <1>1 DEF Ordered, CallsOfPhase, AnsweredOnce, NoneYet, Of
<1>4. CASE SetCount
  <2>1. /\ Launching /\ pc' = "wait" /\ count' = R /\ semaphore' = semaphore
    BY <1>4 DEF SetCount, Launching
  <2>2. Granted(phase) = {} /\ loopPc # "decrement" /\ Requests # {}
    BY <2>1, HookAssumption DEF Ordered, NoneYet, Requests
  <2>3. Counted' /\ Posted' /\ OpenComplete'
    BY <1>1, <1>2, <2>1, <2>2, GrantedCount, HookAssumption
       DEF Counted, Posted, OpenComplete, Complete
  <2>4. Erred' /\ OpenMeansAllGranted'
    BY <1>1, <1>2, <2>1 DEF Ordered, Erred, OpenMeansAllGranted, Opened, AllGranted
  <2>5. QED
    BY <1>3, <2>3, <2>4 DEF Ordered
<1>5. CASE Wait
  <2>1. pc = "wait" /\ pc' = "check" /\ count' = count /\ semaphore > 0 /\ loopReg' = loopReg
    BY <1>5 DEF Wait, loopVars
  <2>2. Counted' /\ Posted' /\ OpenComplete'
    BY <1>1, <1>2, <2>1 DEF Ordered, Counted, Posted, OpenComplete
  <2>3. Erred' /\ OpenMeansAllGranted'
    BY <1>1, <1>2, <2>1 DEF Ordered, Erred, OpenMeansAllGranted, Opened, AllGranted
  <2>4. QED
    BY <1>3, <2>2, <2>3 DEF Ordered
<1>6. CASE CheckInstall
  <2>1. /\ pc = "check" /\ phase = "install" /\ pc' = IF error = 0 THEN "open" ELSE "refused"
        /\ count' = count /\ loopReg' = loopReg
    BY <1>6 DEF CheckInstall, loopVars
  <2>2. pc' = "open" => Complete
    BY <2>1 DEF Ordered, Erred
  <2>3. Counted' /\ Posted' /\ OpenComplete' /\ Erred'
    BY <1>1, <1>2, <2>1, <2>2 DEF Ordered, Counted, Posted, OpenComplete, Erred, Launching
  <2>4. OpenMeansAllGranted'
    BY <1>1, <2>1, <2>2 DEF OpenMeansAllGranted, Opened, AllGranted, Complete, Granted
  <2>5. QED
    BY <1>3, <2>3, <2>4 DEF Ordered
<1>7. CASE CheckClose \/ SendFails \/ ConnectFails
  <2>1. pc' \in {"refused", "closed"}
    BY <1>7 DEF CheckClose, SendFails, ConnectFails
  <2>2. Counted' /\ Posted' /\ OpenComplete' /\ Erred'
    BY <2>1 DEF Counted, Posted, OpenComplete, Erred, Launching
  <2>3. OpenMeansAllGranted'
    BY <1>1, <2>1 DEF Ordered, OpenMeansAllGranted, Opened, AllGranted
  <2>4. QED
    BY <1>3, <2>2, <2>3 DEF Ordered
<1>8. QED
  BY <1>4, <1>5, <1>6, <1>7

(* The PCM is closed: no call of the install hook is left, nor, if answers *)
(* were in time, a post of it.                                             *)
LEMMA CloseOrdered ==
  ASSUME TypeOK, OwnCalls, Verdict, Ordered, ~early, early \/ late \/ Timely, ClosePcm
  PROVE  Ordered'
<1>1. /\ pc = "open" /\ phase = "install" /\ phase' = "close" /\ pc' = "arm"
      /\ UNCHANGED <<loopPc, semaphore, error, granted, late, evtSource, outstanding, timers>>
  BY DEF ClosePcm, Verdict, TypeOK, Phases, loopVars, history, answers
<1>2. Complete /\ AllGranted("install")
  BY <1>1 DEF Ordered, OpenComplete, OpenMeansAllGranted, Opened
<1>3. \A c \in Of("install") : c \in granted
  <2> SUFFICES ASSUME NEW c \in Of("install") PROVE c \in granted
    OBVIOUS
  <2>1. c.request \in Requests /\ c = Call(c.request, "install")
    BY DEF Of, Calls, Call
  <2>2. QED
    BY <1>2, <2>1 DEF AllGranted
<1>4. outstanding = {} /\ timers = {}
  BY <1>1, <1>3 DEF Ordered, AnsweredOnce, CallsOfPhase
<1>5. Granted(phase)' = {}
  BY <1>1 DEF Granted, OwnCalls, Of, Call
<1>6. CallsOfPhase' /\ AnsweredOnce' /\ NoneYet' /\ Counted' /\ Posted' /\ OpenComplete'
  BY <1>1, <1>2, <1>4, <1>5 DEF CallsOfPhase, AnsweredOnce, NoneYet, Counted, Posted,
                                OpenComplete, Complete
<1>7. Erred'
  <2> SUFFICES ASSUME ~late PROVE semaphore = 0
    BY <1>1 DEF Erred
  <2>1. failed = {}
    BY <1>1, <1>3 DEF Timely, Live, OwnCalls
  <2>2. QED
    BY <1>1, <2>1 DEF Timely, Live
<1>8. OpenMeansAllGranted'
  BY <1>1, <1>2 DEF OpenMeansAllGranted, AllGranted
<1>9. QED
  BY <1>6, <1>7, <1>8 DEF Ordered

(* What a call that is answered in order has in common with others. *)
LEMMA AnswerInOrder ==
  ASSUME TypeOK, Ordered, ~early', NEW c \in Calls, CanAnswer(c), CancelTimer(c)
  PROVE  /\ ~early /\ ~Launching /\ loopPc = "idle"
         /\ c \in outstanding /\ c \notin granted
         /\ c.phase = phase /\ c.request \in Requests /\ c = Call(c.request, phase)
         /\ c.request \notin Granted(phase) /\ ~Complete
         /\ timers' = timers \ {c} /\ outstanding' = outstanding \ {c}
         /\ late' = (late \/ c \notin timers)
         /\ \A d \in outstanding' : evtSource'[d.request] = evtSource[d.request]
<1>1. ~early /\ ~Launching /\ loopPc = "idle" /\ c \in outstanding /\ c \notin granted
  BY DEF CanAnswer, CancelTimer, Ordered, AnsweredOnce
<1>2. c.phase = phase /\ c.request \in Requests /\ c = Call(c.request, phase)
  BY <1>1 DEF Ordered, CallsOfPhase, Of, Calls, Call
<1>3. c.request \notin Granted(phase) /\ ~Complete
  BY <1>1, <1>2 DEF Granted, Complete
<1>4. timers' = timers \ {c} /\ outstanding' = outstanding \ {c}
  BY <1>1, <1>2 DEF CancelTimer, Ordered, CallsOfPhase
<1>5. ASSUME NEW d \in outstanding' PROVE evtSource'[d.request] = evtSource[d.request]
  <2>1. d.request # c.request
    BY <1>1, <1>2, <1>4, <1>5 DEF Ordered, CallsOfPhase, Of, Calls, Call
  <2>2. QED
    BY <1>4, <1>5, <2>1 DEF CancelTimer, TypeOK, Calls
<1>6. QED
  BY <1>1, <1>2, <1>3, <1>4, <1>5 DEF CancelTimer

(* An answer OK. *)
LEMMA AnsweredOkOrdered ==
  ASSUME TypeOK, Ordered, ~early', NEW c \in Calls, AnsweredOk(c)
  PROVE  Ordered'
<1>1. /\ CanAnswer(c) /\ CancelTimer(c) /\ granted' = granted \union {c}
      /\ loopReg' = count /\ loopPc' = "decrement"
      /\ UNCHANGED <<pc, phase, idx, semaphore, count, error>>
  BY DEF AnsweredOk, mainVars
<1>2. /\ ~early /\ ~Launching /\ loopPc = "idle"
      /\ c \in outstanding /\ c \notin granted
      /\ c.phase = phase /\ c.request \in Requests /\ c = Call(c.request, phase)
      /\ c.request \notin Granted(phase) /\ ~Complete
      /\ timers' = timers \ {c} /\ outstanding' = outstanding \ {c}
      /\ late' = (late \/ c \notin timers)
      /\ \A d \in outstanding' : evtSource'[d.request] = evtSource[d.request]
  BY <1>1, AnswerInOrder
<1>3. ~Launching' /\ pc # "send" /\ pc # "open"
  BY <1>1, <1>2 DEF Launching, Ordered, OpenComplete
<1>4. Granted(phase)' = Granted(phase) \union {c.request}
  BY <1>1, <1>2 DEF Granted, Call
<1>5. Cardinality(Granted(phase)') = Cardinality(Granted(phase)) + 1
      /\ Cardinality(Granted(phase)) \in 0 .. R
  <2>1. Granted(phase) \in SUBSET Requests
    BY DEF Granted
  <2>2. QED
    BY <1>2, <1>4, <2>1, GrantedCount
<1>6. CallsOfPhase' /\ AnsweredOnce' /\ NoneYet'
  BY <1>1, <1>2, <1>3 DEF Ordered, CallsOfPhase, AnsweredOnce, NoneYet, Of
<1>7. Counted' /\ Posted' /\ OpenComplete'
  BY <1>1, <1>2, <1>3, <1>5, HookAssumption DEF Ordered, Counted, Posted, OpenComplete
<1>8. Erred'
  BY <1>1, <1>2, <1>3 DEF Ordered, Erred
<1>9. OpenMeansAllGranted'
  BY <1>1, <1>2 DEF Ordered, OpenMeansAllGranted, Opened, AllGranted
<1>10. QED
  BY <1>6, <1>7, <1>8, <1>9 DEF Ordered

(* A refusal. *)
LEMMA AnsweredNoOrdered ==
  ASSUME TypeOK, Ordered, ~early', NEW c \in Calls, AnsweredNo(c)
  PROVE  Ordered'
<1>1. /\ CanAnswer(c) /\ CancelTimer(c) /\ error' = 1 /\ semaphore' = semaphore + 1
      /\ UNCHANGED <<pc, phase, idx, loopPc, loopReg, count, granted>>
  BY DEF AnsweredNo, Post, mainVars, loopVars
<1>2. /\ ~early /\ ~Launching /\ loopPc = "idle" /\ ~Complete
      /\ timers' = timers \ {c} /\ outstanding' = outstanding \ {c}
      /\ late' = (late \/ c \notin timers)
      /\ \A d \in outstanding' : evtSource'[d.request] = evtSource[d.request]
  BY <1>1, AnswerInOrder
<1>3. ~Launching' /\ pc # "send" /\ pc # "open"
  BY <1>1, <1>2 DEF Launching, Ordered, OpenComplete
<1>4. Granted(phase)' = Granted(phase) /\ Complete' = Complete
  BY <1>1 DEF Granted, Complete
<1>5. CallsOfPhase' /\ AnsweredOnce' /\ NoneYet'
  BY <1>1, <1>2, <1>3 DEF Ordered, CallsOfPhase, AnsweredOnce, NoneYet, Of
<1>6. Counted' /\ Posted' /\ OpenComplete' /\ Erred'
  BY <1>1, <1>2, <1>3, <1>4 DEF Ordered, Counted, Posted, OpenComplete, Erred
<1>7. OpenMeansAllGranted'
  BY <1>1 DEF Ordered, OpenMeansAllGranted, Opened, AllGranted
<1>8. QED
  BY <1>5, <1>6, <1>7 DEF Ordered

(* A timeout. *)
LEMMA TimeoutOrdered ==
  ASSUME TypeOK, Ordered, NEW c \in Calls, Timeout(c)
  PROVE  Ordered'
<1>1. /\ error' = 1 /\ semaphore' = semaphore + 1 /\ timers' = timers \ {c}
      /\ UNCHANGED <<pc, phase, idx, loopPc, loopReg, count, granted, evtSource, outstanding, late>>
  BY DEF Timeout, Post, mainVars, loopVars, answers
<1>2. semaphore > 0 => semaphore' > 0
  BY <1>1 DEF TypeOK
<1>3. Granted(phase)' = Granted(phase) /\ Complete' = Complete /\ Launching' = Launching
  BY <1>1 DEF Granted, Complete, Launching
<1>4. CallsOfPhase' /\ AnsweredOnce' /\ NoneYet'
  BY <1>1, <1>3 DEF Ordered, CallsOfPhase, AnsweredOnce, NoneYet, Of
<1>5. Counted' /\ Posted' /\ OpenComplete' /\ Erred'
  BY <1>1, <1>2, <1>3 DEF Ordered, Counted, Posted, OpenComplete, Erred
<1>6. OpenMeansAllGranted'
  BY <1>1 DEF Ordered, OpenMeansAllGranted, Opened, AllGranted
<1>7. QED
  BY <1>4, <1>5, <1>6 DEF Ordered

(* An OK is counted. *)
LEMMA DecrementOrdered ==
  ASSUME TypeOK, Ordered, ~early, Decrement
  PROVE  Ordered'
<1>1. /\ loopPc = "decrement" /\ loopPc' = "idle" /\ count' = loopReg - 1
      /\ IF count' = 0 THEN error' = 0 /\ semaphore' = semaphore + 1
         ELSE error' = error /\ semaphore' = semaphore
      /\ UNCHANGED <<pc, phase, idx, granted, evtSource, outstanding, timers, late>>
  BY DEF Decrement, Post, mainVars, history, answers
<1>2. ~Launching /\ ~Launching' /\ pc # "open" /\ Granted(phase)' = Granted(phase)
  BY <1>1 DEF Ordered, NoneYet, OpenComplete, Complete, Launching, Granted
<1>3. CallsOfPhase' /\ AnsweredOnce' /\ NoneYet' /\ OpenComplete'
  BY <1>1, <1>2 DEF Ordered, CallsOfPhase, AnsweredOnce, NoneYet, OpenComplete, Of
<1>4. OpenMeansAllGranted'
  BY <1>1 DEF Ordered, OpenMeansAllGranted, Opened, AllGranted
<1>5. CASE pc \in {"wait", "check"}
  <2> DEFINE n == Cardinality(Granted(phase))
  <2>1. Granted(phase) \in SUBSET Requests
    BY DEF Granted
  <2>2. n \in 0 .. R /\ (n = R <=> Granted(phase) = Requests)
    BY <2>1, GrantedCount
  <2>3. count' = R - n
    BY <1>1, <1>5, <2>2, HookAssumption DEF Ordered, Counted
  <2>4. Cardinality(Granted(phase)') = n
    BY <1>2
  <2> HIDE DEF n
  <2>5. count' = 0 <=> Complete'
    <3>1. count' = 0 <=> n = R
      BY <2>2, <2>3, HookAssumption
    <3>2. Complete' <=> Granted(phase) = Requests
      BY <1>1, <1>2 DEF Complete
    <3>3. QED
      BY <2>2, <3>1, <3>2
  <2>6. Counted'
    BY <1>1, <2>3, <2>4 DEF Counted
  <2>7. semaphore \in Nat
    BY DEF TypeOK
  <2>8. Posted' /\ Erred'
    BY <1>1, <1>2, <1>5, <2>5, <2>7 DEF Ordered, Posted, Erred, Complete
  <2>9. QED
    BY <1>3, <1>4, <2>6, <2>8 DEF Ordered
<1>6. CASE pc \notin {"wait", "check"}
  <2>1. Counted' /\ Posted' /\ Erred'
    BY <1>1, <1>2, <1>6 DEF Counted, Posted, Erred
  <2>2. QED
    BY <1>3, <1>4, <2>1 DEF Ordered
<1>7. QED
  BY <1>5, <1>6

(* Every step keeps the count, unless an answer is handled early. *)
LEMMA OrderedNext ==
  ASSUME TypeOK, Simple, early \/ Ordered, early \/ late \/ Timely, [Next]_vars
  PROVE  (early \/ Ordered)'
<1> SUFFICES ASSUME ~early' PROVE Ordered'
  OBVIOUS
<1>1. ~early
  <2>1. ASSUME NEW c \in Calls, Answer(c) \/ Timeout(c) PROVE ~early
    BY <2>1 DEF Answer, AnsweredOk, AnsweredNo, AnswerCrashes, Timeout, CancelTimer, history, answers
  <2>2. QED
    BY <2>1 DEF Next, Player, Connect, ConnectFails, ArmTimer, Send, SendFails, SaveClient, LoadCount, StoreCount,
       SetCount, Wait, CheckInstall, CheckClose, ClosePcm, Decrement, vars, history, answers
<1>2. Ordered /\ OwnCalls /\ Verdict
  BY <1>1 DEF Simple
<1>3. ASSUME NEW c \in Calls, AnswerCrashes(c) PROVE Ordered'
  <2>1. /\ pc' = "crashed" /\ loopPc' = "crashed"
        /\ UNCHANGED <<phase, granted, evtSource, outstanding, timers>>
    BY <1>3 DEF AnswerCrashes, history
  <2>2. QED
    BY <1>2, <2>1 DEF Ordered, CallsOfPhase, AnsweredOnce, NoneYet, Counted, Posted, Erred,
       OpenComplete, OpenMeansAllGranted, Opened, AllGranted, Launching, Of
<1>4. CASE UNCHANGED vars
  BY <1>2, <1>4 DEF vars, mainVars, loopVars, history, answers, Ordered, CallsOfPhase,
     AnsweredOnce, NoneYet, Counted, Posted, Erred, OpenComplete, OpenMeansAllGranted, Opened,
     AllGranted, Launching, Of, Granted, Complete
<1>5. QED
  BY <1>1, <1>2, <1>3, <1>4, LaunchingOrdered, WaitingOrdered, CloseOrdered, AnsweredOkOrdered,
     AnsweredNoOrdered, TimeoutOrdered, DecrementOrdered DEF Next, Player, Answer

-----------------------------------------------------------------------------
(* An answer that was early, or late, stays so in the history. *)
LEMMA AnswersRemembered ==
  ASSUME TypeOK, [Next]_vars, ~early', ~late'
  PROVE  ~early /\ ~late
<1>1. early \in BOOLEAN /\ late \in BOOLEAN
  BY DEF TypeOK
<1>2. ASSUME NEW c \in Calls, AnsweredOk(c) \/ AnsweredNo(c) PROVE ~early /\ ~late
  <2>1. CancelTimer(c)
    BY <1>2 DEF AnsweredOk, AnsweredNo
  <2>2. /\ early' = (early \/ Launching)
        /\ late' = (late \/ c \notin timers)
    BY <2>1, Zenon DEF CancelTimer
  <2>3. QED
    BY <2>2, Zenon
<1>3. ASSUME NEW c \in Calls, AnswerCrashes(c) \/ Timeout(c) PROVE ~early /\ ~late
  <2>1. answers' = answers
    BY <1>3 DEF AnswerCrashes, Timeout, history
  <2>2. QED
    BY <1>1, <2>1 DEF answers
<1>4. CASE Player \/ ClosePcm \/ Decrement \/ UNCHANGED vars
  <2>1. answers' = answers
    BY <1>4 DEF Player, Connect, ConnectFails, ArmTimer, Send, SendFails, SaveClient, LoadCount, StoreCount,
       SetCount, Wait, CheckInstall, CheckClose, ClosePcm, Decrement, vars, history
  <2>2. QED
    BY <1>1, <2>1 DEF answers
<1>5. QED
  BY <1>2, <1>3, <1>4 DEF Next, Answer

(* Before the semaphore nothing is granted, so that nothing is posted without *)
(* a failure.                                                                 *)
LEMMA LaunchingTimely ==
  ASSUME TypeOK, OwnCalls, Ordered, Timely, phase = "install",
         Connect \/ ArmTimer \/ Send \/ SaveClient \/ LoadCount \/ StoreCount
  PROVE  Timely'
<1>1. /\ Launching /\ Launching' /\ Live /\ pc # "wait" /\ pc # "check"
      /\ pc' # "wait" /\ pc' # "check"
      /\ UNCHANGED <<phase, loopPc, semaphore, granted, failed>>
  BY DEF Connect, ArmTimer, Send, SaveClient, LoadCount, StoreCount, Launching, Live, loopVars, history, answers
<1>2. /\ granted \intersect failed = {} /\ timers \intersect failed = {}
      /\ \A c \in timers \union failed :
            c.request < idx \/ (c.request = idx /\ pc \notin {"connect", "arm"})
      /\ failed = {} => semaphore = 0
  BY <1>1 DEF Timely
<1>3. /\ this \in Calls /\ this.request = idx /\ idx \in Int
      /\ \A c \in timers \union failed : c.request \in Int
  BY ThisIsACall DEF TypeOK, Calls, Requests
<1>4. CASE ArmTimer
  <2>1. timers' = timers \union {this} /\ idx' = idx /\ pc = "arm" /\ pc' = "send"
    BY <1>4 DEF ArmTimer
  <2>2. this \notin failed
    BY <1>2, <1>3, <2>1
  <2>3. QED
    BY <1>1, <1>2, <1>3, <2>1, <2>2 DEF Timely
<1>8. CASE Connect
  BY <1>1, <1>2, <1>8 DEF Connect, Timely
<1>5. CASE Send \/ SaveClient \/ LoadCount
  <2>1. timers' = timers /\ idx' = idx /\ pc' \notin {"connect", "arm"}
    BY <1>5 DEF Send, SaveClient, LoadCount
  <2>2. QED
    BY <1>1, <1>2, <2>1 DEF Timely
<1>6. CASE StoreCount
  <2>1. /\ timers' = timers /\ (idx' = idx + 1 \/ (idx' = idx /\ pc' = "launched"))
    BY <1>6 DEF StoreCount
  <2>2. \A c \in timers \union failed :
          c.request < idx' \/ (c.request = idx' /\ pc' \notin {"connect", "arm"})
    BY <1>2, <1>3, <2>1
  <2>3. QED
    BY <1>1, <1>2, <2>1, <2>2 DEF Timely
<1>7. QED
  BY <1>4, <1>5, <1>6, <1>8

(* A step of the player once all calls are sent. *)
LEMMA WaitingTimely ==
  ASSUME TypeOK, Ordered, Timely, phase = "install", SetCount \/ Wait \/ CheckInstall
  PROVE  Timely'
<1>1. /\ UNCHANGED <<phase, loopPc, granted, failed, timers>> /\ ~Launching' /\ Live
  BY DEF SetCount, Wait, CheckInstall, Launching, Live, loopVars, history, answers
<1>2. /\ granted \intersect failed = {} /\ timers \intersect failed = {}
      /\ failed = {} => /\ semaphore = IF pc = "wait" /\ Complete THEN 1 ELSE 0
                        /\ pc = "check" => Complete
  BY <1>1 DEF Timely
<1>3. Complete' = Complete
  BY <1>1 DEF Complete, Granted
<1>4. CASE SetCount
  <2>1. Launching /\ pc = "launched" /\ pc' = "wait" /\ semaphore' = semaphore
    BY <1>4 DEF SetCount, Launching
  <2>2. ~Complete
    BY <2>1, HookAssumption DEF Ordered, NoneYet, Complete, Requests
  <2>3. QED
    BY <1>1, <1>2, <1>3, <2>1, <2>2 DEF Timely
<1>5. CASE Wait
  <2>1. pc = "wait" /\ pc' = "check" /\ semaphore > 0 /\ semaphore' = semaphore - 1
    BY <1>5 DEF Wait
  <2>2. failed = {} => Complete /\ semaphore' = 0
    BY <1>2, <2>1
  <2>3. QED
    BY <1>1, <1>2, <1>3, <2>1, <2>2 DEF Timely
<1>6. CASE CheckInstall
  <2>1. pc = "check" /\ pc' \in {"open", "refused"} /\ semaphore' = semaphore
    BY <1>6 DEF CheckInstall
  <2>2. QED
    BY <1>1, <1>2, <2>1 DEF Timely
<1>7. QED
  BY <1>4, <1>5, <1>6

(* An answer to a call of the installation. *)
LEMMA AnsweredTimely ==
  ASSUME TypeOK, Ordered, Timely, phase = "install", Live, ~early', ~late',
         NEW c \in Calls, AnsweredOk(c) \/ AnsweredNo(c)
  PROVE  Timely'
<1>1. CanAnswer(c) /\ CancelTimer(c) /\ UNCHANGED <<pc, phase, idx>>
  BY DEF AnsweredOk, AnsweredNo, mainVars
<1>2. /\ ~Launching /\ loopPc = "idle" /\ c \in timers /\ c \notin granted /\ ~Complete
      /\ timers' = timers \ {c}
  BY <1>1, AnswerInOrder
<1>3. ~Launching' /\ pc # "open"
  BY <1>1, <1>2 DEF Launching, Ordered, OpenComplete
<1>4. /\ granted \intersect failed = {} /\ timers \intersect failed = {}
      /\ failed = {} => semaphore = 0 /\ pc # "check"
  BY <1>2 DEF Timely
<1>5. CASE AnsweredOk(c)
  <2>1. /\ granted' = granted \union {c} /\ failed' = failed /\ semaphore' = semaphore
        /\ loopPc' = "decrement"
    BY <1>5 DEF AnsweredOk
  <2>2. granted' \intersect failed' = {} /\ timers' \intersect failed' = {} /\ ~Complete'
    BY <1>2, <1>4, <2>1 DEF Complete
  <2>3. QED
    BY <1>1, <1>3, <1>4, <2>1, <2>2 DEF Timely
<1>6. CASE AnsweredNo(c)
  <2>1. granted' = granted /\ failed' = failed \union {c}
    BY <1>6 DEF AnsweredNo
  <2>2. QED
    BY <1>2, <1>3, <1>4, <2>1 DEF Timely
<1>7. QED
  BY <1>5, <1>6

(* A timeout of such a call. *)
LEMMA TimeoutTimely ==
  ASSUME TypeOK, Ordered, Timely, phase = "install", Live, NEW c \in Calls, Timeout(c)
  PROVE  Timely'
<1>1. /\ c \in timers /\ timers' = timers \ {c} /\ failed' = failed \union {c}
      /\ UNCHANGED <<pc, phase, idx, granted>> /\ c \notin granted
  BY DEF Timeout, mainVars, Ordered, AnsweredOnce
<1>2. QED
  BY <1>1 DEF Timely, Launching

(* An OK is counted. *)
LEMMA DecrementTimely ==
  ASSUME TypeOK, Ordered, Timely, phase = "install", Live, Decrement
  PROVE  Timely'
<1>1. /\ loopPc = "decrement" /\ loopPc' = "idle" /\ count' = loopReg - 1
      /\ count' = 0 => semaphore' = semaphore + 1
      /\ count' # 0 => semaphore' = semaphore
      /\ UNCHANGED <<pc, phase, idx, granted, failed, timers>> /\ ~Complete
  BY DEF Decrement, Post, mainVars, history, Complete
<1>2. ~Launching /\ ~Launching' /\ pc \in {"wait", "check"} /\ Granted(phase)' = Granted(phase)
  BY <1>1 DEF Ordered, NoneYet, OpenComplete, Launching, Granted, Live
<1>3. /\ granted \intersect failed = {} /\ timers \intersect failed = {}
      /\ failed = {} => semaphore = 0 /\ pc = "wait"
  BY <1>1, <1>2 DEF Timely, Live
<1>4. count' = 0 <=> Complete'
  <2> DEFINE n == Cardinality(Granted(phase))
  <2>1. Granted(phase) \in SUBSET Requests
    BY DEF Granted
  <2>2. n \in 0 .. R /\ (n = R <=> Granted(phase) = Requests)
    BY <2>1, GrantedCount
  <2>3. count' = R - n
    BY <1>1, <1>2, <2>2, HookAssumption DEF Ordered, Counted
  <2> HIDE DEF n
  <2>4. count' = 0 <=> n = R
    BY <2>2, <2>3, HookAssumption
  <2>5. Complete' <=> Granted(phase) = Requests
    BY <1>1, <1>2 DEF Complete
  <2>6. QED
    BY <2>2, <2>4, <2>5
<1>5. failed' = {} => semaphore' = IF Complete' THEN 1 ELSE 0
  <2>1. CASE count' = 0
    BY <1>1, <1>3, <1>4, <2>1
  <2>2. CASE count' # 0
    BY <1>1, <1>3, <1>4, <2>2
  <2>3. QED
    BY <2>1, <2>2
<1>6. QED
  BY <1>1, <1>2, <1>3, <1>5 DEF Timely

(* Every step keeps the order of the two hooks, unless early or late. *)
LEMMA TimelyNext ==
  ASSUME TypeOK, Simple, early \/ Ordered, early \/ late \/ Timely, [Next]_vars
  PROVE  (early \/ late \/ Timely)'
<1> SUFFICES ASSUME ~early', ~late', phase' = "install", Live' PROVE Timely'
  BY DEF Timely
<1>1. ~early /\ ~late
  BY AnswersRemembered
<1>2. Ordered /\ OwnCalls /\ Timely
  BY <1>1 DEF Simple
<1>3. phase = "install"
  <2>1. ASSUME NEW c \in Calls, Answer(c) \/ Timeout(c) PROVE phase' = phase
    BY <2>1 DEF Answer, AnsweredOk, AnsweredNo, AnswerCrashes, Timeout, mainVars
  <2>2. QED
    BY <2>1 DEF Next, Player, Connect, ConnectFails, ArmTimer, Send, SendFails, SaveClient, LoadCount, StoreCount,
       SetCount, Wait, CheckInstall, CheckClose, ClosePcm, Decrement, vars, mainVars
<1>4. Live
  <2>1. ASSUME NEW c \in Calls, Answer(c) \/ Timeout(c) PROVE Live
    <3>1. pc' = pc \/ pc' = "crashed"
      BY <2>1 DEF Answer, AnsweredOk, AnsweredNo, AnswerCrashes, Timeout, mainVars
    <3>2. QED
      BY <3>1 DEF Live, Launching
  <2>2. CASE Decrement \/ UNCHANGED vars
    BY <2>2 DEF Decrement, vars, mainVars, Live, Launching
  <2>3. CASE Player \/ ClosePcm
    BY <2>3 DEF Player, Connect, ConnectFails, ArmTimer, Send, SendFails, SaveClient, LoadCount, StoreCount, SetCount,
       Wait, CheckInstall, CheckClose, ClosePcm, Live, Launching
  <2>4. QED
    BY <2>1, <2>2, <2>3 DEF Next
<1>5. CASE ConnectFails \/ SendFails \/ CheckClose \/ ClosePcm
  <2>1. CASE ClosePcm
    BY <2>1 DEF ClosePcm
  <2>2. CASE ConnectFails \/ SendFails \/ CheckClose
    BY <2>2 DEF ConnectFails, SendFails, CheckClose, Live, Launching
  <2>3. QED
    BY <1>5, <2>1, <2>2
<1>6. ASSUME NEW c \in Calls, AnswerCrashes(c) PROVE FALSE
  BY <1>6 DEF AnswerCrashes, Live, Launching
<1>7. CASE UNCHANGED vars
  BY <1>2, <1>7 DEF vars, mainVars, loopVars, history, answers, Timely, Live, Launching, Granted,
     Complete
<1>8. QED
  BY <1>1, <1>2, <1>3, <1>4, <1>5, <1>6, <1>7, LaunchingTimely, WaitingTimely, AnsweredTimely,
     TimeoutTimely, DecrementTimely DEF Next, Player, Answer

-----------------------------------------------------------------------------
(* The close hook sees no error only after a post of its own last answer. *)
LEMMA CloseInTimeNext ==
  ASSUME TypeOK, Simple, early \/ Ordered, CloseInTime, [Next]_vars
  PROVE  CloseInTime'
<1> SUFFICES ASSUME ~early', ~late', pc' = "closed", closeOk' PROVE AllGranted("close")'
  BY DEF CloseInTime, CloseMeansAllGranted
<1>1. CASE pc = "closed"
  <2>1. closeOk' = closeOk /\ granted \subseteq granted'
    <3>1. ASSUME NEW c \in Calls, Answer(c) \/ Timeout(c)
          PROVE closeOk' = closeOk /\ granted \subseteq granted'
      BY <3>1 DEF Answer, AnsweredOk, AnsweredNo, AnswerCrashes, Timeout, history
    <3>2. CASE Decrement \/ UNCHANGED vars
      BY <3>2 DEF Decrement, vars, history
    <3>3. ~Player /\ ~ClosePcm
      BY <1>1 DEF Player, Connect, ConnectFails, ArmTimer, Send, SendFails, SaveClient, LoadCount, StoreCount,
         SetCount, Wait, CheckInstall, CheckClose, ClosePcm
    <3>4. QED
      BY <3>1, <3>2, <3>3 DEF Next
  <2>2. closeOk /\ ~early /\ ~late
    BY <2>1, AnswersRemembered, Zenon
  <2>3. QED
    BY <1>1, <2>1, <2>2 DEF CloseInTime, CloseMeansAllGranted, AllGranted
<1>2. CASE pc # "closed" /\ CheckClose
  <2>1. /\ pc = "check" /\ phase = "close" /\ closeOk' = (error = 0) /\ ~early /\ ~late
        /\ granted' = granted
    BY <1>2 DEF CheckClose, answers
  <2>2. error = 0
    BY <2>1
  <2>3. Complete
    BY <2>1, <2>2 DEF Ordered, Erred
  <2>4. QED
    BY <2>1, <2>3 DEF Complete, Granted, AllGranted
<1>3. CASE pc # "closed" /\ ~CheckClose
  <2>1. CASE SendFails
    BY <1>3, <2>1 DEF SendFails, Simple, Verdict
  <2>2. ASSUME NEW c \in Calls, Answer(c) \/ Timeout(c) PROVE FALSE
    BY <1>3, <2>2 DEF Answer, AnsweredOk, AnsweredNo, AnswerCrashes, Timeout, mainVars
  <2>3. QED
    BY <1>3, <2>1, <2>2 DEF Next, Player, Connect, ConnectFails, ArmTimer, Send, SaveClient, LoadCount, StoreCount,
       SetCount, Wait, CheckInstall, ClosePcm, Decrement, vars, mainVars
<1>4. QED
  BY <1>1, <1>2, <1>3

(* The initial states satisfy the invariant. *)
LEMMA InitIInv == Init => IInv
<1> SUFFICES ASSUME Init PROVE IInv
  OBVIOUS
<1>1. TypeOK
  <2>1. closeOk \in BOOLEAN /\ early \in BOOLEAN /\ late \in BOOLEAN
    BY Zenon DEF Init
  <2>2. evtSource \in [Requests -> Phases \union {"none", "freed"}]
    BY DEF Init
  <2>3. QED
    BY <2>1, <2>2, HookAssumption DEF Init, TypeOK, Phases, Requests
<1>2. OwnCalls /\ Armed /\ Caused /\ Verdict /\ CloseInTime
  BY DEF Init, OwnCalls, Armed, NoCallMade, Caused, Verdict, CloseInTime, CloseMeansAllGranted
<1>3. Ordered
  BY DEF Init, Ordered, CallsOfPhase, AnsweredOnce, NoneYet, Counted, Posted, Erred,
     OpenComplete, OpenMeansAllGranted, Opened, Granted, Launching
<1>4. Timely
  BY DEF Init, Timely
<1>5. QED
  BY <1>1, <1>2, <1>3, <1>4 DEF IInv

(* Every step keeps the inductive invariant. *)
LEMMA NextIInv == IInv /\ [Next]_vars => IInv'
<1> SUFFICES ASSUME IInv, [Next]_vars PROVE IInv'
  OBVIOUS
<1>1. TypeOK /\ Simple /\ (early \/ Ordered) /\ (early \/ late \/ Timely) /\ CloseInTime
  BY DEF IInv, Simple
<1>2. QED
  BY <1>1, TypeOKNext, SimpleNext, OrderedNext, TimelyNext, CloseInTimeNext DEF IInv, Simple

-----------------------------------------------------------------------------
(* The inductive invariant of the hook. *)
THEOREM Invariant == Spec => []IInv
<1>1. QED
  BY InitIInv, NextIInv, PTL DEF Spec

(* Every variable keeps its type. *)
THEOREM TypeCorrect == Spec => []TypeOK
<1>1. IInv => TypeOK
  BY DEF IInv
<1>2. QED
  BY <1>1, Invariant, PTL

(* The PCM is open only when all requests of the install hook have been     *)
(* answered OK, unless an answer was handled while calls were being sent.   *)
THEOREM OpenIsGranted == Spec => []OpenUnlessEarly
<1>1. IInv => OpenUnlessEarly
  BY DEF IInv, Ordered, OpenUnlessEarly
<1>2. QED
  BY <1>1, Invariant, PTL

(* A refusal has a cause: no call was made because the agent could not be    *)
(* reached, or a request failed; never what malloc left behind.             *)
THEOREM RefusalIsCaused == Spec => []RefusalHasCause
<1>1. IInv => RefusalHasCause
  BY DEF IInv, Caused, SomeFailed, RefusalHasCause
<1>2. QED
  BY <1>1, Invariant, PTL

(* Once all requests are answered OK and handled the player waits no more, *)
(* unless an answer was handled while calls were being sent.               *)
THEOREM LastAnswerReleases == Spec => []ReleasedUnlessEarly
<1>1. IInv => ReleasedUnlessEarly
  BY DEF IInv, Ordered, Posted, Complete, Granted, AllGranted, AllAnsweredReleases,
     ReleasedUnlessEarly
<1>2. QED
  BY <1>1, Invariant, PTL

(* The close hook reports success only when its own requests have been       *)
(* answered OK, if every answer came after the sending and before its timeout. *)
THEOREM CloseIsGranted == Spec => []CloseInTime
<1>1. IInv => CloseInTime
  BY DEF IInv
<1>2. QED
  BY <1>1, Invariant, PTL
=============================================================================
