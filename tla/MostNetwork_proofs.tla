------------------------- MODULE MostNetwork_proofs --------------------------
(***************************************************************************)
(* Proofs about MostNetwork for any number of values, nodes, keys and      *)
(* messages under way.                                                     *)
(***************************************************************************)
EXTENDS MostNetwork, MostVolume_proofs

Events  == [node : Addresses, up : BOOLEAN]
Answers == [value : Values, status : Statuses]

NetType ==
    /\ up \in [Addresses -> BOOLEAN]
    /\ register \in [Values -> Volumes \union {PowerUp}]
    /\ wire \in SUBSET inFlight
    /\ inbox \in Seq(Events \union Answers) /\ Len(inbox) <= MaxInbox
    /\ asked \in SUBSET Values
    /\ ring \in BOOLEAN /\ missed \in SUBSET Addresses

(* An answer in the inbox is the only one, of the write under way. *)
OneAnswer ==
    /\ \A n \in DOMAIN inbox : IsAnswer(inbox[n]) => inbox[n].value \in inFlight \ wire
    /\ \A m, n \in DOMAIN inbox : IsAnswer(inbox[m]) /\ IsAnswer(inbox[n]) => m = n

(* Before the library is started it knows nothing and writes nothing. *)
Started ==
    /\ ~ring => inbox = <<>> /\ ~running /\ \A a \in Addresses : ~up[a]
    /\ ~running => /\ inFlight = {}
                   /\ \A i \in Values : ~available[i] /\ actual[i] = Unset

LastEvent(n, a) ==
    /\ IsEventOf(inbox[n], a)
    /\ \A k \in DOMAIN inbox : k > n => ~IsEventOf(inbox[k], a)

(* The last event of a node tells whether it is there. *)
NodesTold ==
    \A a \in Addresses :
        /\ \A n \in DOMAIN inbox : LastEvent(n, a) => inbox[n].up = up[a]
        /\ NoEventPending(a) /\ ~running => (up[a] <=> a \in missed)

NodesInv ==
    /\ Started /\ NodesTold /\ NodesKnown

(* A success still to be delivered is about the volume in the node, unless  *)
(* the node was started after it.                                           *)
Success(n) == IsAnswer(inbox[n]) /\ NarrowStatus(inbox[n].status) = 0
SuccessApplied ==
    \A n \in DOMAIN inbox :
        Success(n) /\ (\A k \in DOMAIN inbox :
                          k > n => ~IsEventOf(inbox[k], Address[inbox[n].value]))
            => register[inbox[n].value] = transmitted[inbox[n].value]

(* What the library believes is so, or news of it are on their way. *)
Believed ==
    \A i \in Values :
        /\ actual[i] # Unset
        /\ NoEventPending(Address[i])
        /\ \A n \in DOMAIN inbox : ~(Success(n) /\ inbox[n].value = i)
        => register[i] = actual[i]

AskedSet == \A i \in asked : target[i] # Unset

NetIInv ==
    /\ IInv /\ NetType /\ OneAnswer /\ NodesInv
    /\ LostAnswers \/ (SuccessApplied /\ Believed)
    /\ Unset \in DirectVolumes \/ AskedSet

-----------------------------------------------------------------------------
(* What the messages under way are. *)
LEMMA Messages ==
  /\ \A m \in Events : ~IsAnswer(m) /\ m.node \in Addresses /\ m.up \in BOOLEAN
  /\ \A m \in Answers : IsAnswer(m) /\ m.value \in Values /\ m.status \in Statuses
  /\ \A a \in Addresses, b \in BOOLEAN :
        NodeMessage(a, b) \in Events /\ IsEventOf(NodeMessage(a, b), a)
        /\ NodeMessage(a, b).up = b /\ NodeMessage(a, b).node = a
  /\ \A i \in Values, st \in Statuses :
        AnswerMessage(i, st) \in Answers
        /\ AnswerMessage(i, st).value = i /\ AnswerMessage(i, st).status = st
BY DEF Events, Answers, IsAnswer, NodeMessage, AnswerMessage, IsEventOf

(* A message that arrives is the last, and the others keep their place. *)
LEMMA Arrives ==
  ASSUME NEW M, inbox \in Seq(M), NEW m \in M, inbox' = Append(inbox, m)
  PROVE  /\ inbox' \in Seq(M) /\ Len(inbox') = Len(inbox) + 1
         /\ DOMAIN inbox = 1 .. Len(inbox) /\ Len(inbox) \in Nat
         /\ DOMAIN inbox' = 1 .. Len(inbox) + 1
         /\ inbox'[Len(inbox) + 1] = m
         /\ \A n \in DOMAIN inbox : inbox'[n] = inbox[n]
OBVIOUS

(* The first message is taken, and the others move up. *)
LEMMA Taken ==
  ASSUME NEW M, inbox \in Seq(M), inbox # <<>>, inbox' = Tail(inbox)
  PROVE  /\ inbox' \in Seq(M) /\ Len(inbox') = Len(inbox) - 1
         /\ 1 \in DOMAIN inbox /\ Head(inbox) = inbox[1] /\ Head(inbox) \in M
         /\ DOMAIN inbox = 1 .. Len(inbox) /\ Len(inbox) \in Nat \ {0}
         /\ DOMAIN inbox' = 1 .. Len(inbox) - 1
         /\ \A n \in DOMAIN inbox' : n + 1 \in DOMAIN inbox /\ inbox'[n] = inbox[n + 1]
         /\ \A n \in DOMAIN inbox : n = 1 \/ (n - 1 \in DOMAIN inbox' /\ inbox'[n - 1] = inbox[n])
OBVIOUS

(* What Deliver does to the library, in terms of the first message. *)
LEMMA Delivered ==
  ASSUME NetType, Deliver
  PROVE  /\ inbox \in Seq(Events \union Answers) /\ inbox # <<>> /\ inbox' = Tail(inbox)
         /\ UNCHANGED <<up, register, wire, asked, ring>>
         /\ \/ /\ inbox[1] \in Answers /\ IsAnswer(inbox[1])
               /\ I2cResult(inbox[1].value, inbox[1].status) /\ UNCHANGED missed
            \/ /\ inbox[1] \in Events /\ ~IsAnswer(inbox[1])
               /\ NodeAvailable(inbox[1].node, inbox[1].up)
               /\ missed' = IF inbox[1].up /\ ~running
                            THEN missed \union {inbox[1].node}
                            ELSE missed \ {inbox[1].node}
<1>1. /\ inbox # <<>> /\ inbox' = Tail(inbox) /\ Receive(Head(inbox))
      /\ inbox \in Seq(Events \union Answers)
  BY DEF Deliver, NetType
<1>2. Head(inbox) = inbox[1] /\ inbox[1] \in Events \union Answers
  BY <1>1, Taken
<1>3. QED
  BY <1>1, <1>2, Messages DEF Receive

(* The library takes its steps on the network, or none. *)
LEMMA NetNextIsNext ==
  ASSUME NetType, NetNext
  PROVE  Next \/ UNCHANGED vars
<1>1. CASE UcsInitialise
  BY <1>1 DEF UcsInitialise
<1>2. CASE NetLibInit
  BY <1>2 DEF NetLibInit, Next
<1>3. ASSUME NEW p \in Percents, NetSetMaster(p) PROVE Next
  BY <1>3 DEF NetSetMaster, Next, SetVolume
<1>4. ASSUME NEW ps \in [Keys \ {Master} -> Percents], NetSetPcm(ps) PROVE Next
  BY <1>4 DEF NetSetPcm, Next, SetVolume
<1>5. ASSUME NEW k \in Keys, NEW v \in DirectVolumes, NetSetDirect(k, v) PROVE Next
  BY <1>5 DEF NetSetDirect, Next, SetVolume
<1>6. CASE NetService
  BY <1>6 DEF NetService, Next
<1>7. ASSUME NEW a \in Addresses, NodeChanges(a) PROVE UNCHANGED vars
  BY <1>7 DEF NodeChanges
<1>8. CASE Carry
  BY <1>8 DEF Carry, WriteApplied, WriteRejected
<1>9. CASE Deliver
  BY <1>9, Delivered, Messages DEF Next, Answer, NodeEvent
<1>10. QED
  BY <1>1, <1>2, <1>3, <1>4, <1>5, <1>6, <1>7, <1>8, <1>9 DEF NetNext

(* The initial states satisfy the invariant. *)
LEMMA NetInitIInv == NetInit => NetIInv
<1> SUFFICES ASSUME NetInit PROVE NetIInv
  OBVIOUS
<1>1. IInv
  BY InitIInv DEF NetInit
<1>2. NetType
  <2>1. inbox = <<>> /\ Len(inbox) = 0
    BY DEF NetInit
  <2>2. inbox \in Seq(Events \union Answers) /\ Len(inbox) <= MaxInbox
    BY <2>1, NetworkAssumption
  <2>3. wire \in SUBSET inFlight /\ asked \in SUBSET Values
    BY DEF NetInit
  <2>4. QED
    BY <2>2, <2>3 DEF NetInit, NetType
<1>3. OneAnswer /\ SuccessApplied
  BY DEF NetInit, OneAnswer, SuccessApplied
<1>4. NodesInv
  <2>1. Started
    BY DEF NetInit, Init, Started
  <2>2. NodesTold
    BY DEF NetInit, Init, NodesTold, NoEventPending
  <2>3. NodesKnown
    BY DEF NetInit, Init, NodesKnown
  <2>4. QED
    BY <2>1, <2>2, <2>3 DEF NodesInv
<1>5. Believed /\ AskedSet
  BY DEF NetInit, Init, Believed, AskedSet
<1>6. QED
  BY <1>1, <1>2, <1>3, <1>4, <1>5 DEF NetIInv

-----------------------------------------------------------------------------
(* A volume that is set is a target of what was asked for, and nothing else. *)
UserFrame ==
    /\ UNCHANGED <<running, available, busy, transmitted, actual, inFlight>>
    /\ UNCHANGED <<up, register, wire, inbox, ring, missed>>
    /\ asked' \in SUBSET Values
    /\ Unset \in DirectVolumes \/ (AskedSet => AskedSet')

(* No percentage comes out as the mark of an unknown volume. *)
LEMMA CalculateIsSet == \A p \in Nat : Calculate(p) # Unset
BY DEF Calculate, Unset

(* Volumes asked for by the user. *)
LEMMA UserSteps ==
  ASSUME NetType,
         \/ \E p \in Percents : NetSetMaster(p)
         \/ \E ps \in [Keys \ {Master} -> Percents] : NetSetPcm(ps)
         \/ \E k \in Keys, v \in DirectVolumes : NetSetDirect(k, v)
  PROVE  UserFrame
<1>1. ASSUME NEW D, NEW vols, DOMAIN vols = D, SetValues(vols),
             asked' = asked \union {i \in Values : Key[i] \in D},
             UNCHANGED <<up, register, wire, inbox, startVars>>,
             Unset \in DirectVolumes \/ \A k \in D : vols[k] # Unset
      PROVE  UserFrame
  <2>1. /\ target' = [i \in Values |-> IF Key[i] \in D THEN vols[Key[i]] ELSE target[i]]
        /\ UNCHANGED <<running, available, busy, transmitted, actual, inFlight>>
    BY <1>1 DEF SetValues
  <2>2. asked' \in SUBSET Values
    BY <1>1 DEF NetType
  <2>3. ASSUME AskedSet, Unset \notin DirectVolumes, NEW i \in asked' PROVE target'[i] # Unset
    BY <1>1, <2>1, <2>2, <2>3 DEF AskedSet
  <2>4. QED
    BY <1>1, <2>1, <2>2, <2>3 DEF UserFrame, AskedSet, startVars
<1>2. ASSUME NEW p \in Percents, NetSetMaster(p) PROVE UserFrame
  <2> DEFINE vols == [k \in {Master} |-> Calculate(p)]
  <2>1. /\ SetValues(vols) /\ DOMAIN vols = {Master}
        /\ asked' = asked \union {i \in Values : Key[i] \in {Master}}
        /\ UNCHANGED <<up, register, wire, inbox, startVars>>
    BY <1>2 DEF NetSetMaster, SetMaster
  <2>2. \A k \in {Master} : vols[k] # Unset
    BY <1>2, CalculateIsSet, ConfigAssumption
  <2> HIDE DEF vols
  <2>3. QED
    BY <1>1, <2>1, <2>2
<1>3. ASSUME NEW ps \in [Keys \ {Master} -> Percents], NetSetPcm(ps) PROVE UserFrame
  <2> DEFINE D == Keys \ {Master}
             vols == [k \in D |-> Calculate(ps[k])]
  <2>1. /\ SetValues(vols) /\ DOMAIN vols = D
        /\ UNCHANGED <<up, register, wire, inbox, startVars>>
    BY <1>3 DEF NetSetPcm, SetPcm
  <2>2. \A k \in D : vols[k] # Unset
    <3> SUFFICES ASSUME NEW k \in D PROVE Calculate(ps[k]) # Unset
      OBVIOUS
    <3>1. ps[k] \in Nat
      BY ConfigAssumption
    <3>2. QED
      BY <3>1, CalculateIsSet
  <2>3. asked' = asked \union {i \in Values : Key[i] \in D}
    BY <1>3, ConfigAssumption DEF NetSetPcm
  <2> HIDE DEF vols, D
  <2>4. QED
    BY <1>1, <2>1, <2>2, <2>3
<1>4. ASSUME NEW k \in Keys, NEW v \in DirectVolumes, NetSetDirect(k, v) PROVE UserFrame
  <2> DEFINE vols == [j \in {k} |-> v]
  <2>1. /\ SetValues(vols) /\ DOMAIN vols = {k}
        /\ asked' = asked \union {i \in Values : Key[i] \in {k}}
        /\ UNCHANGED <<up, register, wire, inbox, startVars>>
    BY <1>4 DEF NetSetDirect, SetDirect
  <2>2. Unset \in DirectVolumes \/ \A j \in {k} : vols[j] # Unset
    BY <1>4
  <2> HIDE DEF vols
  <2>3. QED
    BY <1>1, <2>1, <2>2
<1>5. QED
  BY <1>2, <1>3, <1>4

(* A service starts at most one write, while no other is under way. *)
ServiceFrame ==
    /\ UNCHANGED <<running, available, target, actual>>
    /\ UNCHANGED <<up, register, inbox, asked, ring, missed>>
    /\ \/ UNCHANGED <<transmitted, inFlight, wire>>
       \/ \E i \in Values : /\ inFlight = {} /\ inFlight' = {i} /\ wire' = wire \union {i}
                            /\ running /\ transmitted' = [transmitted EXCEPT ![i] = target[i]]

(* Steps of the timer that services the values. *)
LEMMA ServiceSteps ==
  ASSUME IInv, Started, NetService
  PROVE  ServiceFrame
<1>1. /\ Service /\ wire' = wire \union (inFlight' \ inFlight)
      /\ UNCHANGED <<up, register, inbox, asked, ring, missed>>
  BY DEF NetService, startVars
<1>2. CASE ServiceIdle
  BY <1>1, <1>2 DEF ServiceIdle, ServiceFrame, deviceVars
<1>3. ASSUME NEW k \in 1 .. N, ServiceFails(k) PROVE ServiceFrame
  BY <1>1, <1>3 DEF ServiceFails, ServiceFrame, deviceVars
<1>4. ASSUME NEW k \in 1 .. N, ServiceFires(k) PROVE ServiceFrame
  <2> DEFINE i == Visited(k)
  <2>1. i \in Values
    BY VisitedType DEF IInv, TypeOK
  <2>2. /\ RequiresUpdate(i) /\ ~txBusy
        /\ transmitted' = [transmitted EXCEPT ![i] = target[i]]
        /\ inFlight' = inFlight \union {i}
        /\ UNCHANGED <<running, available, target, actual>>
    BY <1>4 DEF ServiceFires, NextRequiring
  <2> HIDE DEF i
  <2>3. inFlight = {}
    BY <2>2 DEF IInv, SingleWrite
  <2>4. running
    BY <2>1, <2>2 DEF Started, RequiresUpdate
  <2>5. inFlight' = {i} /\ wire' = wire \union {i}
    BY <1>1, <2>2, <2>3
  <2>6. QED
    BY <1>1, <2>1, <2>2, <2>3, <2>4, <2>5 DEF ServiceFrame
<1>5. QED
  BY <1>1, <1>2, <1>3, <1>4 DEF Service

(* The first message is taken from the inbox: an answer, or an event. *)
AnswerTaken(m) ==
    /\ m \in Answers /\ m.value \in Values /\ m.value \in inFlight
    /\ inFlight' = inFlight \ {m.value}
    /\ actual' = IF NarrowStatus(m.status) = 0
                 THEN [actual EXCEPT ![m.value] = transmitted[m.value]] ELSE actual
    /\ UNCHANGED <<running, available, target, transmitted, missed>>
EventTaken(m) ==
    /\ m \in Events /\ m.node \in Addresses /\ m.up \in BOOLEAN
    /\ UNCHANGED <<running, target, transmitted, inFlight>>
    /\ IF running
       THEN /\ available' = [i \in Values |-> IF Address[i] = m.node THEN m.up ELSE available[i]]
            /\ actual' = [i \in Values |-> IF Address[i] = m.node THEN Unset ELSE actual[i]]
       ELSE UNCHANGED <<available, actual>>
    /\ missed' = IF m.up /\ ~running THEN missed \union {m.node} ELSE missed \ {m.node}

DeliverFrame ==
    /\ inbox # <<>> /\ inbox' = Tail(inbox)
    /\ UNCHANGED <<up, register, wire, asked, ring>>
    /\ \/ IsAnswer(inbox[1]) /\ AnswerTaken(inbox[1])
       \/ ~IsAnswer(inbox[1]) /\ EventTaken(inbox[1])

(* Messages delivered to the library. *)
LEMMA DeliverSteps ==
  ASSUME NetType, Deliver
  PROVE  DeliverFrame
<1>1. CASE /\ inbox[1] \in Answers /\ IsAnswer(inbox[1])
           /\ I2cResult(inbox[1].value, inbox[1].status) /\ UNCHANGED missed
  BY <1>1, Delivered, Messages DEF DeliverFrame, AnswerTaken, I2cResult
<1>2. CASE /\ inbox[1] \in Events /\ ~IsAnswer(inbox[1])
           /\ NodeAvailable(inbox[1].node, inbox[1].up)
           /\ missed' = IF inbox[1].up /\ ~running
                        THEN missed \union {inbox[1].node}
                        ELSE missed \ {inbox[1].node}
  <2>1. EventTaken(inbox[1])
    BY <1>2, Messages DEF EventTaken, NodeAvailable, vars, deviceVars
  <2>2. QED
    BY <1>2, <2>1, Delivered DEF DeliverFrame
<1>3. QED
  BY <1>1, <1>2, Delivered

-----------------------------------------------------------------------------
(* The invariant over every step, one part after the other. *)
LEMMA NetTypeStep ==
  ASSUME NetIInv, NetNext, OneAnswer
  PROVE  NetType'
<1> USE DEF NetIInv
<1>1. CASE UserFrame
  BY <1>1 DEF UserFrame, NetType
<1>2. CASE ServiceFrame
  BY <1>2 DEF ServiceFrame, NetType
<1>3. CASE UcsInitialise
  BY <1>3 DEF UcsInitialise, vars, NetType
<1>4. CASE NetLibInit
  BY <1>4 DEF NetLibInit, LibInit, networkVars, startVars, NetType
<1>5. ASSUME NEW a \in Addresses, NodeChanges(a) PROVE NetType'
  <2>1. up[a] \in BOOLEAN /\ up' \in [Addresses -> BOOLEAN]
    BY <1>5 DEF NodeChanges, NetType
  <2>2. /\ inbox' = Append(inbox, NodeMessage(a, ~up[a])) /\ Len(inbox) < MaxInbox
        /\ NodeMessage(a, ~up[a]) \in Events \union Answers
        /\ inbox \in Seq(Events \union Answers)
    BY <1>5, <2>1, Messages DEF NodeChanges, NetType
  <2>3. inbox' \in Seq(Events \union Answers) /\ Len(inbox') <= MaxInbox
    BY <2>2, Arrives, NetworkAssumption
  <2>4. QED
    BY <1>5, <2>1, <2>3 DEF NodeChanges, vars, startVars, NetType
<1>6. ASSUME NEW i \in Values, NEW st \in Statuses, i \in wire, Len(inbox) < MaxInbox,
             inbox' = Append(inbox, AnswerMessage(i, st)), wire' = wire \ {i},
             UNCHANGED <<vars, up, asked, startVars>>,
             register' \in [Values -> Volumes \union {PowerUp}]
      PROVE  NetType'
  <2>1. AnswerMessage(i, st) \in Events \union Answers /\ inbox \in Seq(Events \union Answers)
    BY Messages DEF NetType
  <2>2. inbox' \in Seq(Events \union Answers) /\ Len(inbox') <= MaxInbox
    BY <1>6, <2>1, Arrives, NetworkAssumption
  <2>3. QED
    BY <1>6, <2>2 DEF vars, startVars, NetType
<1>7. ASSUME NEW i \in Values, WriteApplied(i) PROVE NetType'
  <2>1. transmitted[i] \in Volumes
    BY <1>7 DEF WriteApplied, IInv, AnswerFindsItsWrite, NetType
  <2>2. register' \in [Values -> Volumes \union {PowerUp}]
    BY <1>7, <2>1 DEF WriteApplied, NetType
  <2>3. QED
    BY <1>6, <1>7, <2>2, NetworkAssumption DEF WriteApplied
<1>8. ASSUME NEW i \in Values, WriteRejected(i) PROVE NetType'
  <2>1. register' \in [Values -> Volumes \union {PowerUp}]
    BY <1>8 DEF WriteRejected, NetType
  <2>2. QED
    BY <1>6, <1>8, <2>1 DEF WriteRejected
<1>9. CASE DeliverFrame
  <2>1. inbox' \in Seq(Events \union Answers) /\ Len(inbox') <= MaxInbox
    BY <1>9, Taken, NetworkAssumption DEF DeliverFrame, NetType
  <2>2. wire' \in SUBSET inFlight'
    <3>1. CASE IsAnswer(inbox[1]) /\ AnswerTaken(inbox[1])
      <4>1. 1 \in DOMAIN inbox
        BY <1>9, Taken DEF DeliverFrame, NetType
      <4>2. inbox[1].value \notin wire
        BY <3>1, <4>1 DEF OneAnswer
      <4>3. QED
        BY <1>9, <3>1, <4>2 DEF DeliverFrame, AnswerTaken, NetType
    <3>2. CASE ~IsAnswer(inbox[1]) /\ EventTaken(inbox[1])
      BY <1>9, <3>2 DEF DeliverFrame, EventTaken, NetType
    <3>3. QED
      BY <1>9, <3>1, <3>2 DEF DeliverFrame
  <2>3. missed' \in SUBSET Addresses
    BY <1>9 DEF DeliverFrame, AnswerTaken, EventTaken, NetType
  <2>4. QED
    BY <1>9, <2>1, <2>2, <2>3 DEF DeliverFrame, NetType
<1>10. QED
  BY <1>1, <1>2, <1>3, <1>4, <1>5, <1>7, <1>8, <1>9, UserSteps, ServiceSteps, DeliverSteps
     DEF NetNext, Carry, NodesInv

(* OneAnswer is kept. *)
LEMMA OneAnswerStep ==
  ASSUME NetIInv, NetNext
  PROVE  OneAnswer'
<1> USE DEF NetIInv
<1>1. CASE UserFrame
  BY <1>1 DEF UserFrame, OneAnswer
<1>2. CASE ServiceFrame
  <2>1. CASE UNCHANGED <<transmitted, inFlight, wire>>
    BY <1>2, <2>1 DEF ServiceFrame, OneAnswer
  <2>2. CASE inFlight = {}
    BY <1>2, <2>2 DEF ServiceFrame, OneAnswer
  <2>3. QED
    BY <1>2, <2>1, <2>2 DEF ServiceFrame
<1>3. CASE UcsInitialise
  BY <1>3 DEF UcsInitialise, vars, OneAnswer
<1>4. CASE NetLibInit
  BY <1>4 DEF NetLibInit, LibInit, networkVars, startVars, OneAnswer
<1>5. ASSUME NEW a \in Addresses, NodeChanges(a) PROVE OneAnswer'
  <2> DEFINE m == NodeMessage(a, ~up[a])
  <2>1. /\ inbox' = Append(inbox, m) /\ m \in Events \union Answers /\ ~IsAnswer(m)
        /\ inbox \in Seq(Events \union Answers) /\ UNCHANGED <<inFlight, wire>>
    <3>1. up[a] \in BOOLEAN
      BY DEF NetType
    <3>2. QED
      BY <1>5, <3>1, Messages DEF NodeChanges, NetType, vars
  <2> HIDE DEF m
  <2>2. \A n \in DOMAIN inbox' : IsAnswer(inbox'[n]) => n \in DOMAIN inbox /\ inbox'[n] = inbox[n]
    BY <2>1, Arrives
  <2>3. QED
    BY <2>1, <2>2 DEF OneAnswer
<1>6. ASSUME NEW i \in Values, NEW st \in Statuses, i \in wire,
             inbox' = Append(inbox, AnswerMessage(i, st)), wire' = wire \ {i},
             UNCHANGED inFlight
      PROVE  OneAnswer'
  <2> DEFINE m == AnswerMessage(i, st)
  <2>1. m \in Events \union Answers /\ inbox \in Seq(Events \union Answers) /\ m.value = i
    BY Messages DEF NetType
  <2>2. \A n \in DOMAIN inbox : ~IsAnswer(inbox[n])
    BY <1>6 DEF OneAnswer, IInv, SingleWrite, NetType
  <2> HIDE DEF m
  <2>3. \A n \in DOMAIN inbox' : IsAnswer(inbox'[n]) => n = Len(inbox) + 1 /\ inbox'[n] = m
    BY <1>6, <2>1, <2>2, Arrives DEF m
  <2>4. i \in inFlight' \ wire'
    BY <1>6 DEF NetType
  <2>5. QED
    BY <2>1, <2>3, <2>4 DEF OneAnswer
<1>7. ASSUME NEW i \in Values, WriteApplied(i) PROVE OneAnswer'
  BY <1>6, <1>7, NetworkAssumption DEF WriteApplied, vars
<1>8. ASSUME NEW i \in Values, WriteRejected(i) PROVE OneAnswer'
  BY <1>6, <1>8 DEF WriteRejected, vars
<1>9. CASE DeliverFrame
  <2>1. /\ 1 \in DOMAIN inbox /\ DOMAIN inbox \subseteq Int
        /\ \A n \in DOMAIN inbox' : /\ n \in Int /\ n + 1 \in DOMAIN inbox /\ n + 1 # 1
                                   /\ inbox'[n] = inbox[n + 1]
    BY <1>9, Taken DEF DeliverFrame, NetType
  <2>2. CASE IsAnswer(inbox[1]) /\ AnswerTaken(inbox[1])
    <3>1. \A n \in DOMAIN inbox' : ~IsAnswer(inbox'[n])
      BY <2>1, <2>2 DEF OneAnswer
    <3>2. QED
      BY <3>1 DEF OneAnswer
  <2>3. CASE ~IsAnswer(inbox[1]) /\ EventTaken(inbox[1])
    <3>1. UNCHANGED <<inFlight, wire>>
      BY <1>9, <2>3 DEF DeliverFrame, EventTaken
    <3>2. \A m, n \in DOMAIN inbox' : IsAnswer(inbox'[m]) /\ IsAnswer(inbox'[n]) => m = n
      <4> SUFFICES ASSUME NEW m \in DOMAIN inbox', NEW n \in DOMAIN inbox',
                          IsAnswer(inbox'[m]), IsAnswer(inbox'[n])
                   PROVE  m = n
        OBVIOUS
      <4>1. m + 1 = n + 1
        BY <2>1 DEF OneAnswer
      <4>2. QED
        BY <2>1, <4>1
    <3>3. QED
      BY <2>1, <3>1, <3>2 DEF OneAnswer
  <2>4. QED
    BY <1>9, <2>2, <2>3 DEF DeliverFrame
<1>10. QED
  BY <1>1, <1>2, <1>3, <1>4, <1>5, <1>7, <1>8, <1>9, UserSteps, ServiceSteps, DeliverSteps
     DEF NetNext, Carry, NodesInv

-----------------------------------------------------------------------------
(* Events under way when a message arrives. *)
LEMMA PendingArrives ==
  ASSUME NetType, NEW m \in Events \union Answers, inbox' = Append(inbox, m),
         NEW a \in Addresses
  PROVE  /\ NoEventPending(a)' <=> NoEventPending(a) /\ ~IsEventOf(m, a)
         /\ \A n \in DOMAIN inbox' : LastEvent(n, a)' =>
               IF IsEventOf(m, a) THEN inbox'[n] = m
               ELSE n \in DOMAIN inbox /\ inbox'[n] = inbox[n] /\ LastEvent(n, a)
<1>1. /\ DOMAIN inbox = 1 .. Len(inbox) /\ Len(inbox) \in Nat
      /\ DOMAIN inbox' = 1 .. Len(inbox) + 1 /\ inbox'[Len(inbox) + 1] = m
      /\ \A n \in DOMAIN inbox : inbox'[n] = inbox[n]
  BY Arrives DEF NetType
<1>2. NoEventPending(a)' <=> NoEventPending(a) /\ ~IsEventOf(m, a)
  BY <1>1 DEF NoEventPending
<1>3. ASSUME NEW n \in DOMAIN inbox', LastEvent(n, a)', IsEventOf(m, a)
      PROVE  inbox'[n] = m
  BY <1>1, <1>3 DEF LastEvent
<1>4. ASSUME NEW n \in DOMAIN inbox', LastEvent(n, a)', ~IsEventOf(m, a)
      PROVE  n \in DOMAIN inbox /\ inbox'[n] = inbox[n] /\ LastEvent(n, a)
  <2>1. n \in DOMAIN inbox
    BY <1>1, <1>4 DEF LastEvent
  <2>2. QED
    BY <1>1, <1>4, <2>1 DEF LastEvent
<1>5. QED
  BY <1>2, <1>3, <1>4

(* Events under way when the first message is taken. *)
LEMMA PendingTaken ==
  ASSUME NetType, inbox # <<>>, inbox' = Tail(inbox), NEW a \in Addresses
  PROVE  /\ NoEventPending(a) <=> NoEventPending(a)' /\ ~IsEventOf(inbox[1], a)
         /\ NoEventPending(a)' /\ IsEventOf(inbox[1], a) => LastEvent(1, a)
         /\ \A n \in DOMAIN inbox' : LastEvent(n, a)' =>
               n + 1 \in DOMAIN inbox /\ inbox'[n] = inbox[n + 1] /\ LastEvent(n + 1, a)
<1>1. /\ 1 \in DOMAIN inbox /\ DOMAIN inbox = 1 .. Len(inbox) /\ Len(inbox) \in Nat \ {0}
      /\ DOMAIN inbox' = 1 .. Len(inbox) - 1
      /\ \A n \in DOMAIN inbox' : n + 1 \in DOMAIN inbox /\ inbox'[n] = inbox[n + 1]
      /\ \A n \in DOMAIN inbox : n = 1 \/ (n - 1 \in DOMAIN inbox' /\ inbox'[n - 1] = inbox[n])
  BY Taken DEF NetType
<1>2. NoEventPending(a) <=> NoEventPending(a)' /\ ~IsEventOf(inbox[1], a)
  BY <1>1 DEF NoEventPending
<1>3. ASSUME NoEventPending(a)', IsEventOf(inbox[1], a) PROVE LastEvent(1, a)
  BY <1>1, <1>3 DEF LastEvent, NoEventPending
<1>4. ASSUME NEW n \in DOMAIN inbox', LastEvent(n, a)'
      PROVE  n + 1 \in DOMAIN inbox /\ inbox'[n] = inbox[n + 1] /\ LastEvent(n + 1, a)
  <2>1. n + 1 \in DOMAIN inbox /\ inbox'[n] = inbox[n + 1] /\ IsEventOf(inbox[n + 1], a)
    BY <1>1, <1>4 DEF LastEvent
  <2>2. ASSUME NEW k \in DOMAIN inbox, k > n + 1 PROVE ~IsEventOf(inbox[k], a)
    <3>1. k - 1 \in DOMAIN inbox' /\ inbox'[k - 1] = inbox[k] /\ k - 1 > n
      BY <1>1, <2>2
    <3>2. ~IsEventOf(inbox'[k - 1], a)
      BY <1>4, <3>1 DEF LastEvent
    <3>3. QED
      BY <3>1, <3>2
  <2>3. QED
    BY <2>1, <2>2 DEF LastEvent
<1>5. QED
  BY <1>2, <1>3, <1>4

(* Started is kept. *)
LEMMA StartedStep ==
  ASSUME NetIInv, NetNext
  PROVE  Started'
<1> USE DEF NetIInv, NodesInv
<1>1. CASE UserFrame
  BY <1>1 DEF UserFrame, Started
<1>2. CASE ServiceFrame
  BY <1>2 DEF ServiceFrame, Started
<1>3. CASE UcsInitialise
  BY <1>3 DEF UcsInitialise, vars, deviceVars, Started
<1>4. CASE NetLibInit
  BY <1>4 DEF NetLibInit, LibInit, networkVars, startVars, Started
<1>5. ASSUME NEW a \in Addresses, NodeChanges(a) PROVE Started'
  BY <1>5 DEF NodeChanges, vars, deviceVars, startVars, Started
<1>6. ASSUME NEW i \in Values, i \in wire, UNCHANGED <<vars, up, ring>> PROVE Started'
  BY <1>6 DEF vars, deviceVars, Started, NetType
<1>7. CASE DeliverFrame
  BY <1>7 DEF DeliverFrame, AnswerTaken, EventTaken, Started, NetType
<1>8. QED
  BY <1>1, <1>2, <1>3, <1>4, <1>5, <1>6, <1>7, UserSteps, ServiceSteps, DeliverSteps
     DEF NetNext, Carry, WriteApplied, WriteRejected, startVars

(* NodesTold is kept. *)
LEMMA NodesStep ==
  ASSUME NetIInv, NetNext, Started'
  PROVE  NodesTold' /\ NodesKnown'
<1> USE DEF NetIInv, NodesInv
<1>1. CASE UserFrame
  BY <1>1 DEF UserFrame, NodesTold, NodesKnown, NoEventPending, LastEvent
<1>2. CASE ServiceFrame
  BY <1>2 DEF ServiceFrame, NodesTold, NodesKnown, NoEventPending, LastEvent
<1>3. CASE UcsInitialise
  BY <1>3 DEF UcsInitialise, vars, deviceVars, NodesTold, NodesKnown, NoEventPending, LastEvent
<1>4. CASE NetLibInit
  <2>1. UNCHANGED <<available, up, inbox, missed>> /\ ~running /\ running'
    BY <1>4 DEF NetLibInit, LibInit, networkVars, startVars, deviceVars
  <2>2. NodesTold'
    BY <2>1 DEF NodesTold, NoEventPending, LastEvent
  <2>3. NodesKnown'
    <3> SUFFICES ASSUME NEW i \in Values, Address[i] \notin missed, NoEventPending(Address[i])
                 PROVE  available[i] = up[Address[i]]
      BY <2>1 DEF NodesKnown, NoEventPending
    <3>1. Address[i] \in Addresses /\ ~up[Address[i]] /\ ~available[i]
      BY <2>1, ConfigAssumption DEF NodesTold, Started
    <3>2. up[Address[i]] = FALSE /\ available[i] = FALSE
      BY <3>1 DEF NetType, IInv, TypeOK
    <3>3. QED
      BY <3>2
  <2>4. QED
    BY <2>2, <2>3
<1>5. ASSUME NEW a \in Addresses, NodeChanges(a) PROVE NodesTold' /\ NodesKnown'
  <2> DEFINE m == NodeMessage(a, ~up[a])
  <2>1. up[a] \in BOOLEAN
    BY DEF NetType
  <2>2. m \in Events \union Answers /\ m.up = ~up[a] /\ IsEventOf(m, a) /\ m.node = a
    BY <2>1, Messages
  <2>3. \A b \in Addresses : IsEventOf(m, b) <=> a = b
    BY <2>2 DEF IsEventOf
  <2>4. /\ inbox' = Append(inbox, m) /\ up' = [up EXCEPT ![a] = ~up[a]]
        /\ UNCHANGED <<running, available, missed>>
    BY <1>5 DEF NodeChanges, vars, deviceVars, startVars
  <2> HIDE DEF m
  <2>5. \A b \in Addresses : b # a => up'[b] = up[b]
    BY <2>4 DEF NetType
  <2>6. up'[a] = m.up
    BY <2>2, <2>4 DEF NetType
  <2>7. NodesTold'
    <3> SUFFICES ASSUME NEW b \in Addresses
                 PROVE  /\ \A n \in DOMAIN inbox' : LastEvent(n, b)' => inbox'[n].up = up'[b]
                        /\ NoEventPending(b)' /\ ~running' => (up'[b] <=> b \in missed')
      BY DEF NodesTold
    <3>1. CASE b = a
      BY <2>2, <2>3, <2>4, <2>6, <3>1, PendingArrives
    <3>2. CASE b # a
      BY <2>2, <2>3, <2>4, <2>5, <3>2, PendingArrives DEF NodesTold
    <3>3. QED
      BY <3>1, <3>2
  <2>8. NodesKnown'
    <3> SUFFICES ASSUME NEW i \in Values, running', Address[i] \notin missed',
                        NoEventPending(Address[i])'
                 PROVE  available'[i] = up'[Address[i]]
      BY DEF NodesKnown
    <3>1. Address[i] \in Addresses
      BY ConfigAssumption
    <3>2. Address[i] # a /\ NoEventPending(Address[i])
      BY <2>2, <2>3, <2>4, <3>1, PendingArrives
    <3>3. QED
      BY <2>4, <2>5, <3>1, <3>2 DEF NodesKnown
  <2>9. QED
    BY <2>7, <2>8
<1>6. ASSUME NEW i \in Values, NEW st \in Statuses, inbox' = Append(inbox, AnswerMessage(i, st)),
             UNCHANGED <<vars, up, missed>>
      PROVE  NodesTold' /\ NodesKnown'
  <2> DEFINE m == AnswerMessage(i, st)
  <2>1. m \in Events \union Answers /\ \A a \in Addresses : ~IsEventOf(m, a)
    BY Messages DEF IsEventOf
  <2>2. inbox' = Append(inbox, m) /\ UNCHANGED <<running, available, up, missed>>
    BY <1>6 DEF vars, deviceVars
  <2> HIDE DEF m
  <2>3. NodesTold'
    BY <2>1, <2>2, PendingArrives DEF NodesTold
  <2>4. NodesKnown'
    BY <2>1, <2>2, PendingArrives, ConfigAssumption DEF NodesKnown
  <2>5. QED
    BY <2>3, <2>4
<1>7. ASSUME NEW i \in Values, WriteApplied(i) PROVE NodesTold' /\ NodesKnown'
  BY <1>6, <1>7, NetworkAssumption DEF WriteApplied, startVars
<1>8. ASSUME NEW i \in Values, WriteRejected(i) PROVE NodesTold' /\ NodesKnown'
  BY <1>6, <1>8 DEF WriteRejected, startVars
<1>9. CASE DeliverFrame
  <2>1. /\ inbox # <<>> /\ inbox' = Tail(inbox) /\ UNCHANGED <<up, running>>
        /\ 1 \in DOMAIN inbox
    BY <1>9, Taken DEF DeliverFrame, AnswerTaken, EventTaken, NetType
  <2>2. \A a \in Addresses, n \in DOMAIN inbox' : LastEvent(n, a)' => inbox'[n].up = up'[a]
    BY <2>1, PendingTaken DEF NodesTold
  <2>3. CASE IsAnswer(inbox[1]) /\ AnswerTaken(inbox[1])
    <3>1. /\ UNCHANGED <<available, missed>>
          /\ \A a \in Addresses : ~IsEventOf(inbox[1], a)
      BY <2>3 DEF AnswerTaken, IsEventOf
    <3>2. \A a \in Addresses : NoEventPending(a)' => NoEventPending(a)
      BY <2>1, <3>1, PendingTaken
    <3>3. NodesTold'
      BY <2>1, <2>2, <3>1, <3>2 DEF NodesTold
    <3>4. NodesKnown'
      BY <2>1, <3>1, <3>2, ConfigAssumption DEF NodesKnown
    <3>5. QED
      BY <3>3, <3>4
  <2>4. ASSUME NEW b \in Addresses, NEW u \in BOOLEAN, inbox[1].node = b, inbox[1].up = u,
               ~IsAnswer(inbox[1]), EventTaken(inbox[1])
        PROVE  NodesTold' /\ NodesKnown'
    <3>1. /\ missed' = IF u /\ ~running THEN missed \union {b} ELSE missed \ {b}
          /\ \A a \in Addresses : IsEventOf(inbox[1], a) <=> a = b
          /\ running => available' = [i \in Values |-> IF Address[i] = b THEN u
                                                        ELSE available[i]]
      BY <2>4 DEF EventTaken, IsEventOf
    <3>2. NoEventPending(b)' => LastEvent(1, b)
      BY <2>1, <3>1, PendingTaken
    <3>3. NoEventPending(b)' => u = up[b]
      BY <2>1, <2>4, <3>1, <3>2 DEF NodesTold
    <3>4. \A a \in Addresses : a # b /\ NoEventPending(a)' => NoEventPending(a)
      BY <2>1, <3>1, PendingTaken
    <3>5. NodesTold'
      <4> SUFFICES ASSUME NEW a \in Addresses, NoEventPending(a)', ~running
                   PROVE  up[a] <=> a \in missed'
        BY <2>1, <2>2 DEF NodesTold
      <4>1. CASE a = b
        <5>1. CASE u
          BY <3>1, <3>3, <4>1, <5>1
        <5>2. CASE ~u
          BY <3>1, <3>3, <4>1, <5>2
        <5>3. QED
          BY <5>1, <5>2
      <4>2. CASE a # b
        <5>1. up[a] <=> a \in missed
          BY <3>4, <4>2 DEF NodesTold
        <5>2. QED
          BY <3>1, <4>2, <5>1
      <4>3. QED
        BY <4>1, <4>2
    <3>6. NodesKnown'
      <4> SUFFICES ASSUME NEW i \in Values, running, Address[i] \notin missed',
                          NoEventPending(Address[i])'
                   PROVE  available'[i] = up[Address[i]]
        BY <2>1 DEF NodesKnown
      <4>1. missed' = missed \ {b}
        BY <3>1
      <4>2. CASE Address[i] = b
        <5>1. available'[i] = u
          BY <3>1, <4>2
        <5>2. QED
          BY <3>3, <4>2, <5>1
      <4>3. CASE Address[i] # b
        <5>1. available'[i] = available[i] /\ Address[i] \notin missed
          BY <3>1, <4>1, <4>3
        <5>2. QED
          BY <3>4, <4>3, <5>1, ConfigAssumption DEF NodesKnown
      <4>4. QED
        BY <4>2, <4>3
    <3>7. QED
      BY <3>5, <3>6
  <2>5. QED
    BY <1>9, <2>3, <2>4 DEF DeliverFrame, EventTaken
<1>10. QED
  BY <1>1, <1>2, <1>3, <1>4, <1>5, <1>7, <1>8, <1>9, UserSteps, ServiceSteps, DeliverSteps
     DEF NetNext, Carry

-----------------------------------------------------------------------------
(* Nothing is believed of a value whose success is still to come. *)
NoSuccess(i) == \A n \in DOMAIN inbox : ~(Success(n) /\ inbox[n].value = i)

(* Believed and SuccessApplied are kept. *)
LEMMA BelievedStep ==
  ASSUME NetIInv, NetNext, ~LostAnswers
  PROVE  SuccessApplied' /\ Believed'
<1> USE DEF NetIInv
<1>1. CASE UserFrame
  BY <1>1 DEF UserFrame, SuccessApplied, Believed, NoEventPending, Success
<1>2. CASE ServiceFrame
  <2>1. CASE UNCHANGED <<transmitted, inFlight, wire>>
    BY <1>2, <2>1 DEF ServiceFrame, SuccessApplied, Believed, NoEventPending, Success
  <2>2. CASE inFlight = {}
    <3>1. \A n \in DOMAIN inbox : ~Success(n)
      BY <2>2 DEF OneAnswer, Success
    <3>2. UNCHANGED <<inbox, register, actual>>
      BY <1>2 DEF ServiceFrame
    <3>3. SuccessApplied'
      BY <3>1, <3>2 DEF SuccessApplied, Success
    <3>4. QED
      BY <3>2, <3>3 DEF Believed, NoEventPending, Success
  <2>3. QED
    BY <1>2, <2>1, <2>2 DEF ServiceFrame
<1>3. CASE UNCHANGED <<inbox, register, actual, transmitted>>
  BY <1>3 DEF SuccessApplied, Believed, NoEventPending, Success
<1>4. ASSUME NEW a \in Addresses, NodeChanges(a) PROVE SuccessApplied' /\ Believed'
  <2> DEFINE m == NodeMessage(a, ~up[a])
  <2>1. m \in Events \union Answers /\ IsEventOf(m, a) /\ m.node = a /\ ~IsAnswer(m)
    <3>1. up[a] \in BOOLEAN
      BY DEF NetType
    <3>2. QED
      BY <3>1, Messages DEF IsEventOf
  <2>2. /\ inbox' = Append(inbox, m) /\ UNCHANGED <<transmitted, actual>>
        /\ \A i \in Values : Address[i] # a => register'[i] = register[i]
    BY <1>4 DEF NodeChanges, vars, deviceVars, NetType
  <2> HIDE DEF m
  <2>3. /\ DOMAIN inbox = 1 .. Len(inbox) /\ Len(inbox) \in Nat
        /\ DOMAIN inbox' = 1 .. Len(inbox) + 1 /\ inbox'[Len(inbox) + 1] = m
        /\ \A n \in DOMAIN inbox : inbox'[n] = inbox[n]
    BY <2>1, <2>2, Arrives DEF NetType
  <2>4. SuccessApplied'
    <3> SUFFICES ASSUME NEW n \in DOMAIN inbox', Success(n)',
                        \A k \in DOMAIN inbox' : k > n =>
                            ~IsEventOf(inbox'[k], Address[inbox'[n].value])
                 PROVE  register'[inbox'[n].value] = transmitted'[inbox'[n].value]
      BY DEF SuccessApplied
    <3>1. n \in DOMAIN inbox /\ inbox'[n] = inbox[n] /\ Success(n) /\ Len(inbox) + 1 > n
      BY <2>1, <2>3 DEF Success
    <3>2. inbox[n].value \in Values
      BY <3>1, Messages DEF Success, NetType, OneAnswer, IInv, TypeOK
    <3>3. Address[inbox[n].value] # a
      BY <2>1, <2>3, <3>1
    <3>4. register[inbox[n].value] = transmitted[inbox[n].value]
      BY <2>3, <3>1 DEF SuccessApplied
    <3>5. QED
      BY <2>2, <3>1, <3>2, <3>3, <3>4
  <2>5. Believed'
    <3> SUFFICES ASSUME NEW i \in Values, actual'[i] # Unset, NoEventPending(Address[i])',
                        NoSuccess(i)'
                 PROVE  register'[i] = actual'[i]
      BY DEF Believed, NoSuccess
    <3>1. Address[i] \in Addresses
      BY ConfigAssumption
    <3>2. NoEventPending(Address[i]) /\ Address[i] # a
      BY <2>1, <2>2, <3>1, PendingArrives
    <3>3. NoSuccess(i)
      BY <2>3 DEF NoSuccess, Success
    <3>4. QED
      BY <2>2, <3>2, <3>3 DEF Believed, NoSuccess
  <2>6. QED
    BY <2>4, <2>5
<1>5. ASSUME NEW i \in Values, NEW st \in Statuses, i \in wire,
             inbox' = Append(inbox, AnswerMessage(i, st)),
             UNCHANGED <<transmitted, actual>>,
             \A j \in Values : j # i => register'[j] = register[j],
             NarrowStatus(st) = 0 => register'[i] = transmitted[i],
             NarrowStatus(st) # 0 => register'[i] = register[i]
      PROVE  SuccessApplied' /\ Believed'
  <2> DEFINE m == AnswerMessage(i, st)
  <2>1. /\ m \in Events \union Answers /\ m.value = i /\ m.status = st /\ IsAnswer(m)
        /\ \A a \in Addresses : ~IsEventOf(m, a)
    BY Messages DEF IsEventOf
  <2>2. inbox' = Append(inbox, m) /\ inbox \in Seq(Events \union Answers)
    BY <1>5 DEF NetType
  <2> HIDE DEF m
  <2>3. /\ DOMAIN inbox = 1 .. Len(inbox) /\ Len(inbox) \in Nat
        /\ DOMAIN inbox' = 1 .. Len(inbox) + 1 /\ inbox'[Len(inbox) + 1] = m
        /\ \A n \in DOMAIN inbox : inbox'[n] = inbox[n]
    BY <2>1, <2>2, Arrives
  <2>4. \A n \in DOMAIN inbox : ~IsAnswer(inbox[n])
    BY <1>5 DEF OneAnswer, IInv, SingleWrite, NetType
  <2>5. \A n \in DOMAIN inbox' : Success(n)' =>
            n = Len(inbox) + 1 /\ inbox'[n].value = i /\ NarrowStatus(st) = 0
    BY <2>1, <2>3, <2>4 DEF Success
  <2>6. SuccessApplied'
    BY <1>5, <2>5 DEF SuccessApplied
  <2>7. Believed'
    <3> SUFFICES ASSUME NEW j \in Values, actual'[j] # Unset, NoEventPending(Address[j])',
                        NoSuccess(j)'
                 PROVE  register'[j] = actual'[j]
      BY DEF Believed, NoSuccess
    <3>1. NoEventPending(Address[j])
      BY <2>1, <2>2, ConfigAssumption, PendingArrives
    <3>2. NoSuccess(j)
      BY <2>4 DEF NoSuccess, Success
    <3>3. register[j] = actual[j]
      BY <1>5, <3>1, <3>2 DEF Believed, NoSuccess
    <3>4. j = i => NarrowStatus(st) # 0
      BY <2>1, <2>3 DEF NoSuccess, Success
    <3>5. QED
      BY <1>5, <3>3, <3>4
  <2>8. QED
    BY <2>6, <2>7
<1>6. ASSUME NEW i \in Values, WriteApplied(i) PROVE SuccessApplied' /\ Believed'
  <2>1. /\ \A j \in Values : j # i => register'[j] = register[j]
        /\ register'[i] = transmitted[i]
    BY <1>6 DEF WriteApplied, NetType
  <2>2. NarrowStatus(0) = 0
    BY DEF NarrowStatus
  <2>3. /\ i \in wire /\ inbox' = Append(inbox, AnswerMessage(i, 0))
        /\ UNCHANGED <<transmitted, actual>>
    BY <1>6 DEF WriteApplied, vars, deviceVars
  <2>4. QED
    BY <1>5, <2>1, <2>2, <2>3, NetworkAssumption
<1>7. ASSUME NEW i \in Values, WriteRejected(i) PROVE SuccessApplied' /\ Believed'
  BY <1>5, <1>7, StatusAssumption DEF WriteRejected, vars, deviceVars
<1>8. CASE DeliverFrame
  <2>1. /\ inbox # <<>> /\ inbox' = Tail(inbox) /\ UNCHANGED register
        /\ 1 \in DOMAIN inbox /\ DOMAIN inbox \subseteq Int
        /\ DOMAIN inbox' \subseteq Int
        /\ \A n \in DOMAIN inbox' : n + 1 \in DOMAIN inbox /\ n + 1 # 1
                                   /\ inbox'[n] = inbox[n + 1]
        /\ \A n \in DOMAIN inbox : n = 1 \/ (n - 1 \in DOMAIN inbox' /\ inbox'[n - 1] = inbox[n])
    BY <1>8, Taken DEF DeliverFrame, NetType
  <2>2. CASE IsAnswer(inbox[1]) /\ AnswerTaken(inbox[1])
    <3>1. \A n \in DOMAIN inbox' : ~Success(n)'
      BY <2>1, <2>2 DEF OneAnswer, Success
    <3>2. \A n \in DOMAIN inbox : IsAnswer(inbox[n]) => n = 1
      BY <2>1, <2>2 DEF OneAnswer
    <3>3. Believed'
      <4> SUFFICES ASSUME NEW i \in Values, actual'[i] # Unset, NoEventPending(Address[i])'
                   PROVE  register[i] = actual'[i]
        BY <2>1 DEF Believed
      <4>1. NoEventPending(Address[i])
        BY <2>1, <2>2, ConfigAssumption, PendingTaken DEF IsEventOf
      <4>2. CASE Success(1) /\ inbox[1].value = i
        <5>1. register[i] = transmitted[i]
          BY <2>1, <4>1, <4>2 DEF SuccessApplied, NoEventPending
        <5>2. actual'[i] = transmitted[i]
          BY <2>2, <4>2 DEF AnswerTaken, Success, IInv, TypeOK
        <5>3. QED
          BY <5>1, <5>2
      <4>3. CASE ~(Success(1) /\ inbox[1].value = i)
        <5>1. NoSuccess(i)
          BY <3>2, <4>3 DEF NoSuccess, Success
        <5>2. actual'[i] = actual[i]
          BY <2>2, <4>3 DEF AnswerTaken, Success, IInv, TypeOK
        <5>3. QED
          BY <4>1, <5>1, <5>2 DEF Believed, NoSuccess
      <4>4. QED
        BY <4>2, <4>3
    <3>4. QED
      BY <3>1, <3>3 DEF SuccessApplied
  <2>3. ASSUME NEW b \in Addresses, inbox[1].node = b, ~IsAnswer(inbox[1]),
               EventTaken(inbox[1])
        PROVE  SuccessApplied' /\ Believed'
    <3>1. SuccessApplied'
      <4> SUFFICES ASSUME NEW n \in DOMAIN inbox', Success(n)',
                          \A k \in DOMAIN inbox' : k > n =>
                              ~IsEventOf(inbox'[k], Address[inbox'[n].value])
                   PROVE  register'[inbox'[n].value] = transmitted'[inbox'[n].value]
        BY DEF SuccessApplied
      <4>1. n + 1 \in DOMAIN inbox /\ inbox'[n] = inbox[n + 1] /\ Success(n + 1)
        BY <2>1 DEF Success
      <4>2. ASSUME NEW k \in DOMAIN inbox, k > n + 1
            PROVE  ~IsEventOf(inbox[k], Address[inbox[n + 1].value])
        <5>1. k - 1 \in DOMAIN inbox' /\ inbox'[k - 1] = inbox[k] /\ k - 1 > n
          BY <2>1, <4>2
        <5>2. QED
          BY <4>1, <5>1
      <4>3. register[inbox[n + 1].value] = transmitted[inbox[n + 1].value]
        BY <4>1, <4>2 DEF SuccessApplied
      <4>4. QED
        BY <2>1, <2>3, <4>1, <4>3 DEF EventTaken
    <3>2. Believed'
      <4> SUFFICES ASSUME NEW i \in Values, actual'[i] # Unset, NoEventPending(Address[i])',
                          NoSuccess(i)'
                   PROVE  register[i] = actual'[i]
        BY <2>1 DEF Believed, NoSuccess
      <4>1. running /\ Address[i] # b /\ actual'[i] = actual[i]
        BY <2>3 DEF EventTaken, NodesInv, Started, IInv, TypeOK
      <4>2. NoEventPending(Address[i])
        BY <2>1, <2>3, <4>1, ConfigAssumption, PendingTaken DEF IsEventOf
      <4>3. NoSuccess(i)
        <5> SUFFICES ASSUME NEW n \in DOMAIN inbox, Success(n), inbox[n].value = i
                     PROVE  FALSE
          BY DEF NoSuccess
        <5>1. n - 1 \in DOMAIN inbox' /\ inbox'[n - 1] = inbox[n]
          BY <2>1, <2>3 DEF Success
        <5>2. QED
          BY <5>1 DEF NoSuccess, Success
      <4>4. QED
        BY <4>1, <4>2, <4>3 DEF Believed, NoSuccess
    <3>3. QED
      BY <3>1, <3>2
  <2>4. QED
    BY <1>8, <2>2, <2>3 DEF DeliverFrame, EventTaken
<1>9. QED
  BY <1>1, <1>2, <1>3, <1>4, <1>6, <1>7, <1>8, UserSteps, ServiceSteps, DeliverSteps
     DEF NetNext, Carry, UcsInitialise, NetLibInit, LibInit, networkVars, vars, deviceVars,
         NodesInv

(* AskedSet is kept. *)
LEMMA AskedStep ==
  ASSUME NetIInv, NetNext, Unset \notin DirectVolumes
  PROVE  AskedSet'
<1> USE DEF NetIInv
<1>1. CASE UserFrame
  BY <1>1 DEF UserFrame
<1>2. CASE UNCHANGED <<target, asked>>
  BY <1>2 DEF AskedSet
<1>3. QED
  BY <1>1, <1>2, UserSteps, ServiceSteps, DeliverSteps
     DEF NetNext, ServiceFrame, DeliverFrame, AnswerTaken, EventTaken, UcsInitialise,
         NetLibInit, LibInit, NodeChanges, Carry, WriteApplied, WriteRejected,
         networkVars, vars, deviceVars, NodesInv

(* Every step keeps the whole. *)
LEMMA NetStep == NetIInv /\ NetNext => NetIInv'
<1> SUFFICES ASSUME NetIInv, NetNext PROVE NetIInv'
  OBVIOUS
<1>1. IInv'
  <2>1. IInv /\ NetType
    BY DEF NetIInv
  <2>2. IInv /\ UNCHANGED vars => IInv'
    BY DEF vars, deviceVars, timerVars, IInv, TypeOK, SingleWrite, OneTimer, NoLostWakeup,
           AnswerFindsItsWrite, RequiresUpdate
  <2>3. QED
    BY <2>1, <2>2, NetNextIsNext, LibInitIInv, SetVolumeIInv, ServiceIInv, AnswerIInv,
       NodeEventIInv DEF Next
<1>2. OneAnswer'
  BY OneAnswerStep
<1>3. NetType'
  BY NetTypeStep DEF NetIInv
<1>4. NodesInv'
  BY StartedStep, NodesStep DEF NodesInv
<1>5. (LostAnswers \/ (SuccessApplied /\ Believed))'
  BY BelievedStep
<1>6. (Unset \in DirectVolumes \/ AskedSet)'
  BY AskedStep
<1>7. QED
  BY <1>1, <1>2, <1>3, <1>4, <1>5, <1>6 DEF NetIInv

-----------------------------------------------------------------------------
(* The library on its network keeps the invariant, for any number of values, *)
(* nodes, keys and messages under way.                                       *)
THEOREM NetInvariant == NetSpec => []NetIInv
<1>1. NetIInv /\ [NetNext]_allVars => NetIInv'
  <2>1. NetIInv /\ UNCHANGED allVars => NetIInv'
    BY DEF allVars, networkVars, startVars, vars, deviceVars, timerVars, NetIInv, IInv,
           TypeOK, SingleWrite, OneTimer, NoLostWakeup, AnswerFindsItsWrite, RequiresUpdate,
           NetType, OneAnswer, NodesInv, Started, NodesTold, NodesKnown, NoEventPending,
           LastEvent, SuccessApplied, Success, Believed, AskedSet
  <2>2. QED
    BY <2>1, NetStep
<1>2. QED
  BY <1>1, NetInitIInv, PTL DEF NetSpec

(* The network and what is on its way stay well-formed: a write UNICENS holds *)
(* is one the library waits for.                                              *)
THEOREM NetTypeCorrect == NetSpec => []NetTypeOK
<1>1. NetIInv => NetTypeOK
  BY DEF NetIInv, IInv, NetType, NetTypeOK
<1>2. QED
  BY <1>1, NetInvariant, PTL

(* What the library knows of a node is so, once its events are delivered, *)
(* except for the nodes it missed while it started.                       *)
THEOREM NodesAreKnown == NetSpec => []NodesKnown
<1>1. NetIInv => NodesKnown
  BY DEF NetIInv, NodesInv
<1>2. QED
  BY <1>1, NetInvariant, PTL

(* While no answer of a write that took effect is an error, the volume the *)
(* library holds for confirmed is the one in the node.                     *)
THEOREM ConfirmedIsOnNode ==
  ASSUME ~LostAnswers
  PROVE  NetSpec => []ConfirmedOnNode
<1>1. NetIInv => ConfirmedOnNode
  <2> SUFFICES ASSUME NetIInv, NEW i \in Values, actual[i] # Unset, i \notin inFlight,
                      NoEventPending(Address[i])
               PROVE  register[i] = actual[i]
    BY DEF ConfirmedOnNode
  <2>1. NoSuccess(i)
    BY DEF NoSuccess, Success, NetIInv, OneAnswer
  <2>2. QED
    BY <2>1 DEF NetIInv, Believed, NoSuccess
<1>2. QED
  BY <1>1, NetInvariant, PTL

(* And a library at rest has brought every volume the user asked of a node *)
(* there into it, unless the volume is the one that stands for "unknown".  *)
THEOREM RestIsApplied ==
  ASSUME ~LostAnswers, Unset \notin DirectVolumes
  PROVE  NetSpec => []RestMeansApplied
<1>1. NetIInv => RestMeansApplied
  <2> SUFFICES ASSUME NetIInv, timers = 0, ~txBusy, NEW i \in asked, available[i],
                      NoEventPending(Address[i])
               PROVE  register[i] = target[i]
    BY DEF RestMeansApplied
  <2> USE DEF NetIInv
  <2>1. i \in Values
    BY DEF NetType
  <2>2. inFlight = {} /\ ~busy[i]
    BY <2>1 DEF IInv, SingleWrite
  <2>3. target[i] = actual[i]
    BY <2>1, <2>2 DEF IInv, TypeOK, NoLostWakeup, RequiresUpdate
  <2>4. actual[i] # Unset
    BY <2>3 DEF AskedSet
  <2>5. NoSuccess(i)
    BY <2>2 DEF NoSuccess, Success, OneAnswer
  <2>6. QED
    BY <2>1, <2>3, <2>4, <2>5 DEF Believed, NoSuccess
<1>2. QED
  BY <1>1, NetInvariant, PTL
=============================================================================
