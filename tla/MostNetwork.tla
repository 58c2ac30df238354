---------------------------- MODULE MostNetwork -----------------------------
(***************************************************************************)
(* The volume library on a MOST network: the nodes with their volume       *)
(* registers, and the UNICENS binding that carries writes to them and      *)
(* reports their answers and the nodes' availability.  Nodes and UNICENS   *)
(* are outside this repository; they are modelled from the calls           *)
(* wrap_unicens.c makes and the events hal_most_unicens.c receives, which  *)
(* reach the HAL in the order they happened.                               *)
(*                                                                         *)
(* unicens_service_init starts the ring, and only then the volume library: *)
(* the events of nodes that come first find no library.  It ends at the    *)
(* first call that fails, so either step may never be taken.               *)
(***************************************************************************)
EXTENDS MostVolume, Sequences

CONSTANTS
    MaxInbox,       \* bound: messages on their way to the HAL
    LostAnswers     \* TRUE: a write may take effect and yet be answered by an error

ASSUME NetworkAssumption ==
    /\ MaxInbox \in Nat /\ LostAnswers \in BOOLEAN
    /\ 0 \in Statuses

PowerUp == -3       \* the content of a register after its node has started

VARIABLES
    up,             \* [Addresses -> BOOLEAN]  nodes present on the ring
    register,       \* [Values -> Volumes or PowerUp]  the volume in the node
    wire,           \* writes UNICENS has accepted and not carried out
    inbox,          \* answers and events on their way to the HAL
    asked,          \* history: values the user has set since the start
    ring,           \* the start-up has subscribed to UNICENS and initialised it
    missed          \* history: nodes whose last event was that they are there,
                    \* and came before the library was started

startVars == <<ring, missed>>
networkVars == <<up, register, wire, inbox, asked, startVars>>
allVars == <<vars, networkVars>>

NodeMessage(a, b)      == [node |-> a, up |-> b]
AnswerMessage(i, st)   == [value |-> i, status |-> st]
IsAnswer(m)            == "value" \in DOMAIN m
IsEventOf(m, a)        == ~IsAnswer(m) /\ m.node = a

NetInit ==
    /\ Init
    /\ up = [a \in Addresses |-> FALSE]
    /\ register = [i \in Values |-> PowerUp]
    /\ wire = {}
    /\ inbox = <<>>
    /\ asked = {}
    /\ ring = FALSE
    /\ missed = {}

(* wrap_ucs_getconfig_sync, wrap_ucs_subscribe_sync, wrap_ucs_initialize_sync. *)
UcsInitialise ==
    /\ ~ring
    /\ ring' = TRUE
    /\ UNCHANGED <<vars, up, register, wire, inbox, asked, missed>>

(* A node joins or leaves the ring; a node that joins has just started. *)
NodeChanges(a) ==
    /\ ring
    /\ Len(inbox) < MaxInbox
    /\ up' = [up EXCEPT ![a] = ~up[a]]
    /\ register' = [i \in Values |->
                      IF Address[i] = a THEN PowerUp ELSE register[i]]
    /\ inbox' = Append(inbox, NodeMessage(a, ~up[a]))
    /\ UNCHANGED <<vars, wire, asked, startVars>>

(* UNICENS carries out a write; the answer may get lost on the ring. *)
WriteApplied(i) ==
    /\ i \in wire
    /\ Len(inbox) < MaxInbox
    /\ up[Address[i]]
    /\ register' = [register EXCEPT ![i] = transmitted[i]]
    /\ wire' = wire \ {i}
    /\ \E st \in IF LostAnswers THEN Statuses ELSE {0} :
          inbox' = Append(inbox, AnswerMessage(i, st))
    /\ UNCHANGED <<vars, up, asked, startVars>>

WriteRejected(i) ==
    /\ i \in wire
    /\ Len(inbox) < MaxInbox
    /\ wire' = wire \ {i}
    /\ \E st \in Statuses \ {0} : inbox' = Append(inbox, AnswerMessage(i, st))
    /\ UNCHANGED <<vars, up, register, asked, startVars>>

(* What becomes of a message: an answer, or an event of a node. *)
Receive(m) ==
    /\ IF IsAnswer(m)
       THEN I2cResult(m.value, m.status) /\ UNCHANGED missed
       ELSE /\ NodeAvailable(m.node, m.up)
            /\ missed' = IF m.up /\ ~running THEN missed \union {m.node}
                         ELSE missed \ {m.node}
    /\ UNCHANGED <<up, register, wire, asked, ring>>

(* Mutant: a message overtakes those before it. *)
DeliverLast ==
    /\ inbox # <<>>
    /\ Receive(inbox[Len(inbox)])
    /\ inbox' = SubSeq(inbox, 1, Len(inbox) - 1)

(* wrap_ucs_i2cwrite_cb or unicens_event_cb takes the next message. *)
Deliver ==
    /\ inbox # <<>>
    /\ Receive(Head(inbox))
    /\ inbox' = Tail(inbox)

NetLibInit == ring /\ LibInit /\ UNCHANGED networkVars

(* asked: target' may equal target when a volume is set again. *)
NetSetMaster(p) ==
    /\ SetMaster(p)
    /\ asked' = asked \union {i \in Values : Key[i] = Master}
    /\ UNCHANGED <<up, register, wire, inbox, startVars>>

NetSetPcm(ps) ==
    /\ SetPcm(ps)
    /\ asked' = asked \union {i \in Values : Key[i] # Master}
    /\ UNCHANGED <<up, register, wire, inbox, startVars>>

NetSetDirect(k, v) ==
    /\ SetDirect(k, v)
    /\ asked' = asked \union {i \in Values : Key[i] = k}
    /\ UNCHANGED <<up, register, wire, inbox, startVars>>

NetService ==
    /\ Service
    /\ wire' = wire \union (inFlight' \ inFlight)
    /\ UNCHANGED <<up, register, inbox, asked, startVars>>

Carry == \E i \in Values : WriteApplied(i) \/ WriteRejected(i)

NetNext ==
    \/ UcsInitialise
    \/ NetLibInit
    \/ \E p \in Percents : NetSetMaster(p)
    \/ \E ps \in [Keys \ {Master} -> Percents] : NetSetPcm(ps)
    \/ \E k \in Keys, v \in DirectVolumes : NetSetDirect(k, v)
    \/ NetService
    \/ \E a \in Addresses : NodeChanges(a)
    \/ Carry
    \/ Deliver

(* UNICENS answers every call and the binder runs timers and callbacks. *)
NetFairness ==
    /\ WF_allVars(NetService)
    /\ WF_allVars(Carry)
    /\ WF_allVars(Deliver)

NetSpec == NetInit /\ [][NetNext]_allVars /\ NetFairness

-----------------------------------------------------------------------------
NetTypeOK ==
    /\ TypeOK
    /\ up \in [Addresses -> BOOLEAN]
    /\ register \in [Values -> Volumes \union {PowerUp}]
    /\ wire \in SUBSET inFlight
    /\ Len(inbox) <= MaxInbox
    /\ asked \in SUBSET Values
    /\ ring \in BOOLEAN /\ missed \in SUBSET Addresses

NoEventPending(a) == \A n \in DOMAIN inbox : ~IsEventOf(inbox[n], a)

(* Once its messages are delivered, the library knows of every node whether *)
(* it is there, except of those it has missed during the start-up and that  *)
(* have not come or gone since.                                             *)
NodesKnown ==
    running =>
        \A i \in Values :
            Address[i] \notin missed /\ NoEventPending(Address[i])
                => available[i] = up[Address[i]]

(* "value set and confirmed via network": unless a write or an event of its *)
(* node is on its way, the volume the library believes confirmed is the one *)
(* in the node, whatever was set, answered or restarted in between.         *)
ConfirmedOnNode ==
    \A i \in Values :
        /\ available[i]
        /\ actual[i] # Unset
        /\ i \notin inFlight
        /\ NoEventPending(Address[i])
        => register[i] = actual[i]

(* A library at rest has nothing left to do: every volume the user asked of a *)
(* node known to be there is the volume in the node.  A value the library     *)
(* forgets to write, or a write it takes for another, breaks it.              *)
RestMeansApplied ==
    timers = 0 /\ ~txBusy =>
        \A i \in asked :
            available[i] /\ NoEventPending(Address[i]) => register[i] = target[i]

(* The user and the ring are quiet from some time on, and writes succeed: then *)
(* the volume asked for gets into every node the library knows.                *)
Quiet ==
    <>[][/\ \A a \in Addresses : ~NodeChanges(a)
         /\ \A i \in Values : ~WriteRejected(i)
         /\ \A k \in 1 .. N : ~ServiceFails(k)
         /\ target' = target]_allVars
VolumeReachesNode ==
    Quiet => \A i \in Values : <>[](i \in asked /\ available[i] => register[i] = target[i])
=============================================================================
