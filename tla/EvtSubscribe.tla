---------------------------- MODULE EvtSubscribe ----------------------------
(***************************************************************************)
(* Subscription to the events of a sound card (alsaEvtSubcribe and         *)
(* sndCtlEventCB in Alsa-afb/Alsa-RegEvt.c).                               *)
(*                                                                         *)
(* A request opens the card, looks for a slot of that card, and otherwise  *)
(* fills a slot: a device subscribed to the events of the card, a source   *)
(* in the event loop, and a binder event that the clients join.  The table *)
(* has no lock and requests run in threads of the binder (noconcurrency is *)
(* left 0), while the event loop runs sndCtlEventCB in a thread of its     *)
(* own.  A card has one control here, and what an event tells of it is left *)
(* out: a client is stale from a change of the card until it is told.      *)
(***************************************************************************)
EXTENDS Integers, Sequences, FiniteSets

CONSTANTS
    Clients,        \* each has one request under way at a time
    Cards,          \* card numbers, 0 among them
    MaxSndCard,     \* MAX_SND_CARD, the size of the table
    MaxHandles      \* bound: evtHandles ever allocated

Slots == 0 .. MaxSndCard - 1
None  == 0                          \* NULL
HandleIds == 1 .. MaxHandles

ASSUME EvtAssumption ==
    /\ MaxSndCard \in Nat \ {0} /\ MaxHandles \in Nat
    /\ Cards \subseteq Nat /\ 0 \in Cards

VARIABLES
    slots,      \* [Slots -> SlotRecord]  sndHandles
    handles,    \* Seq(HandleRecord): the evtHandles allocated so far
    pc,         \* [Clients -> step of its request]
    card,       \* [Clients -> Cards]
    idx,        \* [Clients -> Slots]
    hnd,        \* [Clients -> evtHandle of the request, or None]
    plugged,    \* cards that are there
    granted,    \* [Clients -> SUBSET Cards]  requests answered by a success
    stale,      \* [Clients -> SUBSET Cards]  changes it was not told of yet
    missed,     \* [Clients -> SUBSET Cards]  those it will not be told of: the
                \* event was taken, and then the control could not be read
    crashed,    \* the binder is gone
    overlapped  \* history: the table was searched or filled in the middle of
                \* a request that fills it, or filled under one that uses it

SlotRecord   == [ucount : Nat, cardId : Cards, evtHandle : HandleIds \union {None}]
HandleRecord == [card : Cards, open : BOOLEAN, src : BOOLEAN, afbevt : BOOLEAN,
                 queued : BOOLEAN, listeners : SUBSET Clients]

requests == <<pc, card, idx, hnd>>
world    == <<plugged, stale, missed, crashed>>
vars     == <<slots, handles, requests, world, granted, overlapped>>

Init ==
    /\ slots = [i \in Slots |-> [ucount |-> 0, cardId |-> 0, evtHandle |-> None]]
    /\ handles = <<>>
    /\ pc = [t \in Clients |-> "idle"]
    /\ card = [t \in Clients |-> 0]
    /\ idx = [t \in Clients |-> 0]
    /\ hnd = [t \in Clients |-> None]
    /\ plugged = Cards
    /\ granted = [t \in Clients |-> {}]
    /\ stale = [t \in Clients |-> {}] /\ missed = [t \in Clients |-> {}]
    /\ crashed = FALSE
    /\ overlapped = FALSE

Goto(t, step) == pc' = [pc EXCEPT ![t] = step]

(* An answer, with success or not: the request forgets what it had in hand. *)
Answer(t) ==
    /\ Goto(t, "idle")
    /\ card' = [card EXCEPT ![t] = 0]
    /\ idx' = [idx EXCEPT ![t] = 0]
    /\ hnd' = [hnd EXCEPT ![t] = None]

-----------------------------------------------------------------------------
(* A request for a card that is there; for any other it only fails.         *)
Request(t, c) ==
    /\ pc[t] = "idle" /\ c \in plugged
    /\ card' = [card EXCEPT ![t] = c]
    /\ Goto(t, "search")
    /\ UNCHANGED <<slots, handles, idx, hnd, world, granted, overlapped>>

InUse(i, c) == slots[i].ucount > 0 /\ slots[i].cardId = c
First(S)    == CHOOSE i \in S : \A j \in S : i <= j

(* From its search to its answer a request relies on the slot it has seen;  *)
(* if there was none it fills one.                                          *)
Relies(t)  == pc[t] \notin {"idle", "search"}
Filling(t) ==
    \/ pc[t] \in {"create", "hook", "event", "joinNew"}
    \/ pc[t] = "count" /\ slots[idx[t]].ucount = 0

(* Mutant: the loop does not look at the card of a slot. *)
SearchAnyCard(t) ==
    /\ pc[t] = "search"
    /\ LET matches == {i \in Slots : slots[i].ucount > 0}
       IN  IF matches # {}
           THEN idx' = [idx EXCEPT ![t] = First(matches)] /\ Goto(t, "take")
           ELSE idx' = [idx EXCEPT ![t] = First(Slots)] /\ Goto(t, "create")
    /\ overlapped' = (overlapped \/ \E u \in Clients \ {t} : Filling(u))
    /\ UNCHANGED <<slots, handles, card, hnd, world, granted>>

(* Mutant: without "idx = idxFree" the index is left where the loop ended. *)
SearchLeavesIndex(t) ==
    /\ pc[t] = "search"
    /\ LET matches == {i \in Slots : InUse(i, card[t])}
       IN  IF matches # {}
           THEN idx' = [idx EXCEPT ![t] = First(matches)] /\ Goto(t, "take")
           ELSE idx' = [idx EXCEPT ![t] = MaxSndCard] /\ Goto(t, "create")
    /\ overlapped' = (overlapped \/ \E u \in Clients \ {t} : Filling(u))
    /\ UNCHANGED <<slots, handles, card, hnd, world, granted>>

(* The loop that looks for a subscription of the card.  What it marks as    *)
(* free is the first slot that is not the one looked for.                   *)
Search(t) ==
    /\ pc[t] = "search"
    /\ LET matches == {i \in Slots : InUse(i, card[t])}
       IN  IF matches # {}
           THEN idx' = [idx EXCEPT ![t] = First(matches)] /\ Goto(t, "take")
           ELSE idx' = [idx EXCEPT ![t] = First(Slots)] /\ Goto(t, "create")
    /\ overlapped' = (overlapped \/ \E u \in Clients \ {t} : Filling(u))
    /\ UNCHANGED <<slots, handles, card, hnd, world, granted>>

Take(t) ==
    /\ pc[t] = "take"
    /\ hnd' = [hnd EXCEPT ![t] = slots[idx[t]].evtHandle]
    /\ Goto(t, "join")
    /\ UNCHANGED <<slots, handles, card, idx, world, granted, overlapped>>

Create(t) ==
    /\ pc[t] = "create"
    /\ Len(handles) < MaxHandles
    /\ handles' = Append(handles, [card |-> card[t], open |-> card[t] \in plugged,
                                   src |-> FALSE, afbevt |-> FALSE,
                                   queued |-> FALSE, listeners |-> {}])
    /\ slots' = [slots EXCEPT ![idx[t]] = [ucount |-> 0, cardId |-> card[t],
                                           evtHandle |-> Len(handles')]]
    /\ hnd' = [hnd EXCEPT ![t] = Len(handles')]
    /\ overlapped' = (overlapped \/ \E u \in Clients \ {t} : Relies(u))
    /\ Goto(t, "hook")
    /\ UNCHANGED <<card, idx, world, granted>>

(* snd_ctl_subscribe_events and sd_event_add_io. *)
Hook(t) ==
    /\ pc[t] = "hook"
    /\ handles' = [handles EXCEPT ![hnd[t]].src = TRUE]
    /\ Goto(t, "event")
    /\ UNCHANGED <<slots, card, idx, hnd, world, granted, overlapped>>

MakeEvent(t) ==
    /\ pc[t] = "event"
    /\ handles' = [handles EXCEPT ![hnd[t]].afbevt = TRUE]
    /\ Goto(t, "joinNew")
    /\ UNCHANGED <<slots, card, idx, hnd, world, granted, overlapped>>

(* afb_req_subscribe; an event that is not made is joined by nobody. *)
Join(t) ==
    /\ pc[t] \in {"join", "joinNew"}
    /\ handles[hnd[t]].afbevt
    /\ handles' = [handles EXCEPT ![hnd[t]].listeners = @ \union {t}]
    /\ Goto(t, "count")
    /\ UNCHANGED <<slots, card, idx, hnd, world, granted, overlapped>>

(* Mutant: a request that joined an existing subscription closes its device *)
(* when it fails.                                                           *)
FailClosesShared(t) ==
    /\ pc[t] \in {"hook", "event", "joinNew", "join"}
    /\ handles' = [handles EXCEPT ![hnd[t]].open = FALSE]
    /\ Answer(t)
    /\ UNCHANGED <<slots, world, granted, overlapped>>

(* Any step may fail.  The device of this request is closed: that of the    *)
(* evtHandle it made, or one that no evtHandle has.  A source stays.        *)
Fail(t) ==
    /\ pc[t] \in {"hook", "event", "joinNew", "join"}
    /\ handles' = IF pc[t] = "join" THEN handles
                  ELSE [handles EXCEPT ![hnd[t]].open = FALSE]
    /\ Answer(t)
    /\ UNCHANGED <<slots, world, granted, overlapped>>

(* The answer.  The client then reads the controls of the card. *)
Count(t) ==
    /\ pc[t] = "count"
    /\ slots' = [slots EXCEPT ![idx[t]].ucount = 1]
    /\ granted' = [granted EXCEPT ![t] = @ \union {card[t]}]
    /\ stale' = [stale EXCEPT ![t] = @ \ {card[t]}]
    /\ missed' = [missed EXCEPT ![t] = @ \ {card[t]}]
    /\ Answer(t)
    /\ UNCHANGED <<handles, plugged, crashed, overlapped>>

-----------------------------------------------------------------------------
(* A control of the card changes: each device subscribed to it is told.     *)
Change(c) ==
    /\ c \in plugged
    /\ handles' = [h \in DOMAIN handles |->
                     IF handles[h].card = c /\ handles[h].open /\ handles[h].src
                     THEN [handles[h] EXCEPT !.queued = TRUE] ELSE handles[h]]
    /\ stale' = [t \in Clients |->
                   IF c \in granted[t] THEN stale[t] \union {c} ELSE stale[t]]
    /\ missed' = [t \in Clients |-> missed[t] \ {c}]
    /\ UNCHANGED <<slots, requests, plugged, crashed, granted, overlapped>>

Readable(h) ==
    /\ ~crashed /\ h \in DOMAIN handles
    /\ handles[h].open /\ handles[h].src /\ handles[h].queued

(* The listeners of a device, for whom S loses or gains what the device says. *)
Told(h, S) == [t \in Clients |->
                 IF t \in handles[h].listeners THEN S[t] \ {handles[h].card} ELSE S[t]]
Lost(h)    == [t \in Clients |->
                 IF t \in handles[h].listeners
                 THEN missed[t] \union ({handles[h].card} \intersect stale[t]) ELSE missed[t]]

(* Mutant: an event is taken from the queue and not pushed. *)
FireSilent(h) ==
    /\ Readable(h)
    /\ handles' = [handles EXCEPT ![h].queued = FALSE]
    /\ UNCHANGED <<slots, requests, world, granted, overlapped>>

(* sndCtlEventCB: the value is read now, not when it changed, and pushed to *)
(* the listeners.                                                           *)
Fire(h) ==
    /\ Readable(h)
    /\ handles' = [handles EXCEPT ![h].queued = FALSE]
    /\ stale' = Told(h, stale) /\ missed' = Told(h, missed)
    /\ UNCHANGED <<slots, requests, plugged, crashed, granted, overlapped>>

(* sndCtlEventCB, when the event is taken and its control cannot be read:   *)
(* nothing is pushed, and nobody tries again.                               *)
FireFails(h) ==
    /\ Readable(h)
    /\ handles' = [handles EXCEPT ![h].queued = FALSE]
    /\ missed' = Lost(h)
    /\ UNCHANGED <<slots, requests, plugged, stale, crashed, granted, overlapped>>

(* Until the binder event is made the field it is pushed to is uninitialised *)
(* memory: the push tells nobody, which Fire is, or crashes the binder.      *)
Crash(h) ==
    /\ Readable(h) /\ ~handles[h].afbevt
    /\ crashed' = TRUE
    /\ UNCHANGED <<slots, handles, requests, plugged, stale, missed, granted, overlapped>>

(* EPOLLHUP is all a device of a removed card ever gives again.  The card   *)
(* does not come back.                                                      *)
Unplug(c) ==
    /\ c \in plugged
    /\ plugged' = plugged \ {c}
    /\ handles' = [h \in DOMAIN handles |->
                     IF handles[h].card = c
                     THEN [handles[h] EXCEPT !.open = FALSE, !.queued = FALSE]
                     ELSE handles[h]]
    /\ UNCHANGED <<slots, requests, stale, missed, crashed, granted, overlapped>>

-----------------------------------------------------------------------------
Step(t) ==
    \/ Search(t) \/ Take(t) \/ Create(t) \/ Hook(t) \/ MakeEvent(t) \/ Join(t)
    \/ Fail(t) \/ Count(t)

Handle(h) == Fire(h) \/ FireFails(h) \/ Crash(h)

Next ==
    /\ ~crashed
    /\ \/ \E t \in Clients, c \in Cards : Request(t, c)
       \/ \E t \in Clients : Step(t)
       \/ \E c \in Cards : Change(c) \/ Unplug(c)
       \/ \E h \in HandleIds : Handle(h)

(* The event loop serves every source that is ready. *)
Spec == Init /\ [][Next]_vars /\ \A h \in HandleIds : WF_vars(Handle(h))

-----------------------------------------------------------------------------
TypeOK ==
    /\ slots \in [Slots -> SlotRecord]
    /\ handles \in Seq(HandleRecord) /\ Len(handles) <= MaxHandles
    /\ pc \in [Clients -> {"idle", "search", "take", "create", "hook", "event",
                           "join", "joinNew", "count"}]
    /\ card \in [Clients -> Cards] /\ idx \in [Clients -> Slots]
    /\ hnd \in [Clients -> HandleIds \union {None}]
    /\ plugged \subseteq Cards
    /\ granted \in [Clients -> SUBSET Cards]
    /\ stale \in [Clients -> SUBSET Cards] /\ missed \in [Clients -> SUBSET Cards]
    /\ crashed \in BOOLEAN /\ overlapped \in BOOLEAN

Serves(h, t, c) ==
    /\ handles[h].card = c /\ handles[h].open /\ handles[h].src
    /\ t \in handles[h].listeners

(* A client that was answered and was not told of a change of the card will  *)
(* be: an event of that card waits in a device it listens to.  The one        *)
(* exception is a change whose event was taken and whose control could not    *)
(* be read then; it lasts until the next change.  Failures of other requests  *)
(* and subscriptions of other cards do not matter, but no slot may be filled  *)
(* during another request, and the card must be there.                        *)
StaleIsPending ==
    ~overlapped =>
        \A t \in Clients : \A c \in granted[t] \intersect plugged :
            \E h \in DOMAIN handles :
                /\ Serves(h, t, c)
                /\ c \in stale[t] \ missed[t] => handles[h].queued

(* No client is told of a card it never asked for. *)
OwnBoardsOnly ==
    ~overlapped =>
        \A h \in DOMAIN handles : \A t \in handles[h].listeners :
            \/ handles[h].card \in granted[t]
            \/ pc[t] # "idle" /\ card[t] = handles[h].card
            \/ ~handles[h].open

Sources(c) == {h \in DOMAIN handles :
                 handles[h].card = c /\ handles[h].open /\ handles[h].src}

(* "search for an existing subscription and mark 1st free slot": a card has *)
(* one source however many clients subscribe to it.                         *)
OneSourcePerCard == \A c \in Cards : Cardinality(Sources(c)) <= 1

(* Under the same conditions every client is told of every change in the end, *)
(* or of a later one, unless reading the control failed or the binder crashed. *)
ToldInTheEnd ==
    \A t \in Clients, c \in Cards :
        c \in stale[t] ~>
            \/ c \notin stale[t] \/ c \in missed[t]
            \/ overlapped \/ c \notin plugged \/ crashed
=============================================================================
