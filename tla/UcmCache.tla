------------------------------ MODULE UcmCache ------------------------------
(***************************************************************************)
(* The cache of use case managers of the ALSA binding                      *)
(* (Alsa-afb/Alsa-Ucm.c).  A request looks its sound card up in a static   *)
(* table, opens and stores a manager when there is none, and then works    *)
(* with the manager of the slot.                                           *)
(*                                                                         *)
(* The binding does not ask for its verbs to be serialised                 *)
(* (noconcurrency is left 0 in Alsa-ApiHat.c), so the binder runs several  *)
(* requests in threads of its own, and the table has no lock: searching,   *)
(* opening, each of the two stores that other requests read, and every use *)
(* of a manager are separate steps.  A set may ask for a verb, for a       *)
(* device and for a modifier, one after the other, each of which may be    *)
(* refused, and then read values as a get does.  What is read is left out. *)
(***************************************************************************)
EXTENDS Integers, Sequences, FiniteSets

CONSTANTS
    Threads,        \* requests the binder works on at the same time
    Cards,          \* card numbers, 0 among them
    SetCards,       \* bound: cards whose use case is set
    MaxSndCard,     \* MAX_SND_CARD, the size of the table
    Verbs,          \* use cases
    Devices,        \* devices of use cases
    Modifiers,      \* modifiers of use cases
    MaxManagers     \* bound: managers ever opened

Slots    == 0 .. MaxSndCard - 1
None     == 0               \* NULL
Managers == 1 .. MaxManagers
NoItem   == "none"          \* not asked for, not in force

(* read: query and get *)
Ops      == {"read", "set", "reset", "close"}

(* What a set asks for, and what is in force in a manager. *)
Wants    == [verb : Verbs \union {NoItem}, dev : Devices \union {NoItem},
             mod : Modifiers \union {NoItem}]
Nothing  == [verb |-> NoItem, dev |-> NoItem, mod |-> NoItem]
Setups   == [verb : Verbs \union {NoItem}, devs : SUBSET Devices, mods : SUBSET Modifiers]
Unset    == [verb |-> NoItem, devs |-> {}, mods |-> {}]

ASSUME UcmAssumption ==
    /\ MaxSndCard \in Nat \ {0} /\ MaxManagers \in Nat
    /\ 0 \in Cards /\ SetCards \subseteq Cards

VARIABLES
    ucm,        \* [Slots -> manager or None]  ucmHandles[].ucm
    cardId,     \* [Slots -> Cards]            ucmHandles[].cardId
    managers,   \* managers opened so far: their cards, whether they are open,
                \* and their setup: verb, enabled devices and modifiers
    pc,         \* [Threads -> step of the request]
    op,         \* [Threads -> Ops]
    card,       \* [Threads -> Cards]  card of the request
    idx,        \* [Threads -> Slots]
    mgr,        \* [Threads -> manager the request has in hand, or None]
    want,       \* [Threads -> Wants]  what a set asks for
    base,       \* history: [Threads -> setup a set found, as long as that says
                \* what must be there]
    overlapped, \* history: a search ran while another request was opening
    mixed       \* history: sets whose manager another request changed meanwhile

table == <<ucm, cardId>>
vars == <<table, managers, pc, op, card, idx, mgr, want, base,
          overlapped, mixed>>

Init ==
    /\ ucm = [i \in Slots |-> None]
    /\ cardId = [i \in Slots |-> 0]
    /\ managers = <<>>
    /\ pc = [t \in Threads |-> "idle"]
    /\ op = [t \in Threads |-> "read"]
    /\ card = [t \in Threads |-> 0]
    /\ idx = [t \in Threads |-> 0]
    /\ mgr = [t \in Threads |-> None]
    /\ want = [t \in Threads |-> Nothing]
    /\ base = [t \in Threads |-> Unset]
    /\ overlapped = FALSE
    /\ mixed = {}

Goto(t, step) == pc' = [pc EXCEPT ![t] = step]

(* An answer, with success or not: the request forgets what it had in hand. *)
Finish(t) ==
    /\ Goto(t, "idle")
    /\ op' = [op EXCEPT ![t] = "read"] /\ card' = [card EXCEPT ![t] = 0]
    /\ idx' = [idx EXCEPT ![t] = 0] /\ mgr' = [mgr EXCEPT ![t] = None]
    /\ want' = [want EXCEPT ![t] = Nothing]

-----------------------------------------------------------------------------
(* A request for a card that can be opened; for any other it just fails. *)
Request(t, o, c) ==
    /\ pc[t] = "idle"
    /\ o = "set" => c \in SetCards
    /\ op' = [op EXCEPT ![t] = o]
    /\ card' = [card EXCEPT ![t] = c]
    /\ Goto(t, "search")
    /\ UNCHANGED <<table, managers, idx, mgr, want, base, overlapped, mixed>>

Opening(t) == pc[t] \in {"open", "storeUcm", "storeCard"}
Hits(c)    == {i \in Slots : ucm[i] # None /\ cardId[i] = c}
Free       == {i \in Slots : ucm[i] = None}
First(S)   == CHOOSE i \in S : \A j \in S : i <= j

(* Only a query, a get or a set may open a manager (allowNewMgr).           *)
AllowNewMgr(t) == op[t] \in {"read", "set"}

Found(t) ==
    /\ Hits(card[t]) # {}
    /\ idx' = [idx EXCEPT ![t] = First(Hits(card[t]))]
    /\ Goto(t, "load")
    /\ UNCHANGED <<op, card, mgr, want>>

NotFound(t) ==
    /\ Hits(card[t]) = {} /\ AllowNewMgr(t) /\ Free # {}
    /\ idx' = [idx EXCEPT ![t] = First(Free)]
    /\ Goto(t, "open")
    /\ UNCHANGED <<op, card, mgr, want>>

(* Mutant: the table is not checked to be full. *)
NoSlotUnchecked(t) ==
    /\ Hits(card[t]) = {}
    /\ \/ ~AllowNewMgr(t) /\ Finish(t)
       \/ /\ AllowNewMgr(t) /\ Free = {}
          /\ idx' = [idx EXCEPT ![t] = -1]
          /\ Goto(t, "open")
          /\ UNCHANGED <<op, card, mgr, want>>

(* ucm-nomgr, ucm-toomany. *)
NoSlot(t) ==
    /\ Hits(card[t]) = {}
    /\ ~AllowNewMgr(t) \/ Free = {}
    /\ Finish(t)

(* The search loop of alsaUseCaseOpen, and what follows from its outcome.   *)
Search(t) ==
    /\ pc[t] = "search"
    /\ overlapped' = (overlapped \/ \E u \in Threads \ {t} : Opening(u))
    /\ Found(t) \/ NotFound(t) \/ NoSlot(t)
    /\ UNCHANGED <<table, managers, base, mixed>>

(* snd_use_case_mgr_open finds the profile of the card, or fails. *)
OpenManager(t) ==
    /\ pc[t] = "open"
    /\ Len(managers) < MaxManagers
    /\ managers' = Append(managers, [card |-> card[t], open |-> TRUE, setup |-> Unset])
    /\ mgr' = [mgr EXCEPT ![t] = Len(managers')]
    /\ Goto(t, "storeUcm")
    /\ UNCHANGED <<table, op, card, idx, want, base, overlapped, mixed>>

OpenFails(t) ==
    /\ pc[t] = "open"
    /\ Finish(t)
    /\ UNCHANGED <<table, managers, base, overlapped, mixed>>

StoreUcm(t) ==
    /\ pc[t] = "storeUcm"
    /\ ucm' = [ucm EXCEPT ![idx[t]] = mgr[t]]
    /\ Goto(t, "storeCard")
    /\ UNCHANGED <<cardId, managers, op, card, idx, mgr, want, base, overlapped, mixed>>

(* Mutant: the number of the card is not stored. *)
StoreCardNot(t) ==
    /\ pc[t] = "storeCard"
    /\ Goto(t, "load")
    /\ UNCHANGED <<table, managers, op, card, idx, mgr, want, base, overlapped, mixed>>

StoreCard(t) ==
    /\ pc[t] = "storeCard"
    /\ cardId' = [cardId EXCEPT ![idx[t]] = card[t]]
    /\ Goto(t, "load")
    /\ UNCHANGED <<ucm, managers, op, card, idx, mgr, want, base, overlapped, mixed>>

(* The request takes the manager from the slot it was given; a set then looks *)
(* at what it is asked for.                                                   *)
Load(t) ==
    /\ pc[t] = "load"
    /\ mgr' = [mgr EXCEPT ![t] = ucm[idx[t]]]
    /\ IF op[t] = "set"
       THEN /\ \E items \in Wants : want' = [want EXCEPT ![t] = items]
            /\ base' = [base EXCEPT ![t] = managers[mgr'[t]].setup]
       ELSE UNCHANGED <<want, base>>
    /\ Goto(t, "work")
    /\ UNCHANGED <<table, managers, op, card, idx, overlapped, mixed>>

(* The request ends, with success or not, and changes nothing any more. *)
Answer(t) ==
    /\ Finish(t)
    /\ base' = [base EXCEPT ![t] = Unset] /\ mixed' = mixed \ {t}
    /\ UNCHANGED <<table, managers, overlapped>>

(* A query or a get reads, and ends well or not. *)
ReadEnds(t) == pc[t] = "work" /\ op[t] = "read" /\ Answer(t)

(* A set that has its manager in hand, and those disturbed by a change of t. *)
InSet(t) == op[t] = "set" /\ pc[t] \in {"work", "device", "modifier", "end"}
Disturbed(t) == {u \in Threads \ {t} : InSet(u) /\ mgr[u] = mgr[t]}

(* The manager of t has a new setup. *)
SetUp(t, setup) ==
    /\ managers' = [managers EXCEPT ![mgr[t]].setup = setup]
    /\ mixed' = mixed \union Disturbed(t)
    /\ base' = [u \in Threads |-> IF u \in Disturbed(t) THEN Unset ELSE base[u]]

SetupOf(t) == managers[mgr[t]].setup

(* "_verb": another verb disables the devices and modifiers of the one before. *)
SetVerb(t) ==
    /\ pc[t] = "work" /\ op[t] = "set"
    /\ IF want[t].verb \in {NoItem, SetupOf(t).verb}
       THEN UNCHANGED <<managers, base, mixed>>
       ELSE SetUp(t, [Unset EXCEPT !.verb = want[t].verb])
    /\ Goto(t, "device")
    /\ UNCHANGED <<table, op, card, idx, mgr, want, overlapped>>

(* "_enadev", under the verb in force, whoever has set it *)
SetDevice(t) ==
    /\ pc[t] = "device"
    /\ IF want[t].dev = NoItem
       THEN UNCHANGED <<managers, base, mixed>>
       ELSE /\ SetupOf(t).verb # NoItem
            /\ SetUp(t, [SetupOf(t) EXCEPT !.devs = @ \union {want[t].dev}])
    /\ Goto(t, "modifier")
    /\ UNCHANGED <<table, op, card, idx, mgr, want, overlapped>>

(* "_enamod" *)
SetModifier(t) ==
    /\ pc[t] = "modifier"
    /\ IF want[t].mod = NoItem
       THEN UNCHANGED <<managers, base, mixed>>
       ELSE /\ SetupOf(t).verb # NoItem
            /\ SetUp(t, [SetupOf(t) EXCEPT !.mods = @ \union {want[t].mod}])
    /\ Goto(t, "end")
    /\ UNCHANGED <<table, op, card, idx, mgr, want, overlapped>>

(* The step of a set asks for something. *)
Asks(t) ==
    \/ pc[t] = "work" /\ op[t] = "set" /\ want[t].verb # NoItem
    \/ pc[t] = "device" /\ want[t].dev # NoItem
    \/ pc[t] = "modifier" /\ want[t].mod # NoItem

(* Mutant: what is refused is not the end of the request. *)
SetRefusedGoesOn(t) ==
    /\ Asks(t)
    /\ Goto(t, CASE pc[t] = "work"   -> "device"
                 [] pc[t] = "device" -> "modifier"
                 [] OTHER            -> "end")
    /\ UNCHANGED <<table, managers, op, card, idx, mgr, want, base, overlapped, mixed>>

(* What was set before stays. *)
SetRefused(t) == Asks(t) /\ Answer(t)

SetEnds(t) == pc[t] = "end" /\ Answer(t)

(* "label are requested transfert request to get": it looks its manager up anew. *)
SetThenGet(t) ==
    /\ pc[t] = "end"
    /\ op' = [op EXCEPT ![t] = "read"]
    /\ idx' = [idx EXCEPT ![t] = 0] /\ mgr' = [mgr EXCEPT ![t] = None]
    /\ want' = [want EXCEPT ![t] = Nothing] /\ base' = [base EXCEPT ![t] = Unset]
    /\ mixed' = mixed \ {t}
    /\ Goto(t, "search")
    /\ UNCHANGED <<table, managers, card, overlapped>>

Reset(t) ==
    /\ pc[t] = "work" /\ op[t] = "reset"
    /\ SetUp(t, Unset) \/ UNCHANGED <<managers, base, mixed>>
    /\ Finish(t)
    /\ UNCHANGED <<table, overlapped>>

(* Mutant: the slot is emptied before the manager is known to be closed. *)
CloseForgets(t) ==
    /\ pc[t] = "work" /\ op[t] = "close"
    /\ ucm' = [ucm EXCEPT ![idx[t]] = None]
    /\ \E done \in BOOLEAN :
          managers' = [managers EXCEPT ![mgr[t]].open = @ /\ ~done]
    /\ Finish(t)
    /\ UNCHANGED <<cardId, base, overlapped, mixed>>

(* alsaUseCaseClose: the slot keeps pointing to the closed manager. *)
Close(t) ==
    /\ pc[t] = "work" /\ op[t] = "close"
    /\ \E done \in BOOLEAN :
          managers' = [managers EXCEPT ![mgr[t]].open = @ /\ ~done]
    /\ Finish(t)
    /\ UNCHANGED <<table, base, overlapped, mixed>>

-----------------------------------------------------------------------------
Step(t) ==
    \/ Search(t) \/ OpenManager(t) \/ OpenFails(t) \/ StoreUcm(t) \/ StoreCard(t)
    \/ Load(t) \/ ReadEnds(t) \/ SetVerb(t) \/ SetDevice(t) \/ SetModifier(t)
    \/ SetRefused(t) \/ SetEnds(t) \/ SetThenGet(t) \/ Reset(t) \/ Close(t)

Next == \E t \in Threads :
    \/ \E o \in Ops, c \in Cards : Request(t, o, c)
    \/ Step(t)

Spec == Init /\ [][Next]_vars

-----------------------------------------------------------------------------
TypeOK ==
    /\ ucm \in [Slots -> Managers \union {None}]
    /\ cardId \in [Slots -> Cards]
    /\ managers \in Seq([card : Cards, open : BOOLEAN, setup : Setups])
    /\ pc \in [Threads -> {"idle", "search", "open", "storeUcm", "storeCard",
                           "load", "work", "device", "modifier", "end"}]
    /\ op \in [Threads -> Ops] /\ card \in [Threads -> Cards]
    /\ idx \in [Threads -> Slots] /\ mgr \in [Threads -> Managers \union {None}]
    /\ want \in [Threads -> Wants] /\ base \in [Threads -> Setups]
    /\ overlapped \in BOOLEAN /\ mixed \subseteq Threads

(* Whatever other requests search, use or close meanwhile, a request works  *)
(* with a manager of its own card, as long as no search ran while a manager *)
(* was being opened: then a slot may be found before its card is stored, or *)
(* taken by two requests.                                                   *)
RightManager ==
    ~overlapped =>
        \A t \in Threads : pc[t] = "work" => managers[mgr[t]].card = card[t]

(* Under the same condition a card has one manager at most, and no open      *)
(* manager is lost: each is in the table or on its way into it.              *)
OneManagerPerCard ==
    ~overlapped =>
        /\ \A i, j \in Slots : ucm[i] # None /\ ucm[i] = ucm[j] => i = j
        /\ \A m, n \in DOMAIN managers : managers[m].card = managers[n].card => m = n
        /\ \A m \in DOMAIN managers :
              \/ \E i \in Slots : ucm[i] = m
              \/ \E t \in Threads : pc[t] = "storeUcm" /\ mgr[t] = m

(* A set that ends well, whatever it asks for, has what it asked for in      *)
(* force: its verb, or the verb it found, left there perhaps by a set that    *)
(* was refused half-way; its device and its modifier; and of the devices and  *)
(* modifiers before it those it found, none if it brought another verb.  This *)
(* holds as long as no other request changed the manager in its middle.       *)
SetAsAsked ==
    \A t \in Threads : pc[t] = "end" /\ t \notin mixed =>
        LET same == want[t].verb \in {NoItem, base[t].verb}
        IN  /\ SetupOf(t).verb = IF same THEN base[t].verb ELSE want[t].verb
            /\ SetupOf(t).devs = (IF same THEN base[t].devs ELSE {})
                                    \union ({want[t].dev} \ {NoItem})
            /\ SetupOf(t).mods = (IF same THEN base[t].mods ELSE {})
                                    \union ({want[t].mod} \ {NoItem})

(* "Cache opened UCM handles": a request works with an open manager, here    *)
(* asked of requests that run one after the other.                          *)
WorksOnOpen ==
    \A t \in Threads : pc[t] = "work" => managers[mgr[t]].open
=============================================================================
