------------------------- MODULE EvtSubscribe_proofs -------------------------
(***************************************************************************)
(* Proofs about EvtSubscribe for any number of clients, cards, slots and   *)
(* evtHandles.                                                             *)
(***************************************************************************)
EXTENDS EvtSubscribe, SequenceTheorems, NaturalsInduction, WellFoundedInduction, TLAPS

New(t) == pc[t] \in {"hook", "event", "joinNew"}

(* As long as no slot is filled under another request: one request at most   *)
(* fills a slot, and from the moment it does nobody else relies on one.      *)
Alone ==
    \A t, u \in Clients : t # u /\ Filling(t) =>
        ~Filling(u) /\ (pc[t] # "create" => ~Relies(u))

(* A slot in use has a subscription of its card, which lives with the card. *)
Alive(h) == handles[h].open \/ handles[h].card \notin plugged
SlotsOK ==
    \A i \in Slots : slots[i].ucount > 0 =>
        LET h == slots[i].evtHandle
        IN  h \in DOMAIN handles /\ handles[h].card = slots[i].cardId
            /\ handles[h].src /\ Alive(h)

(* A request that relies on a slot has what it looked for, or has filled it. *)
SlotHeld(t) ==
    /\ pc[t] \in {"take", "join"} => slots[idx[t]].ucount > 0
    /\ Relies(t) /\ pc[t] # "create" => slots[idx[t]].cardId = card[t]
HandleHeld(t) ==
    /\ New(t) \/ pc[t] \in {"join", "count"} =>
          /\ hnd[t] \in DOMAIN handles /\ slots[idx[t]].evtHandle = hnd[t]
          /\ handles[hnd[t]].card = card[t] /\ Alive(hnd[t])
    /\ pc[t] \in {"event", "joinNew", "join", "count"} => handles[hnd[t]].src
    /\ pc[t] = "count" => t \in handles[hnd[t]].listeners
(* What it has filled nobody else knows of. *)
HandleNew(t) ==
    /\ New(t) => slots[idx[t]].ucount = 0 /\ handles[hnd[t]].listeners = {}
    /\ Filling(t) /\ pc[t] # "create" =>
          \A i \in Slots : slots[i].ucount > 0 => slots[i].evtHandle # hnd[t]
RequestsOK == \A t \in Clients : SlotHeld(t) /\ HandleHeld(t) /\ HandleNew(t)

(* A client listens to cards it was granted, and to the one it has just joined. *)
Listening ==
    \A h \in DOMAIN handles : \A t \in handles[h].listeners :
        handles[h].card \in granted[t] \/ (pc[t] = "count" /\ card[t] = handles[h].card)

Undisturbed == Alone /\ SlotsOK /\ RequestsOK /\ Listening
IInv == TypeOK /\ (overlapped \/ Undisturbed) /\ StaleIsPending

-----------------------------------------------------------------------------
(* The first of some slots. *)
LEMMA FirstSlot ==
  ASSUME NEW S \in SUBSET Slots, S # {}
  PROVE  First(S) \in S
<1> DEFINE Less == {ss \in Nat \X Nat : ss[1] < ss[2]}
<1>1. S \subseteq Nat
  BY EvtAssumption DEF Slots
<1>2. IsWellFoundedOn(Less, Nat)
  BY NatLessThanWellFounded DEF OpToRel
<1>3. PICK i \in S : \A j \in S : ~(<<j, i>> \in Less)
  <2> HIDE DEF Less
  <2> QED
    BY <1>1, <1>2, WFMin
<1>4. \A j \in S : i <= j
  <2> SUFFICES ASSUME NEW j \in S PROVE i <= j
    OBVIOUS
  <2>1. i \in Nat /\ j \in Nat
    BY <1>1
  <2>2. ~(j < i)
    BY <1>3, <2>1
  <2>3. QED
    BY <2>1, <2>2
<1>5. QED
  BY <1>4 DEF First

(* A change of the evtHandles that adds none. *)
LEMMA HandlesUpdated ==
  ASSUME TypeOK, NEW f, f = [h \in DOMAIN handles |-> f[h]],
         \A h \in DOMAIN handles : f[h] \in HandleRecord
  PROVE  /\ f \in Seq(HandleRecord) /\ Len(f) = Len(handles) /\ DOMAIN f = DOMAIN handles
<1>1. /\ handles \in Seq(HandleRecord) /\ DOMAIN handles = 1 .. Len(handles)
      /\ Len(handles) \in Nat
  BY LenProperties DEF TypeOK
<1>2. f \in Seq(HandleRecord) /\ DOMAIN f = 1 .. Len(handles)
  BY <1>1, IsASeq
<1>3. QED
  BY <1>1, <1>2, LenProperties

(* The evtHandles are numbered from 1, and each is a record of its type. *)
LEMMA HandlesTyped ==
  ASSUME TypeOK
  PROVE  /\ DOMAIN handles = 1 .. Len(handles) /\ Len(handles) \in 0 .. MaxHandles
         /\ \A h \in DOMAIN handles : handles[h] \in HandleRecord /\ h \in HandleIds
<1>1. handles \in Seq(HandleRecord) /\ Len(handles) <= MaxHandles
  BY DEF TypeOK
<1>2. DOMAIN handles = 1 .. Len(handles) /\ Len(handles) \in Nat
  BY <1>1, LenProperties
<1>3. \A h \in DOMAIN handles : handles[h] \in HandleRecord
  BY <1>1, <1>2, ElementOfSeq
<1>4. QED
  BY <1>1, <1>2, <1>3, EvtAssumption DEF HandleIds

(* Every action keeps the types. *)
LEMMA TypeOKNext == TypeOK /\ [Next]_vars => TypeOK'
<1> SUFFICES ASSUME TypeOK, [Next]_vars PROVE TypeOK'
  OBVIOUS
<1> USE DEF requests, world
<1>0. /\ \A h \in DOMAIN handles : handles[h] \in HandleRecord
      /\ 0 \in Cards /\ 0 \in Slots
  BY HandlesTyped, EvtAssumption DEF Slots
<1>1. ASSUME NEW t \in Clients, NEW c \in Cards, Request(t, c) PROVE TypeOK'
  BY <1>1 DEF Request, Goto, TypeOK
<1>2. ASSUME NEW t \in Clients, Search(t) PROVE TypeOK'
  <2>1. First(Slots) \in Slots /\ \A S \in SUBSET Slots : S # {} => First(S) \in Slots
    BY <1>0, FirstSlot
  <2>2. idx' \in [Clients -> Slots] /\ pc' \in [Clients -> {"idle", "search", "take", "create",
              "hook", "event", "join", "joinNew", "count"}]
    <3> DEFINE M == {i \in Slots : InUse(i, card[t])}
    <3>1. M \in SUBSET Slots
      OBVIOUS
    <3>2. \/ idx' = [idx EXCEPT ![t] = First(M)] /\ M # {} /\ Goto(t, "take")
          \/ idx' = [idx EXCEPT ![t] = First(Slots)] /\ Goto(t, "create")
      BY <1>2 DEF Search
    <3> HIDE DEF M
    <3>3. QED
      BY <2>1, <3>1, <3>2 DEF Goto, TypeOK
  <2>3. overlapped' \in BOOLEAN
    BY <1>2, Zenon DEF Search
  <2>4. QED
    BY <1>2, <2>2, <2>3 DEF Search, TypeOK
<1>3. ASSUME NEW t \in Clients, Take(t) PROVE TypeOK'
  <2>1. slots[idx[t]].evtHandle \in HandleIds \union {None}
    BY DEF TypeOK, SlotRecord
  <2>2. QED
    BY <1>3, <2>1 DEF Take, Goto, TypeOK
<1>4. ASSUME NEW t \in Clients, Create(t) PROVE TypeOK'
  <2> DEFINE r == [card |-> card[t], open |-> card[t] \in plugged, src |-> FALSE,
                   afbevt |-> FALSE, queued |-> FALSE, listeners |-> {}]
  <2>1. r \in HandleRecord
    BY DEF HandleRecord, TypeOK
  <2>2. handles' = Append(handles, r) /\ Len(handles) < MaxHandles
    BY <1>4 DEF Create
  <2> HIDE DEF r
  <2>3. /\ handles' \in Seq(HandleRecord) /\ Len(handles') = Len(handles) + 1
        /\ Len(handles) \in Nat
    BY <2>1, <2>2, AppendProperties, LenProperties DEF TypeOK
  <2>4. Len(handles') \in HandleIds
    BY <2>2, <2>3, EvtAssumption DEF HandleIds
  <2>5. [ucount |-> 0, cardId |-> card[t], evtHandle |-> Len(handles')] \in SlotRecord
    BY <2>4 DEF SlotRecord, TypeOK
  <2>6. slots' \in [Slots -> SlotRecord]
    BY <1>4, <2>5 DEF Create, TypeOK
  <2>7. overlapped' \in BOOLEAN
    BY <1>4, Zenon DEF Create
  <2>8. hnd' \in [Clients -> HandleIds \union {None}]
    BY <1>4, <2>4 DEF Create, TypeOK
  <2>9. Len(handles') <= MaxHandles
    BY <2>2, <2>3, EvtAssumption
  <2>10. QED
    BY <1>4, <2>3, <2>6, <2>7, <2>8, <2>9 DEF Create, Goto, TypeOK
<1>5. ASSUME handles' \in Seq(HandleRecord) /\ Len(handles') = Len(handles),
             UNCHANGED <<slots, plugged, granted, overlapped>>,
             stale' \in [Clients -> SUBSET Cards],
             missed' \in [Clients -> SUBSET Cards], crashed' \in BOOLEAN,
             pc' \in [Clients -> {"idle", "search", "take", "create", "hook", "event", "join",
                                  "joinNew", "count"}],
             card' \in [Clients -> Cards], idx' \in [Clients -> Slots],
             hnd' \in [Clients -> HandleIds \union {None}]
      PROVE  TypeOK'
  BY <1>5 DEF TypeOK
<1>6. ASSUME NEW t \in Clients, Hook(t) PROVE TypeOK'
  <2>1. /\ handles' = [h \in DOMAIN handles |-> handles'[h]]
        /\ \A h \in DOMAIN handles : handles'[h] \in HandleRecord
    BY <1>0, <1>6 DEF Hook, HandleRecord
  <2>2. handles' \in Seq(HandleRecord) /\ Len(handles') = Len(handles)
    BY <2>1, HandlesUpdated
  <2>3. QED
    BY <1>5, <1>6, <2>2 DEF Hook, Goto, TypeOK
<1>7. ASSUME NEW t \in Clients, MakeEvent(t) PROVE TypeOK'
  <2>1. /\ handles' = [h \in DOMAIN handles |-> handles'[h]]
        /\ \A h \in DOMAIN handles : handles'[h] \in HandleRecord
    BY <1>0, <1>7 DEF MakeEvent, HandleRecord
  <2>2. handles' \in Seq(HandleRecord) /\ Len(handles') = Len(handles)
    BY <2>1, HandlesUpdated
  <2>3. QED
    BY <1>5, <1>7, <2>2 DEF MakeEvent, Goto, TypeOK
<1>8. ASSUME NEW t \in Clients, Join(t) PROVE TypeOK'
  <2>1. /\ handles' = [h \in DOMAIN handles |-> handles'[h]]
        /\ \A h \in DOMAIN handles : handles'[h] \in HandleRecord
    BY <1>0, <1>8 DEF Join, HandleRecord
  <2>2. handles' \in Seq(HandleRecord) /\ Len(handles') = Len(handles)
    BY <2>1, HandlesUpdated
  <2>3. QED
    BY <1>5, <1>8, <2>2 DEF Join, Goto, TypeOK
<1>9. ASSUME NEW t \in Clients, Fail(t) PROVE TypeOK'
  <2>1. /\ handles' = [h \in DOMAIN handles |-> handles'[h]]
        /\ \A h \in DOMAIN handles : handles'[h] \in HandleRecord
    <3>1. handles \in Seq(HandleRecord)
      BY DEF TypeOK
    <3>2. handles = [h \in DOMAIN handles |-> handles[h]]
      BY <3>1
    <3>3. CASE handles' = handles
      BY <1>0, <3>2, <3>3
    <3>4. CASE handles' = [handles EXCEPT ![hnd[t]].open = FALSE]
      BY <1>0, <3>4 DEF HandleRecord
    <3>5. QED
      BY <1>9, <3>3, <3>4 DEF Fail
  <2>2. handles' \in Seq(HandleRecord) /\ Len(handles') = Len(handles)
    BY <2>1, HandlesUpdated
  <2>3. QED
    BY <1>0, <1>5, <1>9, <2>2 DEF Fail, Answer, Goto, TypeOK
<1>10. ASSUME NEW t \in Clients, Count(t) PROVE TypeOK'
  <2>1. slots' \in [Slots -> SlotRecord]
    BY <1>10 DEF Count, TypeOK, SlotRecord
  <2>2. /\ granted' \in [Clients -> SUBSET Cards] /\ stale' \in [Clients -> SUBSET Cards]
        /\ missed' \in [Clients -> SUBSET Cards]
    BY <1>10 DEF Count, TypeOK
  <2>3. QED
    BY <1>0, <1>10, <2>1, <2>2 DEF Count, Answer, Goto, TypeOK
<1>11. ASSUME NEW c \in Cards, Change(c) PROVE TypeOK'
  <2>1. /\ handles' = [h \in DOMAIN handles |-> handles'[h]]
        /\ \A h \in DOMAIN handles : handles'[h] \in HandleRecord
    BY <1>0, <1>11 DEF Change, HandleRecord
  <2>2. handles' \in Seq(HandleRecord) /\ Len(handles') = Len(handles)
    BY <2>1, HandlesUpdated
  <2>3. stale' \in [Clients -> SUBSET Cards] /\ missed' \in [Clients -> SUBSET Cards]
    BY <1>11 DEF Change, TypeOK
  <2>4. QED
    BY <1>5, <1>11, <2>2, <2>3 DEF Change, TypeOK
<1>12. ASSUME NEW c \in Cards, Unplug(c) PROVE TypeOK'
  <2>1. /\ handles' = [h \in DOMAIN handles |-> handles'[h]]
        /\ \A h \in DOMAIN handles : handles'[h] \in HandleRecord
    BY <1>0, <1>12 DEF Unplug, HandleRecord
  <2>2. handles' \in Seq(HandleRecord) /\ Len(handles') = Len(handles)
    BY <2>1, HandlesUpdated
  <2>3. QED
    BY <1>12, <2>2 DEF Unplug, TypeOK
<1>13. ASSUME NEW h \in HandleIds, Handle(h) PROVE TypeOK'
  <2>1. CASE Crash(h)
    BY <1>5, <2>1 DEF Crash, TypeOK
  <2>2. CASE Fire(h) \/ FireFails(h)
    <3>1. /\ handles' = [g \in DOMAIN handles |-> handles'[g]]
          /\ \A g \in DOMAIN handles : handles'[g] \in HandleRecord
      <4>1. handles' = [handles EXCEPT ![h].queued = FALSE]
        BY <2>2 DEF Fire, FireFails
      <4>2. QED
        BY <1>0, <4>1 DEF HandleRecord
    <3>2. handles' \in Seq(HandleRecord) /\ Len(handles') = Len(handles)
      BY <3>1, HandlesUpdated
    <3>3. handles[h].card \in Cards
      BY <1>0, <2>2 DEF Fire, FireFails, Readable, HandleRecord
    <3>4. stale' \in [Clients -> SUBSET Cards] /\ missed' \in [Clients -> SUBSET Cards]
      <4>1. \A S \in [Clients -> SUBSET Cards] : Told(h, S) \in [Clients -> SUBSET Cards]
        BY DEF Told
      <4>2. Lost(h) \in [Clients -> SUBSET Cards]
        BY <3>3 DEF Lost, TypeOK
      <4>3. stale \in [Clients -> SUBSET Cards] /\ missed \in [Clients -> SUBSET Cards]
        BY DEF TypeOK
      <4>4. /\ stale' \in {stale, Told(h, stale)}
            /\ missed' \in {Told(h, missed), Lost(h)}
        BY <2>2 DEF Fire, FireFails
      <4>5. QED
        BY <4>1, <4>2, <4>3, <4>4
    <3>5. QED
      BY <1>5, <2>2, <3>2, <3>4 DEF Fire, FireFails, TypeOK
  <2>3. QED
    BY <1>13, <2>1, <2>2 DEF Handle
<1>14. CASE UNCHANGED vars
  BY <1>14 DEF vars, TypeOK
<1>15. QED
  BY <1>1, <1>2, <1>3, <1>4, <1>6, <1>7, <1>8, <1>9, <1>10, <1>11, <1>12, <1>13, <1>14
     DEF Next, Step

-----------------------------------------------------------------------------
(* The card and the event loop change nothing that requests rely on. *)
LEMMA WorldUndisturbed ==
  ASSUME TypeOK, Undisturbed,
         UNCHANGED <<slots, requests, granted>>,
         DOMAIN handles' = DOMAIN handles,
         \A h \in DOMAIN handles :
            /\ handles'[h].card = handles[h].card /\ handles'[h].src = handles[h].src
            /\ handles'[h].listeners = handles[h].listeners
            /\ Alive(h) => Alive(h)'
  PROVE  Undisturbed'
<1>1. UNCHANGED <<slots, pc, card, idx, hnd, granted>>
  BY DEF requests
<1>2. Alone'
  BY <1>1 DEF Undisturbed, Alone, Filling, Relies
<1>3. SlotsOK'
  BY <1>1 DEF Undisturbed, SlotsOK
<1>4. RequestsOK'
  <2> SUFFICES ASSUME NEW t \in Clients PROVE SlotHeld(t)' /\ HandleHeld(t)' /\ HandleNew(t)'
    BY DEF RequestsOK
  <2>1. SlotHeld(t) /\ HandleHeld(t) /\ HandleNew(t)
    BY DEF Undisturbed, RequestsOK
  <2>2. SlotHeld(t)'
    BY <1>1, <2>1 DEF SlotHeld, Relies
  <2>3. HandleHeld(t)'
    BY <1>1, <2>1 DEF HandleHeld, New
  <2>4. HandleNew(t)'
    BY <1>1, <2>1 DEF HandleNew, HandleHeld, New, Filling
  <2>5. QED
    BY <2>2, <2>3, <2>4
<1>5. Listening'
  BY <1>1 DEF Undisturbed, Listening
<1>6. QED
  BY <1>2, <1>3, <1>4, <1>5 DEF Undisturbed

(* A request that does not change the evtHandles and the slots. *)
LEMMA RequestUndisturbed ==
  ASSUME TypeOK, Undisturbed, NEW t \in Clients,
         \/ \E c \in Cards : Request(t, c)
         \/ Search(t) /\ ~overlapped'
         \/ Take(t)
         \/ Fail(t) /\ pc[t] = "join"
  PROVE  Undisturbed'
<1>0. /\ UNCHANGED <<slots, handles, plugged, granted>>
      /\ DOMAIN handles = 1 .. Len(handles)
      /\ pc \in [Clients -> {"idle", "search", "take", "create", "hook", "event",
                           "join", "joinNew", "count"}]
      /\ card \in [Clients -> Cards] /\ idx \in [Clients -> Slots]
      /\ hnd \in [Clients -> HandleIds \union {None}]
  BY HandlesTyped DEF Request, Search, Take, Fail, TypeOK, world
<1>1. \A u \in Clients \ {t} : /\ pc'[u] = pc[u] /\ card'[u] = card[u] /\ idx'[u] = idx[u]
                               /\ hnd'[u] = hnd[u]
  BY <1>0 DEF Request, Search, Take, Fail, Answer, Goto
<1>2. \A u \in Clients \ {t} : /\ Relies(u)' <=> Relies(u)
                               /\ Filling(u)' <=> Filling(u)
  BY <1>0, <1>1 DEF Relies, Filling
<1>3. pc'[t] # "count" /\ ~New(t)' /\ pc[t] # "count"
  BY <1>0 DEF Request, Search, Take, Fail, Answer, Goto, New
<1>4. SlotsOK'
  BY <1>0 DEF Undisturbed, SlotsOK, Alive
<1>5. Listening'
  BY <1>0, <1>1, <1>3, HandlesTyped DEF Undisturbed, Listening, HandleRecord
<1>6. ASSUME NEW u \in Clients, u # t PROVE SlotHeld(u)' /\ HandleHeld(u)' /\ HandleNew(u)'
  <2>1. SlotHeld(u) /\ HandleHeld(u) /\ HandleNew(u)
    BY DEF Undisturbed, RequestsOK
  <2>2. SlotHeld(u)'
    BY <1>0, <1>1, <1>2, <1>6, <2>1 DEF SlotHeld
  <2>3. HandleHeld(u)'
    BY <1>0, <1>1, <1>6, <2>1 DEF HandleHeld, New, Alive
  <2>4. HandleNew(u)'
    BY <1>0, <1>1, <1>2, <1>6, <2>1 DEF HandleNew, New
  <2>5. QED
    BY <2>2, <2>3, <2>4
<1>7. CASE (\E c \in Cards : Request(t, c)) \/ Fail(t)
  <2>1. pc'[t] \in {"idle", "search"}
    BY <1>0, <1>7 DEF Request, Fail, Answer, Goto
  <2>2. ~Filling(t)' /\ ~Relies(t)'
    BY <2>1 DEF Filling, Relies
  <2>3. SlotHeld(t)' /\ HandleHeld(t)' /\ HandleNew(t)'
    BY <2>1, <2>2 DEF SlotHeld, HandleHeld, HandleNew, New
  <2>4. Alone'
    BY <1>1, <1>2, <2>2 DEF Undisturbed, Alone
  <2>5. QED
    BY <1>4, <1>5, <1>6, <2>3, <2>4 DEF Undisturbed, RequestsOK
<1>8. CASE Search(t) /\ ~overlapped'
  <2> DEFINE M == {i \in Slots : InUse(i, card[t])}
  <2>1. /\ \/ M # {} /\ idx'[t] = First(M) /\ pc'[t] = "take"
           \/ M = {} /\ pc'[t] = "create"
        /\ card'[t] = card[t]
    BY <1>0, <1>8 DEF Search, Goto
  <2>2. M # {} => First(M) \in M
    BY FirstSlot
  <2>3. pc'[t] = "take" => slots[idx'[t]].ucount > 0 /\ slots[idx'[t]].cardId = card[t]
    BY <2>1, <2>2 DEF InUse
  <2>4. pc'[t] \in {"take", "create"} /\ \A u \in Clients \ {t} : ~Filling(u)
    BY <1>8, <2>1 DEF Search
  <2> HIDE DEF M
  <2>5. SlotHeld(t)' /\ HandleHeld(t)' /\ HandleNew(t)'
    BY <1>0, <2>1, <2>3, <2>4 DEF SlotHeld, HandleHeld, HandleNew, New, Filling
  <2>6. Alone'
    BY <1>1, <1>2, <2>4 DEF Alone, Filling
  <2>7. QED
    BY <1>4, <1>5, <1>6, <2>5, <2>6 DEF Undisturbed, RequestsOK
<1>9. CASE Take(t)
  <2>1. /\ pc[t] = "take" /\ pc'[t] = "join" /\ hnd'[t] = slots[idx[t]].evtHandle
        /\ card'[t] = card[t] /\ idx'[t] = idx[t] /\ idx[t] \in Slots
    BY <1>0, <1>9 DEF Take, Goto
  <2>2. slots[idx[t]].ucount > 0 /\ slots[idx[t]].cardId = card[t]
    BY <2>1 DEF Undisturbed, RequestsOK, SlotHeld, Relies
  <2>3. /\ hnd'[t] \in DOMAIN handles /\ handles[hnd'[t]].card = card[t]
        /\ handles[hnd'[t]].src /\ (handles[hnd'[t]].open \/ handles[hnd'[t]].card \notin plugged)
    BY <2>1, <2>2 DEF Undisturbed, SlotsOK, Alive
  <2>4. ~Filling(t)' /\ ~Filling(t) /\ Relies(t)' /\ Relies(t)
    BY <2>1 DEF Filling, Relies
  <2>5. SlotHeld(t)' /\ HandleHeld(t)' /\ HandleNew(t)'
    BY <1>0, <2>1, <2>2, <2>3, <2>4 DEF SlotHeld, HandleHeld, HandleNew, New, Alive
  <2>6. Alone'
    BY <1>1, <1>2, <2>4 DEF Undisturbed, Alone
  <2>7. QED
    BY <1>4, <1>5, <1>6, <2>5, <2>6 DEF Undisturbed, RequestsOK
<1>10. QED
  BY <1>7, <1>8, <1>9

(* While a request fills a slot nobody else relies on one. *)
LEMMA NobodyElse ==
  ASSUME TypeOK, Undisturbed, NEW t \in Clients,
         \/ Filling(t) /\ pc[t] # "create"
         \/ Create(t) /\ ~overlapped'
  PROVE  \A u \in Clients \ {t} : ~Relies(u)
<1>1. CASE Filling(t) /\ pc[t] # "create"
  BY <1>1 DEF Undisturbed, Alone
<1>2. CASE Create(t) /\ ~overlapped'
  BY <1>2 DEF Create
<1>3. QED
  BY <1>1, <1>2

(* If one request alone relies on a slot after a step, it is the only one to *)
(* look at.                                                                  *)
LEMMA OnlyOne ==
  ASSUME NEW t \in Clients, \A u \in Clients \ {t} : ~Relies(u)',
         SlotHeld(t)', HandleHeld(t)', HandleNew(t)'
  PROVE  Alone' /\ RequestsOK'
<1>1. \A u \in Clients : Filling(u)' => Relies(u)'
  BY DEF Filling, Relies
<1>2. Alone'
  BY <1>1 DEF Alone
<1>3. ASSUME NEW u \in Clients, u # t PROVE SlotHeld(u)' /\ HandleHeld(u)' /\ HandleNew(u)'
  <2>1. ~Relies(u)' /\ ~Filling(u)' /\ pc'[u] \in {"idle", "search"}
    BY <1>1, <1>3 DEF Relies
  <2>2. QED
    BY <2>1 DEF SlotHeld, HandleHeld, HandleNew, New
<1>4. QED
  BY <1>2, <1>3 DEF RequestsOK

(* A request that fills a slot, up to its answer. *)
LEMMA FillerUndisturbed ==
  ASSUME TypeOK, Undisturbed, NEW t \in Clients,
         \/ Create(t) /\ ~overlapped'
         \/ Hook(t)
         \/ MakeEvent(t)
         \/ Fail(t) /\ pc[t] # "join"
         \/ Join(t) /\ pc[t] = "joinNew"
         \/ Count(t) /\ slots[idx[t]].ucount = 0
  PROVE  Undisturbed'
<1>0. /\ plugged' = plugged /\ idx[t] \in Slots
      /\ DOMAIN handles = 1 .. Len(handles) /\ Len(handles) \in Nat
      /\ pc \in [Clients -> {"idle", "search", "take", "create", "hook", "event",
                           "join", "joinNew", "count"}]
      /\ card \in [Clients -> Cards] /\ idx \in [Clients -> Slots]
      /\ hnd \in [Clients -> HandleIds \union {None}]
      /\ slots \in [Slots -> SlotRecord] /\ granted \in [Clients -> SUBSET Cards]
      /\ \A h \in DOMAIN handles : handles[h] \in HandleRecord
  BY HandlesTyped, EvtAssumption
     DEF Create, Hook, MakeEvent, Fail, Join, Count, TypeOK, world
<1>1. \A u \in Clients \ {t} : /\ pc'[u] = pc[u] /\ card'[u] = card[u] /\ idx'[u] = idx[u]
                               /\ hnd'[u] = hnd[u]
  BY <1>0 DEF Create, Hook, MakeEvent, Fail, Join, Count, Answer, Goto
<1>2. pc[t] # "create" => Filling(t)
  BY DEF Create, Hook, MakeEvent, Fail, Join, Count, Filling
<1>3. \A u \in Clients \ {t} : ~Relies(u)
  <2>1. CASE pc[t] # "create"
    BY <1>2, <2>1, NobodyElse
  <2>2. CASE pc[t] = "create"
    <3>1. Create(t) /\ ~overlapped'
      BY <2>2 DEF Create, Hook, MakeEvent, Fail, Join, Count
    <3>2. QED
      BY <3>1, NobodyElse
  <2>3. QED
    BY <2>1, <2>2
<1>4. \A u \in Clients \ {t} : ~Relies(u)'
  BY <1>1, <1>3 DEF Relies
<1>5. SlotHeld(t) /\ HandleHeld(t) /\ HandleNew(t) /\ SlotsOK /\ Listening
  BY DEF Undisturbed, RequestsOK
<1>6. ASSUME SlotsOK', SlotHeld(t)', HandleHeld(t)', HandleNew(t)', Listening'
      PROVE  Undisturbed'
  <2>1. Alone' /\ RequestsOK'
    BY <1>4, <1>6, OnlyOne
  <2>2. QED
    BY <1>6, <2>1 DEF Undisturbed
<1>7. ASSUME pc'[t] = "idle" PROVE SlotHeld(t)' /\ HandleHeld(t)' /\ HandleNew(t)'
  BY <1>7 DEF SlotHeld, HandleHeld, HandleNew, New, Relies, Filling
<1>8. \A h \in DOMAIN handles : handles[h].listeners \subseteq Clients
  BY <1>0 DEF HandleRecord
<1>9. CASE Create(t)
  <2>1. PICK r \in HandleRecord :
          /\ r.card = card[t] /\ (r.open \/ r.card \notin plugged) /\ r.listeners = {}
          /\ handles' = Append(handles, r)
    <3> DEFINE r == [card |-> card[t], open |-> card[t] \in plugged, src |-> FALSE,
                     afbevt |-> FALSE, queued |-> FALSE, listeners |-> {}]
    <3>1. r \in HandleRecord /\ r.card = card[t] /\ r.listeners = {}
      BY <1>0 DEF HandleRecord
    <3>2. r.open \/ r.card \notin plugged
      BY Zenon
    <3>3. handles' = Append(handles, r)
      BY <1>9 DEF Create
    <3> HIDE DEF r
    <3>4. QED
      BY <3>1, <3>2, <3>3
  <2> DEFINE n == Len(handles) + 1
  <2>3. /\ handles \in Seq(HandleRecord)
        /\ n \in Nat /\ n \notin DOMAIN handles
    BY <1>0 DEF TypeOK
  <2>4. /\ Len(handles') = n /\ DOMAIN handles' = 1 .. n
        /\ handles'[n] = r /\ \A h \in DOMAIN handles : handles'[h] = handles[h]
    BY <1>0, <2>1, <2>3, AppendProperties, LenProperties
  <2>5. /\ pc[t] = "create" /\ pc'[t] = "hook" /\ card'[t] = card[t] /\ idx'[t] = idx[t]
        /\ hnd'[t] = n /\ UNCHANGED granted
        /\ slots'[idx[t]] = [ucount |-> 0, cardId |-> card[t], evtHandle |-> n]
        /\ \A i \in Slots \ {idx[t]} : slots'[i] = slots[i]
    BY <1>0, <1>9, <2>4 DEF Create, Goto
  <2> HIDE DEF n
  <2>6. DOMAIN handles \subseteq DOMAIN handles' /\ n \in DOMAIN handles'
        /\ DOMAIN handles' = DOMAIN handles \union {n}
    BY <1>0, <2>4 DEF n
  <2>7. SlotsOK'
    BY <1>0, <1>5, <2>4, <2>5, <2>6 DEF SlotsOK, Alive
  <2>8. SlotHeld(t)'
    BY <2>5 DEF SlotHeld
  <2>9. HandleHeld(t)'
    BY <1>0, <2>1, <2>4, <2>5, <2>6 DEF HandleHeld, New, Alive
  <2>10. \A i \in Slots : slots'[i].ucount > 0 => slots'[i].evtHandle # n
    BY <1>5, <2>3, <2>5 DEF SlotsOK
  <2>11. HandleNew(t)'
    BY <2>1, <2>4, <2>5, <2>10 DEF HandleNew
  <2>12. Listening'
    BY <1>1, <1>5, <1>8, <2>1, <2>4, <2>5, <2>6 DEF Listening
  <2>13. QED
    BY <1>6, <2>7, <2>8, <2>9, <2>11, <2>12
<1>10. CASE Hook(t) \/ MakeEvent(t) \/ (Fail(t) /\ pc[t] # "join")
  <2>1. New(t)' \/ pc'[t] = "idle"
    BY <1>0, <1>10 DEF Hook, MakeEvent, Fail, Answer, Goto, New
  <2>2. /\ New(t) /\ hnd[t] \in DOMAIN handles /\ slots[idx[t]].ucount = 0
        /\ handles[hnd[t]].listeners = {}
    BY <1>5, <1>10 DEF Hook, MakeEvent, Fail, New, HandleHeld, HandleNew
  <2>3. /\ UNCHANGED <<slots, granted>> /\ DOMAIN handles' = DOMAIN handles
        /\ \A h \in DOMAIN handles :
              /\ handles'[h].card = handles[h].card
              /\ handles'[h].listeners = handles[h].listeners
              /\ h # hnd[t] => handles'[h] = handles[h]
              /\ handles[h].src => handles'[h].src
    <3>1. CASE Hook(t)
      BY <1>0, <2>2, <3>1 DEF Hook, HandleRecord
    <3>2. CASE MakeEvent(t)
      BY <1>0, <2>2, <3>2 DEF MakeEvent, HandleRecord
    <3>3. CASE Fail(t) /\ pc[t] # "join"
      BY <1>0, <2>2, <3>3 DEF Fail, HandleRecord
    <3>4. QED
      BY <1>10, <3>1, <3>2, <3>3
  <2>4. \A i \in Slots : slots[i].ucount > 0 => slots[i].evtHandle # hnd[t]
    BY <1>5, <2>2 DEF HandleNew, New, Filling
  <2>5. SlotsOK'
    BY <1>0, <1>5, <2>3, <2>4 DEF SlotsOK, Alive
  <2>6. pc[t] # "count" /\ pc'[t] # "count"
    BY <2>1, <2>2 DEF New
  <2>7. Listening'
    BY <1>1, <1>5, <1>8, <2>3, <2>6 DEF Listening
  <2>8. CASE pc'[t] = "idle"
    BY <1>6, <1>7, <2>5, <2>7, <2>8
  <2>9. CASE New(t)'
    <3>1. /\ UNCHANGED <<card, idx, hnd>>
          /\ \/ pc[t] = "hook" /\ pc'[t] = "event"
             \/ pc[t] = "event" /\ pc'[t] = "joinNew"
      BY <1>0, <1>10, <2>9 DEF Hook, MakeEvent, Fail, Answer, Goto, New
    <3>2. handles'[hnd[t]].open = handles[hnd[t]].open /\ handles'[hnd[t]].src
      <4>1. CASE Hook(t)
        BY <1>0, <2>2, <4>1 DEF Hook, HandleRecord
      <4>2. CASE MakeEvent(t)
        BY <1>0, <1>5, <2>2, <4>2 DEF MakeEvent, HandleRecord, HandleHeld
      <4>3. QED
        BY <1>0, <1>10, <2>9, <4>1, <4>2 DEF Fail, Answer, Goto, New
    <3>3. SlotHeld(t)'
      BY <1>5, <2>3, <3>1 DEF SlotHeld, Relies
    <3>4. HandleHeld(t)'
      BY <1>0, <1>5, <2>2, <2>3, <3>1, <3>2 DEF HandleHeld, New, Alive
    <3>5. HandleNew(t)'
      BY <2>2, <2>3, <2>4, <3>1 DEF HandleNew
    <3>6. QED
      BY <1>6, <2>5, <2>7, <3>3, <3>4, <3>5
  <2>10. QED
    BY <2>1, <2>8, <2>9
<1>11. CASE Join(t) /\ pc[t] = "joinNew"
  <2>1. /\ UNCHANGED <<slots, granted, card, idx, hnd>> /\ DOMAIN handles' = DOMAIN handles
        /\ pc[t] = "joinNew" /\ pc'[t] = "count" /\ New(t) /\ hnd[t] \in DOMAIN handles
    BY <1>0, <1>5, <1>11 DEF Join, Goto, New, HandleHeld
  <2>2. /\ \A h \in DOMAIN handles : /\ handles'[h].card = handles[h].card
                                     /\ handles'[h].open = handles[h].open
                                     /\ handles'[h].src = handles[h].src
                                     /\ h # hnd[t] => handles'[h] = handles[h]
        /\ handles'[hnd[t]].listeners = handles[hnd[t]].listeners \union {t}
    BY <1>0, <1>11, <2>1 DEF Join, HandleRecord
  <2>3. SlotsOK'
    BY <1>0, <1>5, <2>1, <2>2 DEF SlotsOK, Alive
  <2>4. SlotHeld(t)'
    BY <1>5, <2>1 DEF SlotHeld, Relies
  <2>5. HandleHeld(t)'
    BY <1>0, <1>5, <2>1, <2>2 DEF HandleHeld, New, Alive
  <2>6. HandleNew(t)'
    BY <1>2, <1>5, <2>1 DEF HandleNew, New
  <2>7. handles[hnd[t]].card = card[t]
    BY <1>5, <2>1 DEF HandleHeld
  <2>8. Listening'
    BY <1>1, <1>5, <1>8, <2>1, <2>2, <2>7 DEF Listening
  <2>9. QED
    BY <1>6, <2>3, <2>4, <2>5, <2>6, <2>8
<1>12. CASE Count(t) /\ slots[idx[t]].ucount = 0
  <2>1. /\ UNCHANGED handles /\ pc[t] = "count" /\ pc'[t] = "idle"
        /\ \A i \in Slots : /\ slots'[i].cardId = slots[i].cardId
                            /\ slots'[i].evtHandle = slots[i].evtHandle
                            /\ i # idx[t] => slots'[i] = slots[i]
        /\ \A u \in Clients \ {t} : granted'[u] = granted[u]
        /\ granted'[t] = granted[t] \union {card[t]}
    BY <1>0, <1>12 DEF Count, Answer, Goto, SlotRecord
  <2>2. SlotsOK'
    BY <1>0, <1>5, <2>1 DEF SlotsOK, SlotHeld, HandleHeld, Relies, Alive
  <2>3. Listening'
    BY <1>1, <1>5, <1>8, <2>1 DEF Listening
  <2>4. QED
    BY <1>6, <1>7, <2>1, <2>2, <2>3
<1>13. QED
  BY <1>9, <1>10, <1>11, <1>12

(* A request that joins a subscription found in the table. *)
LEMMA SharerUndisturbed ==
  ASSUME TypeOK, Undisturbed, NEW t \in Clients,
         \/ Join(t) /\ pc[t] = "join"
         \/ Count(t) /\ slots[idx[t]].ucount # 0
  PROVE  Undisturbed'
<1>0. /\ plugged' = plugged /\ idx[t] \in Slots
      /\ pc \in [Clients -> {"idle", "search", "take", "create", "hook", "event",
                           "join", "joinNew", "count"}]
      /\ card \in [Clients -> Cards] /\ idx \in [Clients -> Slots]
      /\ hnd \in [Clients -> HandleIds \union {None}]
      /\ slots \in [Slots -> SlotRecord] /\ granted \in [Clients -> SUBSET Cards]
      /\ \A h \in DOMAIN handles : handles[h] \in HandleRecord
  BY HandlesTyped DEF Join, Count, TypeOK, world
<1>1. \A u \in Clients \ {t} : /\ pc'[u] = pc[u] /\ card'[u] = card[u] /\ idx'[u] = idx[u]
                               /\ hnd'[u] = hnd[u]
  BY <1>0 DEF Join, Count, Answer, Goto
<1>2. /\ pc[t] \in {"join", "count"} /\ hnd[t] \in DOMAIN handles
      /\ handles[hnd[t]].card = card[t] /\ Relies(t)
      /\ SlotHeld(t) /\ HandleHeld(t) /\ HandleNew(t) /\ SlotsOK /\ Listening /\ Alone
  BY DEF Undisturbed, RequestsOK, Join, Count, HandleHeld, Relies
<1>3. ~Filling(t) /\ slots[idx[t]].ucount > 0
  BY <1>0, <1>2 DEF Join, Count, Filling, SlotHeld, SlotRecord
<1>4. /\ DOMAIN handles' = DOMAIN handles
      /\ \A h \in DOMAIN handles :
            /\ handles'[h].card = handles[h].card /\ handles'[h].open = handles[h].open
            /\ handles'[h].src = handles[h].src
            /\ handles'[h].listeners \in {handles[h].listeners,
                                          handles[h].listeners \union {t}}
            /\ h # hnd[t] => handles'[h].listeners = handles[h].listeners
            /\ pc[t] = "count" => handles'[h] = handles[h]
      /\ pc[t] = "join" => t \in handles'[hnd[t]].listeners
  <2>1. CASE Join(t) /\ pc[t] = "join"
    BY <1>0, <1>2, <2>1 DEF Join, HandleRecord
  <2>2. CASE Count(t)
    BY <1>2, <2>2 DEF Join, Count
  <2>3. QED
    BY <2>1, <2>2
<1>5. \A i \in Slots : /\ slots'[i].cardId = slots[i].cardId
                       /\ slots'[i].evtHandle = slots[i].evtHandle
                       /\ slots'[i].ucount > 0 <=> slots[i].ucount > 0
                       /\ slots'[i].ucount = 0 <=> slots[i].ucount = 0
  <2>1. CASE Join(t)
    BY <2>1 DEF Join
  <2>2. CASE Count(t)
    BY <1>0, <1>3, <2>2 DEF Count, SlotRecord
  <2>3. QED
    BY <2>1, <2>2
<1>6. \/ /\ pc[t] = "join" /\ pc'[t] = "count" /\ UNCHANGED granted
         /\ card'[t] = card[t] /\ idx'[t] = idx[t] /\ hnd'[t] = hnd[t]
      \/ /\ pc[t] = "count" /\ pc'[t] = "idle" /\ granted'[t] = granted[t] \union {card[t]}
         /\ \A u \in Clients \ {t} : granted'[u] = granted[u]
  BY <1>0 DEF Join, Count, Answer, Goto
<1>7. \A u \in Clients \ {t} : /\ Relies(u)' <=> Relies(u)
                               /\ Filling(u)' <=> Filling(u)
  BY <1>0, <1>1, <1>5 DEF Relies, Filling
<1>8. ~Filling(t)'
  BY <1>0, <1>3, <1>5, <1>6 DEF Filling
<1>9. \A u \in Clients \ {t} : ~(Filling(u) /\ pc[u] # "create") /\ ~New(u)
  BY <1>2 DEF Alone, New, Filling
<1>10. Alone'
  BY <1>1, <1>2, <1>7, <1>8, <1>9 DEF Alone
<1>11. SlotsOK'
  BY <1>0, <1>2, <1>4, <1>5 DEF SlotsOK, Alive
<1>12. Listening'
  <2> SUFFICES ASSUME NEW h \in DOMAIN handles', NEW u \in handles'[h].listeners
               PROVE  handles'[h].card \in granted'[u]
                      \/ (pc'[u] = "count" /\ card'[u] = handles'[h].card)
    BY DEF Listening
  <2>1. u \in Clients
    BY <1>0, <1>4 DEF HandleRecord
  <2>2. CASE u # t
    BY <1>1, <1>2, <1>4, <1>6, <2>1, <2>2 DEF Listening
  <2>3. CASE u = t /\ pc[t] = "join"
    BY <1>2, <1>4, <1>6, <2>3 DEF Listening
  <2>4. CASE u = t /\ pc[t] = "count"
    BY <1>2, <1>4, <1>6, <2>4 DEF Listening
  <2>5. QED
    BY <1>2, <2>2, <2>3, <2>4
<1>13. ASSUME NEW u \in Clients \ {t} PROVE SlotHeld(u)' /\ HandleHeld(u)' /\ HandleNew(u)'
  <2>1. SlotHeld(u) /\ HandleHeld(u)
    BY DEF Undisturbed, RequestsOK
  <2>2. SlotHeld(u)'
    BY <1>0, <1>1, <1>5, <1>7, <2>1 DEF SlotHeld
  <2>3. HandleHeld(u)'
    BY <1>0, <1>1, <1>4, <1>5, <2>1 DEF HandleHeld, New, Alive
  <2>4. HandleNew(u)'
    BY <1>1, <1>7, <1>9 DEF HandleNew, New
  <2>5. QED
    BY <2>2, <2>3, <2>4
<1>14. SlotHeld(t)' /\ HandleHeld(t)' /\ HandleNew(t)'
  <2>1. CASE pc'[t] = "idle"
    BY <1>8, <2>1 DEF SlotHeld, HandleHeld, HandleNew, New, Relies
  <2>2. CASE pc'[t] = "count"
    <3>1. SlotHeld(t)'
      BY <1>0, <1>2, <1>5, <1>6, <2>2 DEF SlotHeld
    <3>2. HandleHeld(t)'
      BY <1>0, <1>2, <1>4, <1>5, <1>6, <2>2 DEF HandleHeld, New, Alive
    <3>3. HandleNew(t)'
      BY <1>8, <2>2 DEF HandleNew, New
    <3>4. QED
      BY <3>1, <3>2, <3>3
  <2>3. QED
    BY <1>6, <2>1, <2>2
<1>15. QED
  BY <1>10, <1>11, <1>12, <1>13, <1>14 DEF Undisturbed, RequestsOK

(* A step that does not fill a slot under another request disturbs nobody. *)
LEMMA UndisturbedNext ==
  ASSUME TypeOK, Undisturbed, [Next]_vars, ~overlapped'
  PROVE  Undisturbed'
<1> USE DEF requests, world
<1>1. CASE \E t \in Clients, c \in Cards : Request(t, c)
  BY <1>1, RequestUndisturbed
<1>2. ASSUME NEW t \in Clients, Step(t) PROVE Undisturbed'
  <2>1. CASE Search(t) \/ Take(t) \/ (Fail(t) /\ pc[t] = "join")
    BY <2>1, RequestUndisturbed
  <2>2. CASE \/ Create(t) \/ Hook(t) \/ MakeEvent(t) \/ (Fail(t) /\ pc[t] # "join")
             \/ (Join(t) /\ pc[t] = "joinNew") \/ (Count(t) /\ slots[idx[t]].ucount = 0)
    BY <2>2, FillerUndisturbed
  <2>3. CASE (Join(t) /\ pc[t] = "join") \/ (Count(t) /\ slots[idx[t]].ucount # 0)
    BY <2>3, SharerUndisturbed
  <2>4. Join(t) => pc[t] \in {"join", "joinNew"}
    BY DEF Join
  <2>5. QED
    BY <1>2, <2>1, <2>2, <2>3, <2>4 DEF Step
<1>3. ASSUME NEW c \in Cards, Change(c) PROVE Undisturbed'
  <2>1. /\ DOMAIN handles' = DOMAIN handles
        /\ \A h \in DOMAIN handles :
              /\ handles'[h].card = handles[h].card /\ handles'[h].src = handles[h].src
              /\ handles'[h].listeners = handles[h].listeners
              /\ handles'[h].open = handles[h].open
    BY <1>3, HandlesTyped DEF Change, HandleRecord
  <2>2. \A h \in DOMAIN handles : Alive(h) => Alive(h)'
    BY <1>3, <2>1 DEF Alive, Change
  <2>3. QED
    BY <1>3, <2>1, <2>2, WorldUndisturbed DEF Change
<1>4. ASSUME NEW c \in Cards, Unplug(c) PROVE Undisturbed'
  <2>1. /\ DOMAIN handles' = DOMAIN handles
        /\ \A h \in DOMAIN handles :
              /\ handles'[h].card = handles[h].card /\ handles'[h].src = handles[h].src
              /\ handles'[h].listeners = handles[h].listeners
              /\ handles[h].card # c => handles'[h].open = handles[h].open
    <3>1. /\ DOMAIN handles' = DOMAIN handles
          /\ \A h \in DOMAIN handles :
                IF handles[h].card = c
                THEN handles'[h] = [handles[h] EXCEPT !.open = FALSE, !.queued = FALSE]
                ELSE handles'[h] = handles[h]
      BY <1>4 DEF Unplug
    <3>2. ASSUME NEW h \in DOMAIN handles
          PROVE  /\ handles'[h].card = handles[h].card /\ handles'[h].src = handles[h].src
                 /\ handles'[h].listeners = handles[h].listeners
                 /\ handles[h].card # c => handles'[h].open = handles[h].open
      <4>1. handles[h] \in HandleRecord
        BY HandlesTyped
      <4>2. QED
        BY <3>1, <4>1 DEF HandleRecord
    <3>3. QED
      BY <3>1, <3>2
  <2>2. \A h \in DOMAIN handles : Alive(h) => Alive(h)'
    <3>1. plugged' = plugged \ {c}
      BY <1>4 DEF Unplug
    <3>2. QED
      BY <2>1, <3>1 DEF Alive
  <2>3. QED
    BY <1>4, <2>1, <2>2, WorldUndisturbed DEF Unplug
<1>5. ASSUME NEW g \in HandleIds, Handle(g) PROVE Undisturbed'
  <2>1. /\ DOMAIN handles' = DOMAIN handles
        /\ \A h \in DOMAIN handles :
              /\ handles'[h].card = handles[h].card /\ handles'[h].src = handles[h].src
              /\ handles'[h].listeners = handles[h].listeners
              /\ handles'[h].open = handles[h].open
    BY <1>5, HandlesTyped DEF Handle, Fire, FireFails, Crash, HandleRecord
  <2>2. UNCHANGED <<slots, requests, granted, plugged>>
    BY <1>5 DEF Handle, Fire, FireFails, Crash
  <2>3. QED
    BY <2>1, <2>2, WorldUndisturbed DEF Alive
<1>6. CASE UNCHANGED vars
  <2>1. UNCHANGED <<slots, handles, requests, granted, plugged>>
    BY <1>6 DEF vars
  <2>2. QED
    BY <2>1, WorldUndisturbed DEF Alive
<1>7. QED
  BY <1>1, <1>2, <1>3, <1>4, <1>5, <1>6 DEF Next

-----------------------------------------------------------------------------
(* A step that grants nothing keeps the promise if what serves a client goes *)
(* on serving it, and stays queued as long as the client is stale.           *)
LEMMA PendingKept ==
  ASSUME StaleIsPending, ~overlapped, granted' = granted, plugged' \subseteq plugged,
         DOMAIN handles \subseteq DOMAIN handles',
         \A h \in DOMAIN handles : \A t \in Clients : \A c \in plugged' :
            Serves(h, t, c) /\ (c \in stale[t] \ missed[t] => handles[h].queued) =>
                Serves(h, t, c)' /\ (c \in stale'[t] \ missed'[t] => handles'[h].queued)
  PROVE  StaleIsPending'
<1> SUFFICES ASSUME NEW t \in Clients, NEW c \in granted[t] \intersect plugged'
             PROVE  \E h \in DOMAIN handles' :
                       Serves(h, t, c)' /\ (c \in stale'[t] \ missed'[t] => handles'[h].queued)
  BY DEF StaleIsPending
<1>1. PICK h \in DOMAIN handles :
         Serves(h, t, c) /\ (c \in stale[t] \ missed[t] => handles[h].queued)
  BY DEF StaleIsPending
<1>2. QED
  BY <1>1

(* Such a step keeps the promise to those who miss a change. *)
LEMMA PendingNext ==
  ASSUME TypeOK, Undisturbed, StaleIsPending, [Next]_vars, ~overlapped, ~overlapped'
  PROVE  StaleIsPending'
<1> USE DEF requests, world
<1>0. /\ \A h \in DOMAIN handles : handles[h] \in HandleRecord
      /\ DOMAIN handles = 1 .. Len(handles) /\ Len(handles) \in Nat
      /\ stale \in [Clients -> SUBSET Cards] /\ granted \in [Clients -> SUBSET Cards]
      /\ missed \in [Clients -> SUBSET Cards]
  BY HandlesTyped DEF TypeOK
<1>1. CASE UNCHANGED <<handles, plugged, stale, missed, granted>>
  BY <1>1, PendingKept DEF Serves
<1>2. ASSUME NEW t \in Clients, Create(t) PROVE StaleIsPending'
  <2>1. PICK r : handles' = Append(handles, r)
    BY <1>2 DEF Create
  <2>2. DOMAIN handles \subseteq DOMAIN handles'
        /\ \A h \in DOMAIN handles : handles'[h] = handles[h]
    BY <1>0, <2>1 DEF TypeOK
  <2>3. UNCHANGED <<plugged, stale, missed, granted>>
    BY <1>2 DEF Create
  <2>4. QED
    BY <2>2, <2>3, PendingKept DEF Serves
<1>3. ASSUME NEW t \in Clients,
             Hook(t) \/ MakeEvent(t) \/ Join(t) \/ (Fail(t) /\ pc[t] # "join")
      PROVE  StaleIsPending'
  <2>1. UNCHANGED <<plugged, stale, missed, granted>>
    BY <1>3 DEF Hook, MakeEvent, Join, Fail
  <2>2. /\ DOMAIN handles' = DOMAIN handles
        /\ \A h \in DOMAIN handles :
              /\ handles'[h].card = handles[h].card
              /\ handles[h].src => handles'[h].src
              /\ handles[h].listeners \subseteq handles'[h].listeners
              /\ handles'[h].queued = handles[h].queued
              /\ \/ handles'[h].open = handles[h].open
                 \/ h = hnd[t] /\ New(t)
    <3>1. CASE Hook(t)
      BY <1>0, <3>1 DEF Hook, HandleRecord
    <3>2. CASE MakeEvent(t)
      BY <1>0, <3>2 DEF MakeEvent, HandleRecord
    <3>3. CASE Join(t)
      BY <1>0, <3>3 DEF Join, HandleRecord
    <3>4. CASE Fail(t) /\ pc[t] # "join"
      BY <1>0, <3>4 DEF Fail, HandleRecord, New
    <3>5. QED
      BY <1>3, <3>1, <3>2, <3>3, <3>4
  <2>3. New(t) => handles[hnd[t]].listeners = {}
    BY DEF Undisturbed, RequestsOK, HandleNew
  <2>4. QED
    BY <2>1, <2>2, <2>3, PendingKept DEF Serves
<1>4. ASSUME NEW t \in Clients, Count(t) PROVE StaleIsPending'
  <2>1. /\ UNCHANGED <<handles, plugged>> /\ pc[t] = "count"
        /\ \A u \in Clients \ {t} : /\ granted'[u] = granted[u]
                                     /\ stale'[u] = stale[u] /\ missed'[u] = missed[u]
        /\ granted'[t] = granted[t] \union {card[t]}
        /\ stale'[t] = stale[t] \ {card[t]} /\ missed'[t] = missed[t] \ {card[t]}
    BY <1>0, <1>4 DEF Count
  <2>2. /\ hnd[t] \in DOMAIN handles /\ handles[hnd[t]].card = card[t] /\ Alive(hnd[t])
        /\ handles[hnd[t]].src /\ t \in handles[hnd[t]].listeners
    BY <2>1 DEF Undisturbed, RequestsOK, HandleHeld
  <2> SUFFICES ASSUME NEW u \in Clients, NEW c \in granted'[u] \intersect plugged
               PROVE  \E h \in DOMAIN handles :
                         Serves(h, u, c) /\ (c \in stale'[u] \ missed'[u] => handles[h].queued)
    BY <2>1 DEF StaleIsPending, Serves
  <2>3. CASE u = t /\ c = card[t]
    BY <2>1, <2>2, <2>3 DEF Serves, Alive
  <2>4. CASE ~(u = t /\ c = card[t])
    <3>1. c \in granted[u] /\ (c \in stale'[u] \ missed'[u] => c \in stale[u] \ missed[u])
      BY <2>1, <2>4
    <3>2. QED
      BY <3>1 DEF StaleIsPending
  <2>5. QED
    BY <2>3, <2>4
<1>5. ASSUME NEW c \in Cards, Change(c) PROVE StaleIsPending'
  <2>1. /\ UNCHANGED <<plugged, granted>> /\ DOMAIN handles' = DOMAIN handles
        /\ \A h \in DOMAIN handles :
              /\ handles'[h].card = handles[h].card /\ handles'[h].src = handles[h].src
              /\ handles'[h].listeners = handles[h].listeners
              /\ handles'[h].open = handles[h].open
              /\ handles[h].queued => handles'[h].queued
              /\ handles[h].card = c /\ handles[h].open /\ handles[h].src
                    => handles'[h].queued
    BY <1>0, <1>5 DEF Change, HandleRecord
  <2>2. \A t \in Clients : \A d \in stale'[t] \ missed'[t] : d # c => d \in stale[t] \ missed[t]
    BY <1>5 DEF Change
  <2>3. QED
    BY <2>1, <2>2, PendingKept DEF Serves
<1>6. ASSUME NEW c \in Cards, Unplug(c) PROVE StaleIsPending'
  <2>1. /\ UNCHANGED <<stale, missed, granted>> /\ plugged' = plugged \ {c}
        /\ DOMAIN handles' = DOMAIN handles
        /\ \A h \in DOMAIN handles : handles[h].card # c => handles'[h] = handles[h]
    BY <1>6 DEF Unplug
  <2>2. QED
    BY <2>1, PendingKept DEF Serves
<1>7. ASSUME NEW g \in HandleIds, Handle(g) PROVE StaleIsPending'
  <2>1. CASE Crash(g)
    BY <1>1, <2>1 DEF Crash
  <2>2. CASE Fire(g) \/ FireFails(g)
    <3>1. /\ UNCHANGED <<plugged, granted>> /\ DOMAIN handles' = DOMAIN handles
          /\ g \in DOMAIN handles
          /\ \A h \in DOMAIN handles :
                /\ handles'[h].card = handles[h].card /\ handles'[h].src = handles[h].src
                /\ handles'[h].listeners = handles[h].listeners
                /\ handles'[h].open = handles[h].open
                /\ h # g => handles'[h].queued = handles[h].queued
      BY <1>0, <2>2 DEF Fire, FireFails, Readable, HandleRecord
    <3>2. ASSUME NEW t \in Clients, NEW c, c \in stale'[t] \ missed'[t]
          PROVE  /\ c \in stale[t] \ missed[t]
                 /\ t \in handles[g].listeners => c # handles[g].card
      <4>1. CASE Fire(g)
        <5>1. stale'[t] = Told(g, stale)[t] /\ missed'[t] = Told(g, missed)[t]
          BY <4>1 DEF Fire
        <5>2. QED
          BY <3>2, <5>1 DEF Told
      <4>2. CASE FireFails(g)
        <5>1. stale'[t] = stale[t] /\ missed'[t] = Lost(g)[t]
          BY <4>2 DEF FireFails
        <5>2. QED
          BY <3>2, <5>1 DEF Lost
      <4>3. QED
        BY <2>2, <4>1, <4>2
    <3>3. QED
      BY <3>1, <3>2, PendingKept DEF Serves
  <2>3. QED
    BY <1>7, <2>1, <2>2 DEF Handle
<1>8. ASSUME NEW t \in Clients, Step(t) PROVE StaleIsPending'
  <2>1. CASE Search(t) \/ Take(t) \/ (Fail(t) /\ pc[t] = "join")
    BY <1>1, <2>1 DEF Search, Take, Fail
  <2>2. QED
    BY <1>2, <1>3, <1>4, <1>8, <2>1 DEF Step
<1>9. CASE (\E t \in Clients, c \in Cards : Request(t, c)) \/ UNCHANGED vars
  BY <1>1, <1>9 DEF Request, vars
<1>10. QED
  BY <1>5, <1>6, <1>7, <1>8, <1>9 DEF Next

-----------------------------------------------------------------------------
(* The inductive invariant holds of the first states and of every next one. *)
LEMMA InitIInv == Init => IInv
<1> SUFFICES ASSUME Init PROVE IInv
  OBVIOUS
<1>1. TypeOK
  <2>1. /\ handles \in Seq(HandleRecord) /\ Len(handles) <= MaxHandles
    BY EvtAssumption DEF Init
  <2>2. slots \in [Slots -> SlotRecord]
    BY EvtAssumption DEF Init, SlotRecord
  <2>3. 0 \in Slots /\ 0 \in Cards
    BY EvtAssumption DEF Slots
  <2>4. overlapped \in BOOLEAN
    BY DEF Init
  <2>5. /\ pc \in [Clients -> {"idle", "search", "take", "create", "hook", "event",
                              "join", "joinNew", "count"}]
        /\ card \in [Clients -> Cards] /\ idx \in [Clients -> Slots]
        /\ hnd \in [Clients -> HandleIds \union {None}]
    BY <2>3 DEF Init
  <2>6. QED
    BY <2>1, <2>2, <2>4, <2>5 DEF Init, TypeOK
<1>2. DOMAIN handles = {}
  BY DEF Init
<1>3. \A t \in Clients : pc[t] = "idle" /\ granted[t] = {}
  BY DEF Init
<1>4. \A i \in Slots : slots[i].ucount = 0
  BY DEF Init
<1>5. Alone
  BY <1>3 DEF Alone, Filling
<1>6. SlotsOK
  BY <1>4 DEF SlotsOK
<1>7. RequestsOK
  BY <1>3 DEF RequestsOK, SlotHeld, HandleHeld, HandleNew, New, Relies, Filling
<1>8. Listening
  BY <1>2 DEF Listening
<1>9. StaleIsPending
  BY <1>3 DEF StaleIsPending
<1>10. QED
  BY <1>1, <1>5, <1>6, <1>7, <1>8, <1>9 DEF IInv, Undisturbed

(* Every step keeps the inductive invariant. *)
LEMMA NextIInv == IInv /\ [Next]_vars => IInv'
<1> SUFFICES ASSUME IInv, [Next]_vars PROVE IInv'
  OBVIOUS
<1>1. TypeOK /\ TypeOK'
  BY TypeOKNext DEF IInv
<1>2. overlapped => overlapped'
  <2>1. CASE \E t \in Clients : Search(t)
    BY <2>1, Zenon DEF Search
  <2>2. CASE \E t \in Clients : Create(t)
    BY <2>2, Zenon DEF Create
  <2>3. CASE UNCHANGED overlapped
    BY <2>3
  <2>4. (\E t \in Clients, c \in Cards : Request(t, c)) => UNCHANGED overlapped
    BY DEF Request
  <2>5. \A t \in Clients : Take(t) \/ Hook(t) \/ MakeEvent(t) \/ Join(t) \/ Fail(t) \/ Count(t)
                              => UNCHANGED overlapped
    BY DEF Take, Hook, MakeEvent, Join, Fail, Count
  <2>6. (\E c \in Cards : Change(c) \/ Unplug(c)) => UNCHANGED overlapped
    BY DEF Change, Unplug
  <2>7. (\E h \in HandleIds : Handle(h)) => UNCHANGED overlapped
    BY DEF Handle, Fire, FireFails, Crash
  <2>8. UNCHANGED vars => UNCHANGED overlapped
    BY DEF vars
  <2>9. QED
    BY <2>1, <2>2, <2>3, <2>4, <2>5, <2>6, <2>7, <2>8 DEF Next, Step
<1>3. CASE overlapped'
  BY <1>1, <1>3 DEF IInv, StaleIsPending
<1>4. CASE ~overlapped'
  <2>1. ~overlapped /\ Undisturbed /\ StaleIsPending
    BY <1>2, <1>4 DEF IInv
  <2>2. Undisturbed'
    BY <1>1, <1>4, <2>1, UndisturbedNext
  <2>3. StaleIsPending'
    BY <1>1, <1>4, <2>1, PendingNext
  <2>4. QED
    BY <1>1, <2>2, <2>3 DEF IInv
<1>5. QED
  BY <1>3, <1>4

(* The inductive invariant, of every behaviour. *)
THEOREM Invariant == Spec => []IInv
<1>1. Init => IInv
  BY InitIInv
<1>2. IInv /\ [Next]_vars => IInv'
  BY NextIInv
<1>3. QED
  BY <1>1, <1>2, PTL DEF Spec

(* Every slot, evtHandle and request has its type in every state; in          *)
(* particular no request ever indexes the table past MAX_SND_CARD.            *)
THEOREM TypeCorrect == Spec => []TypeOK
<1>1. IInv => TypeOK
  BY DEF IInv
<1>2. QED
  BY <1>1, Invariant, PTL

(* As long as no slot was filled under another request, a client that was     *)
(* answered with a success listens to an open device of the card, while the   *)
(* card is there; and when it has not been told of a change, an event waits in *)
(* that device, unless one was taken and the control could not be read, which  *)
(* is the only way a client loses a change.                                    *)
THEOREM StaleIsTold == Spec => []StaleIsPending
<1>1. IInv => StaleIsPending
  BY DEF IInv
<1>2. QED
  BY <1>1, Invariant, PTL

(* Under the same condition nobody is told of a card it did not ask for. *)
THEOREM OwnBoards == Spec => []OwnBoardsOnly
<1>1. IInv => OwnBoardsOnly
  <2> SUFFICES ASSUME TypeOK, Listening PROVE OwnBoardsOnly
    BY DEF IInv, Undisturbed, OwnBoardsOnly
  <2>1. QED
    BY DEF Listening, OwnBoardsOnly
<1>2. QED
  BY <1>1, Invariant, PTL

=============================================================================
