--------------------------- MODULE UcmCache_proofs ---------------------------
(***************************************************************************)
(* Proofs about UcmCache for any number of requests, cards and slots.      *)
(***************************************************************************)
EXTENDS UcmCache, WellFoundedInduction, TLAPS

ManagerRecord == [card : Cards, open : BOOLEAN, setup : Setups]

(* A manager that a slot or a request has in hand was opened. *)
HasManager ==
    /\ \A i \in Slots : ucm[i] # None => ucm[i] \in DOMAIN managers
    /\ \A t \in Threads :
          /\ pc[t] \in {"storeUcm", "storeCard", "work", "device", "modifier", "end"}
                => mgr[t] \in DOMAIN managers
          /\ pc[t] \in {"storeCard", "load"} => ucm[idx[t]] # None

(* One request at a time opens a manager: of a card that has none, for a    *)
(* slot that is empty.                                                      *)
OneOpening ==
    /\ \A t, u \in Threads : Opening(t) /\ Opening(u) => t = u
    /\ \A t \in Threads :
          /\ pc[t] \in {"open", "storeUcm"} => ucm[idx[t]] = None
          /\ pc[t] = "open" => \A m \in DOMAIN managers : managers[m].card # card[t]
          /\ pc[t] = "storeUcm" => \A i \in Slots : ucm[i] # mgr[t]
          /\ pc[t] = "storeCard" => ucm[idx[t]] = mgr[t]

(* Slots and requests have managers of their card, but for the slot that    *)
(* waits for the number of its card.                                        *)
OfTheCard ==
    /\ \A i \in Slots : ucm[i] # None =>
          \/ managers[ucm[i]].card = cardId[i]
          \/ \E t \in Threads : pc[t] = "storeCard" /\ idx[t] = i
    /\ \A t \in Threads :
          /\ pc[t] \in {"storeUcm", "storeCard", "work"} => managers[mgr[t]].card = card[t]
          /\ pc[t] = "load" => managers[ucm[idx[t]]].card = card[t]

(* The setup a set leaves behind each of its steps, from the one it found. *)
AfterVerb(t) ==
    IF want[t].verb \in {NoItem, base[t].verb} THEN base[t]
    ELSE [Unset EXCEPT !.verb = want[t].verb]
AfterDevice(t) ==
    IF want[t].dev = NoItem THEN AfterVerb(t)
    ELSE [AfterVerb(t) EXCEPT !.devs = @ \union {want[t].dev}]
AfterModifier(t) ==
    IF want[t].mod = NoItem THEN AfterDevice(t)
    ELSE [AfterDevice(t) EXCEPT !.mods = @ \union {want[t].mod}]

(* What a set has done so far is there; only sets get beyond the verb. *)
SoFar(t) ==
    /\ pc[t] \in {"device", "modifier", "end"} => op[t] = "set"
    /\ InSet(t) /\ t \notin mixed =>
          /\ pc[t] = "work" => managers[mgr[t]].setup = base[t]
          /\ pc[t] = "device" => managers[mgr[t]].setup = AfterVerb(t)
          /\ pc[t] = "modifier" => managers[mgr[t]].setup = AfterDevice(t)
          /\ pc[t] = "end" => managers[mgr[t]].setup = AfterModifier(t)
SetSoFar == \A t \in Threads : SoFar(t)

(* A step of t keeps what the sets of others found, unless it disturbs them. *)
KeepsBase(t) ==
    /\ base' \in [Threads -> Setups]
    /\ \A u \in Threads \ {t} : u \notin mixed' => base'[u] = base[u]

IInv ==
    /\ TypeOK
    /\ HasManager
    /\ ~overlapped => OneOpening /\ OfTheCard /\ OneManagerPerCard
    /\ SetSoFar

-----------------------------------------------------------------------------
(* The search takes a slot of those it chooses from. *)
LEMMA FirstIn ==
  ASSUME NEW S \in SUBSET Slots, S # {}
  PROVE  First(S) \in S
<1> DEFINE Less == {ss \in Nat \X Nat : ss[1] < ss[2]}
<1>0. Slots \subseteq Nat
  BY UcmAssumption DEF Slots
<1>1. IsWellFoundedOn(Less, Nat)
  BY NatLessThanWellFounded DEF OpToRel
<1>2. PICK i \in S : \A j \in S : ~(<<j, i>> \in Less)
  <2> HIDE DEF Less
  <2> QED
    BY <1>0, <1>1, WFMin
<1>3. \A j \in S : i <= j
  <2> SUFFICES ASSUME NEW j \in S PROVE i <= j
    OBVIOUS
  <2>1. i \in Nat /\ j \in Nat
    BY <1>0
  <2>2. ~(j < i)
    BY <1>2, <2>1
  <2>3. QED
    BY <2>1, <2>2
<1>4. QED
  BY <1>3 DEF First

(* What a search finds: a slot of the card, or an empty one. *)
LEMMA SearchIndex ==
  ASSUME NEW c
  PROVE  /\ Hits(c) # {} => First(Hits(c)) \in Hits(c)
         /\ Free # {} => First(Free) \in Free
BY FirstIn DEF Hits, Free

(* Opening and changing managers keeps them managers. *)
LEMMA OpenedType ==
  ASSUME managers \in Seq(ManagerRecord), Len(managers) < MaxManagers,
         NEW r \in ManagerRecord, managers' = Append(managers, r)
  PROVE  /\ managers' \in Seq(ManagerRecord)
         /\ Len(managers') \in Managers /\ Len(managers') \in DOMAIN managers'
         /\ Len(managers') \notin DOMAIN managers
         /\ DOMAIN managers \subseteq DOMAIN managers'
         /\ DOMAIN managers' = DOMAIN managers \union {Len(managers')}
         /\ managers'[Len(managers')] = r
         /\ \A m \in DOMAIN managers : managers'[m] = managers[m]
BY UcmAssumption DEF Managers

(* A request that asks for nothing and found nothing. *)
LEMMA NothingType == Nothing \in Wants /\ Unset \in Setups
BY DEF Nothing, Wants, Unset, Setups

(* The managers keep their types when one is changed. *)
LEMMA ChangedType ==
  ASSUME managers \in Seq(ManagerRecord), NEW m \in DOMAIN managers,
         NEW r \in ManagerRecord, managers' = [managers EXCEPT ![m] = r]
  PROVE  /\ managers' \in Seq(ManagerRecord)
         /\ DOMAIN managers' = DOMAIN managers
BY DEF Managers

(* The initial states satisfy the invariant. *)
LEMMA InitIInv == Init => IInv
<1> SUFFICES ASSUME Init PROVE IInv
  OBVIOUS
<1>1. TypeOK
  BY UcmAssumption, NothingType DEF Init, TypeOK, Slots, Ops
<1>2. HasManager /\ SetSoFar
  BY DEF Init, HasManager, SetSoFar, SoFar, InSet
<1>3. OneOpening /\ OfTheCard /\ OneManagerPerCard
  BY DEF Init, OneOpening, OfTheCard, OneManagerPerCard, Opening
<1>4. QED
  BY <1>1, <1>2, <1>3 DEF IInv

(* What a set should leave depends on what it asks for and on what it found. *)
LEMMA AfterSame ==
  ASSUME NEW u, want'[u] = want[u], base'[u] = base[u]
  PROVE  /\ AfterVerb(u)' = AfterVerb(u) /\ AfterDevice(u)' = AfterDevice(u)
         /\ AfterModifier(u)' = AfterModifier(u)
<1>1. AfterVerb(u)' = AfterVerb(u)
  BY DEF AfterVerb
<1>2. AfterDevice(u)' = AfterDevice(u)
  BY <1>1 DEF AfterDevice
<1>3. AfterModifier(u)' = AfterModifier(u)
  BY <1>2 DEF AfterModifier
<1>4. QED
  BY <1>1, <1>2, <1>3

(* Steps of one request leave alone what the others have set so far. *)
LEMMA OthersSoFar ==
  ASSUME IInv, NEW t \in Threads, SoFar(t)',
         \A u \in Threads \ {t} : /\ pc'[u] = pc[u] /\ op'[u] = op[u] /\ mgr'[u] = mgr[u]
                                  /\ want'[u] = want[u],
         \A u \in Threads \ {t} : u \notin mixed' => u \notin mixed /\ base'[u] = base[u],
         \A u \in Threads \ {t} :
            InSet(u) /\ u \notin mixed' => managers'[mgr[u]].setup = managers[mgr[u]].setup
  PROVE  SetSoFar'
<1> SUFFICES ASSUME NEW u \in Threads \ {t} PROVE SoFar(u)'
  BY DEF SetSoFar
<1>1. SoFar(u)
  BY DEF IInv, SetSoFar
<1>2. InSet(u)' = InSet(u) /\ pc'[u] = pc[u] /\ op'[u] = op[u] /\ mgr'[u] = mgr[u]
  BY DEF InSet
<1>3. u \notin mixed' =>
      /\ AfterVerb(u)' = AfterVerb(u) /\ AfterDevice(u)' = AfterDevice(u)
      /\ AfterModifier(u)' = AfterModifier(u)
  BY AfterSame
<1>4. QED
  BY <1>1, <1>2, <1>3 DEF SoFar

(* A request that leaves its manager and starts anew or ends. *)
LEMMA LeaveIInv ==
  ASSUME IInv, NEW t \in Threads, pc[t] \notin {"storeUcm", "storeCard"}, TypeOK',
         NEW p \in {"idle", "search"}, pc' = [pc EXCEPT ![t] = p],
         UNCHANGED <<table, managers>>,
         \A u \in Threads \ {t} : /\ op'[u] = op[u] /\ card'[u] = card[u] /\ idx'[u] = idx[u]
                                  /\ mgr'[u] = mgr[u] /\ want'[u] = want[u],
         KeepsBase(t), mixed \ {t} \subseteq mixed', overlapped => overlapped'
  PROVE  IInv'
<1>1. /\ \A u \in Threads \ {t} : pc'[u] = pc[u]
      /\ pc'[t] = p /\ ~Opening(t)' /\ ucm' = ucm /\ cardId' = cardId
  BY DEF IInv, TypeOK, Opening, table
<1>2. HasManager'
  BY <1>1 DEF IInv, HasManager
<1>3. ~overlapped' => OneOpening' /\ OfTheCard' /\ OneManagerPerCard'
  <2> SUFFICES ASSUME ~overlapped'
               PROVE  OneOpening' /\ OfTheCard' /\ OneManagerPerCard'
    OBVIOUS
  <2>1. OneOpening /\ OfTheCard /\ OneManagerPerCard
    BY DEF IInv
  <2>2. OneOpening'
    <3>1. \A u \in Threads : Opening(u)' => u # t /\ Opening(u)
      BY <1>1 DEF Opening
    <3>2. QED
      BY <1>1, <2>1, <3>1 DEF OneOpening, Opening
  <2>3. OfTheCard'
    BY <1>1, <2>1 DEF OfTheCard
  <2>4. OneManagerPerCard'
    BY <1>1, <2>1 DEF OneManagerPerCard
  <2>5. QED
    BY <2>2, <2>3, <2>4
<1>4. SetSoFar'
  <2>1. SoFar(t)'
    BY <1>1 DEF SoFar, InSet
  <2>2. \A u \in Threads \ {t} : u \notin mixed' => u \notin mixed /\ base'[u] = base[u]
    BY DEF KeepsBase
  <2>3. QED
    BY <1>1, <2>1, <2>2, OthersSoFar
<1>5. QED
  BY <1>2, <1>3, <1>4 DEF IInv

(* A request that ends before it has stored a manager. *)
LEMMA FinishIInv ==
  ASSUME IInv, NEW t \in Threads, pc[t] \notin {"storeUcm", "storeCard"},
         Finish(t), KeepsBase(t), UNCHANGED <<table, managers>>,
         mixed' \subseteq mixed, mixed \ {t} \subseteq mixed',
         overlapped' \in BOOLEAN, overlapped => overlapped'
  PROVE  IInv'
<1>1. TypeOK'
  <2>1. /\ idx' \in [Threads -> Slots] /\ card' \in [Threads -> Cards]
        /\ mgr' \in [Threads -> Managers \union {None}]
    BY UcmAssumption DEF IInv, TypeOK, Finish, Slots
  <2>2. want' \in [Threads -> Wants] /\ base' \in [Threads -> Setups]
    BY NothingType DEF IInv, TypeOK, Finish, KeepsBase
  <2>3. QED
    BY <2>1, <2>2 DEF IInv, TypeOK, Finish, Goto, table, Ops
<1>2. /\ pc' = [pc EXCEPT ![t] = "idle"]
      /\ \A u \in Threads \ {t} : /\ op'[u] = op[u] /\ card'[u] = card[u] /\ idx'[u] = idx[u]
                                   /\ mgr'[u] = mgr[u] /\ want'[u] = want[u]
  BY DEF IInv, TypeOK, Finish, Goto
<1>3. QED
  BY <1>1, <1>2, LeaveIInv

(* A request arrives. *)
LEMMA RequestIInv ==
  ASSUME IInv, NEW t \in Threads, NEW o \in Ops, NEW c \in Cards, Request(t, o, c)
  PROVE  IInv'
<1>1. TypeOK'
  BY DEF IInv, TypeOK, Request, Goto, table
<1>2. HasManager'
  BY DEF IInv, TypeOK, HasManager, Request, Goto, table
<1>3. ~overlapped' => OneOpening' /\ OfTheCard' /\ OneManagerPerCard'
  <2> SUFFICES ASSUME ~overlapped'
               PROVE  OneOpening' /\ OfTheCard' /\ OneManagerPerCard'
    OBVIOUS
  <2>1. OneOpening /\ OfTheCard /\ OneManagerPerCard
    BY DEF IInv, Request
  <2>2. OneOpening'
    BY <2>1 DEF IInv, TypeOK, OneOpening, Opening, Request, Goto, table
  <2>3. OfTheCard'
    BY <2>1 DEF IInv, TypeOK, OfTheCard, Request, Goto, table
  <2>4. OneManagerPerCard'
    BY <2>1 DEF IInv, TypeOK, OneManagerPerCard, Request, Goto, table
  <2>5. QED
    BY <2>2, <2>3, <2>4
<1>4. SetSoFar'
  <2>1. SoFar(t)'
    BY DEF IInv, TypeOK, SoFar, InSet, Request, Goto
  <2>2. \A u \in Threads \ {t} : /\ pc'[u] = pc[u] /\ op'[u] = op[u] /\ mgr'[u] = mgr[u]
                                 /\ want'[u] = want[u] /\ base'[u] = base[u]
    BY DEF IInv, TypeOK, Request, Goto
  <2>3. QED
    BY <2>1, <2>2, OthersSoFar DEF Request
<1>5. QED
  BY <1>1, <1>2, <1>3, <1>4 DEF IInv

(* A search while another request is opening spoils what follows; one that  *)
(* finds the card finds its manager, and one that opens is alone in it.     *)
LEMMA SearchIInv ==
  ASSUME IInv, NEW t \in Threads, Search(t)
  PROVE  IInv'
<1>0. /\ pc[t] = "search" /\ overlapped' \in BOOLEAN /\ base' = base
      /\ overlapped => overlapped'
      /\ ~overlapped' => ~overlapped /\ \A u \in Threads \ {t} : ~Opening(u)
      /\ UNCHANGED <<table, managers, mixed>>
  BY DEF IInv, TypeOK, Search
<1>1. CASE NoSlot(t)
  BY <1>0, <1>1, FinishIInv DEF NoSlot, KeepsBase, IInv, TypeOK
<1>2. CASE Found(t)
  <2>1. PICK i \in Slots : i \in Hits(card[t]) /\ idx' = [idx EXCEPT ![t] = i]
    BY <1>2, SearchIndex DEF Found, Hits
  <2>2. TypeOK'
    BY <1>0, <1>2, <2>1 DEF IInv, TypeOK, Found, Goto, table
  <2>3. HasManager'
    BY <1>0, <1>2, <2>1 DEF IInv, TypeOK, HasManager, Found, Goto, table, Hits
  <2>4. ~overlapped' => OneOpening' /\ OfTheCard' /\ OneManagerPerCard'
    <3> SUFFICES ASSUME ~overlapped'
                 PROVE  OneOpening' /\ OfTheCard' /\ OneManagerPerCard'
      OBVIOUS
    <3>1. OneOpening /\ OfTheCard /\ OneManagerPerCard
      BY <1>0 DEF IInv
    <3>2. OneOpening'
      BY <1>0, <1>2, <2>1, <3>1 DEF IInv, TypeOK, OneOpening, Opening, Found, Goto, table
    <3>3. managers[ucm[i]].card = card[t]
      BY <1>0, <2>1, <3>1 DEF OfTheCard, Opening, Hits
    <3>4. OfTheCard'
      BY <1>0, <1>2, <2>1, <3>1, <3>3 DEF IInv, TypeOK, OfTheCard, Found, Goto, table
    <3>5. OneManagerPerCard'
      BY <1>0, <1>2, <3>1 DEF IInv, TypeOK, OneManagerPerCard, Found, Goto, table
    <3>6. QED
      BY <3>2, <3>4, <3>5
  <2>5. SetSoFar'
    <3>1. SoFar(t)'
      BY <1>0, <1>2 DEF IInv, TypeOK, SoFar, InSet, Found, Goto
    <3>2. \A u \in Threads \ {t} : /\ pc'[u] = pc[u] /\ op'[u] = op[u] /\ mgr'[u] = mgr[u]
                                   /\ want'[u] = want[u] /\ base'[u] = base[u]
      BY <1>0, <1>2 DEF IInv, TypeOK, Found, Goto
    <3>3. QED
      BY <1>0, <3>1, <3>2, OthersSoFar
  <2>6. QED
    BY <2>2, <2>3, <2>4, <2>5 DEF IInv
<1>3. CASE NotFound(t)
  <2>1. PICK i \in Slots : i \in Free /\ idx' = [idx EXCEPT ![t] = i]
    BY <1>3, SearchIndex DEF NotFound, Free
  <2>2. TypeOK'
    BY <1>0, <1>3, <2>1 DEF IInv, TypeOK, NotFound, Goto, table
  <2>3. HasManager'
    BY <1>0, <1>3, <2>1 DEF IInv, TypeOK, HasManager, NotFound, Goto, table
  <2>4. ~overlapped' => OneOpening' /\ OfTheCard' /\ OneManagerPerCard'
    <3> SUFFICES ASSUME ~overlapped'
                 PROVE  OneOpening' /\ OfTheCard' /\ OneManagerPerCard'
      OBVIOUS
    <3>1. OneOpening /\ OfTheCard /\ OneManagerPerCard
      BY <1>0 DEF IInv
    <3>2. \A m \in DOMAIN managers : managers[m].card # card[t]
      <4> SUFFICES ASSUME NEW m \in DOMAIN managers PROVE managers[m].card # card[t]
        OBVIOUS
      <4>1. PICK j \in Slots : ucm[j] = m
        BY <1>0, <3>1 DEF OneManagerPerCard, Opening
      <4>2. m # None
        BY DEF IInv, TypeOK, None
      <4>3. managers[m].card = cardId[j]
        BY <1>0, <3>1, <4>1, <4>2 DEF OfTheCard, Opening
      <4>4. QED
        BY <1>3, <4>1, <4>2, <4>3 DEF NotFound, Hits
    <3>3. OneOpening'
      <4>1. \A u \in Threads \ {t} : ~Opening(u)'
        BY <1>0, <1>3 DEF IInv, TypeOK, Opening, NotFound, Goto
      <4>2. pc'[t] = "open" /\ idx'[t] = i /\ card' = card
        BY <1>3, <2>1 DEF IInv, TypeOK, NotFound, Goto
      <4>3. ucm'[i] = None /\ managers' = managers
        BY <1>0, <2>1 DEF Free, table
      <4>4. QED
        BY <3>2, <4>1, <4>2, <4>3 DEF OneOpening, Opening
    <3>4. OfTheCard'
      BY <1>0, <1>3, <2>1, <3>1 DEF IInv, TypeOK, OfTheCard, NotFound, Goto, table
    <3>5. OneManagerPerCard'
      BY <1>0, <1>3, <3>1 DEF IInv, TypeOK, OneManagerPerCard, NotFound, Goto, table
    <3>6. QED
      BY <3>3, <3>4, <3>5
  <2>5. SetSoFar'
    <3>1. SoFar(t)'
      BY <1>0, <1>3 DEF IInv, TypeOK, SoFar, InSet, NotFound, Goto
    <3>2. \A u \in Threads \ {t} : /\ pc'[u] = pc[u] /\ op'[u] = op[u] /\ mgr'[u] = mgr[u]
                                   /\ want'[u] = want[u] /\ base'[u] = base[u]
      BY <1>0, <1>3 DEF IInv, TypeOK, NotFound, Goto
    <3>3. QED
      BY <1>0, <3>1, <3>2, OthersSoFar
  <2>6. QED
    BY <2>2, <2>3, <2>4, <2>5 DEF IInv
<1>4. QED
  BY <1>1, <1>2, <1>3 DEF Search

(* Opening a manager adds one for a card that had none. *)
LEMMA OpenManagerIInv ==
  ASSUME IInv, NEW t \in Threads, OpenManager(t)
  PROVE  IInv'
<1> DEFINE r == [card |-> card[t], open |-> TRUE, setup |-> Unset]
           n == Len(managers')
<1>1. /\ pc[t] = "open" /\ pc' = [pc EXCEPT ![t] = "storeUcm"]
      /\ mgr' = [mgr EXCEPT ![t] = n] /\ managers' = Append(managers, r)
      /\ Len(managers) < MaxManagers
      /\ UNCHANGED <<ucm, cardId, op, card, idx, want, base, overlapped, mixed>>
  BY DEF OpenManager, Goto, table
<1>2. r \in ManagerRecord /\ managers \in Seq(ManagerRecord)
  BY NothingType DEF IInv, TypeOK, ManagerRecord
<1> HIDE DEF r
<1>3. /\ managers' \in Seq(ManagerRecord) /\ n \in Managers
      /\ n \notin DOMAIN managers
      /\ DOMAIN managers' = DOMAIN managers \union {n}
      /\ managers'[n] = r
      /\ \A m \in DOMAIN managers : managers'[m] = managers[m]
  BY <1>1, <1>2, OpenedType
<1> HIDE DEF n
<1>4. TypeOK'
  BY <1>1, <1>3 DEF IInv, TypeOK, ManagerRecord
<1>5. HasManager'
  BY <1>1, <1>3 DEF IInv, TypeOK, HasManager
<1>6. ~overlapped' => OneOpening' /\ OfTheCard' /\ OneManagerPerCard'
  <2> SUFFICES ASSUME ~overlapped'
               PROVE  OneOpening' /\ OfTheCard' /\ OneManagerPerCard'
    OBVIOUS
  <2>1. OneOpening /\ OfTheCard /\ OneManagerPerCard
    BY <1>1 DEF IInv
  <2>2. \A u \in Threads \ {t} : ~Opening(u)
    BY <1>1, <2>1 DEF OneOpening, Opening
  <2>3. r.card = card[t]
    BY DEF r
  <2>4. \A i \in Slots : ucm[i] # n
    BY <1>3 DEF IInv, HasManager, Managers, None
  <2>5. OneOpening'
    <3>1. \A u \in Threads \ {t} : ~Opening(u)'
      BY <1>1, <2>2 DEF IInv, TypeOK, Opening
    <3>2. pc'[t] = "storeUcm" /\ ucm'[idx'[t]] = None /\ mgr'[t] = n
      BY <1>1, <2>1 DEF IInv, TypeOK, OneOpening
    <3>3. QED
      BY <1>1, <2>4, <3>1, <3>2 DEF OneOpening, Opening
  <2>6. OfTheCard'
    BY <1>1, <1>3, <2>1, <2>3 DEF IInv, TypeOK, HasManager, OfTheCard
  <2>7. OneManagerPerCard'
    <3>1. \A m \in DOMAIN managers : managers[m].card # card[t]
      BY <1>1, <2>1 DEF OneOpening
    <3>2. \A m, k \in DOMAIN managers' : managers'[m].card = managers'[k].card => m = k
      BY <1>1, <1>3, <2>1, <2>3, <3>1 DEF OneManagerPerCard
    <3>3. \A m \in DOMAIN managers : \E i \in Slots : ucm[i] = m
      BY <1>1, <2>1, <2>2 DEF OneManagerPerCard, Opening
    <3>4. pc'[t] = "storeUcm" /\ mgr'[t] = n
      BY <1>1 DEF IInv, TypeOK
    <3>5. \A m \in DOMAIN managers' :
             \/ \E i \in Slots : ucm'[i] = m
             \/ \E u \in Threads : pc'[u] = "storeUcm" /\ mgr'[u] = m
      BY <1>1, <1>3, <3>3, <3>4
    <3>6. QED
      BY <1>1, <2>1, <3>2, <3>5 DEF OneManagerPerCard
  <2>8. QED
    BY <2>5, <2>6, <2>7
<1>7. SetSoFar'
  <2>1. SoFar(t)'
    BY <1>1 DEF IInv, TypeOK, SoFar, InSet
  <2>2. \A u \in Threads \ {t} : InSet(u) => managers'[mgr[u]].setup = managers[mgr[u]].setup
    BY <1>3 DEF IInv, HasManager, InSet
  <2>3. QED
    BY <1>1, <2>1, <2>2, OthersSoFar DEF IInv, TypeOK
<1>8. QED
  BY <1>4, <1>5, <1>6, <1>7 DEF IInv

(* The opened manager is stored in its slot. *)
LEMMA StoreUcmIInv ==
  ASSUME IInv, NEW t \in Threads, StoreUcm(t)
  PROVE  IInv'
<1>1. /\ pc[t] = "storeUcm" /\ pc' = [pc EXCEPT ![t] = "storeCard"]
      /\ ucm' = [ucm EXCEPT ![idx[t]] = mgr[t]] /\ idx[t] \in Slots
      /\ UNCHANGED <<cardId, managers, op, card, idx, mgr, want, base, overlapped, mixed>>
  BY DEF IInv, TypeOK, StoreUcm, Goto
<1>2. mgr[t] \in DOMAIN managers /\ mgr[t] # None
  BY <1>1 DEF IInv, TypeOK, HasManager, None
<1>3. TypeOK'
  BY <1>1 DEF IInv, TypeOK
<1>4. HasManager'
  BY <1>1, <1>2 DEF IInv, TypeOK, HasManager
<1>5. ~overlapped' => OneOpening' /\ OfTheCard' /\ OneManagerPerCard'
  <2> SUFFICES ASSUME ~overlapped'
               PROVE  OneOpening' /\ OfTheCard' /\ OneManagerPerCard'
    OBVIOUS
  <2>1. OneOpening /\ OfTheCard /\ OneManagerPerCard
    BY <1>1 DEF IInv
  <2>2. \A u \in Threads \ {t} : ~Opening(u) /\ pc'[u] = pc[u]
    BY <1>1, <2>1 DEF IInv, TypeOK, OneOpening, Opening
  <2>3. ucm[idx[t]] = None /\ \A i \in Slots : ucm[i] # mgr[t]
    BY <1>1, <2>1 DEF OneOpening
  <2>4. OneOpening'
    BY <1>1, <2>2 DEF IInv, TypeOK, OneOpening, Opening
  <2>5. OfTheCard'
    <3>1. \A i \in Slots : ucm'[i] # None =>
             \/ managers'[ucm'[i]].card = cardId'[i]
             \/ \E u \in Threads : pc'[u] = "storeCard" /\ idx'[u] = i
      BY <1>1, <2>1, <2>2 DEF IInv, TypeOK, OfTheCard, Opening
    <3>2. \A u \in Threads : pc'[u] = "load" =>
             managers'[ucm'[idx'[u]]].card = card'[u]
      BY <1>1, <2>1, <2>3 DEF IInv, TypeOK, HasManager, OfTheCard
    <3>3. \A u \in Threads : pc'[u] \in {"storeUcm", "storeCard", "work"} =>
             managers'[mgr'[u]].card = card'[u]
      BY <1>1, <2>1 DEF IInv, TypeOK, OfTheCard
    <3>4. QED
      BY <3>1, <3>2, <3>3 DEF OfTheCard
  <2>6. OneManagerPerCard'
    <3>1. \A i, j \in Slots : ucm'[i] # None /\ ucm'[i] = ucm'[j] => i = j
      BY <1>1, <2>1, <2>3 DEF IInv, TypeOK, OneManagerPerCard
    <3>2. \A m \in DOMAIN managers : \E i \in Slots : ucm'[i] = m
      <4> SUFFICES ASSUME NEW m \in DOMAIN managers
                   PROVE  \E i \in Slots : ucm'[i] = m
        OBVIOUS
      <4>1. CASE m = mgr[t]
        BY <1>1, <4>1 DEF IInv, TypeOK
      <4>2. CASE m # mgr[t]
        <5>1. PICK i \in Slots : ucm[i] = m
          BY <1>1, <2>1, <2>2, <4>2 DEF OneManagerPerCard, Opening
        <5>2. m # None
          BY DEF IInv, TypeOK, None
        <5>3. ucm'[i] = m
          BY <1>1, <2>3, <5>1, <5>2 DEF IInv, TypeOK
        <5>4. QED
          BY <5>3
      <4>3. QED
        BY <4>1, <4>2
    <3>3. QED
      BY <1>1, <2>1, <3>1, <3>2 DEF OneManagerPerCard
  <2>7. QED
    BY <2>4, <2>5, <2>6
<1>6. SetSoFar'
  <2>1. SoFar(t)'
    BY <1>1 DEF IInv, TypeOK, SoFar, InSet
  <2>2. QED
    BY <1>1, <2>1, OthersSoFar DEF IInv, TypeOK
<1>7. QED
  BY <1>3, <1>4, <1>5, <1>6 DEF IInv

(* With the number of the card stored the slot is as the others. *)
LEMMA StoreCardIInv ==
  ASSUME IInv, NEW t \in Threads, StoreCard(t)
  PROVE  IInv'
<1>1. /\ pc[t] = "storeCard" /\ pc' = [pc EXCEPT ![t] = "load"]
      /\ cardId' = [cardId EXCEPT ![idx[t]] = card[t]] /\ idx[t] \in Slots
      /\ UNCHANGED <<ucm, managers, op, card, idx, mgr, want, base, overlapped, mixed>>
  BY DEF IInv, TypeOK, StoreCard, Goto
<1>2. TypeOK'
  BY <1>1 DEF IInv, TypeOK
<1>3. HasManager'
  BY <1>1 DEF IInv, TypeOK, HasManager
<1>4. ~overlapped' => OneOpening' /\ OfTheCard' /\ OneManagerPerCard'
  <2> SUFFICES ASSUME ~overlapped'
               PROVE  OneOpening' /\ OfTheCard' /\ OneManagerPerCard'
    OBVIOUS
  <2>1. OneOpening /\ OfTheCard /\ OneManagerPerCard
    BY <1>1 DEF IInv
  <2>2. \A u \in Threads \ {t} : ~Opening(u) /\ pc'[u] = pc[u]
    BY <1>1, <2>1 DEF IInv, TypeOK, OneOpening, Opening
  <2>3. ucm[idx[t]] = mgr[t] /\ managers[mgr[t]].card = card[t]
    BY <1>1, <2>1 DEF OneOpening, OfTheCard
  <2>4. OneOpening'
    BY <1>1, <2>1 DEF IInv, TypeOK, OneOpening, Opening
  <2>5. OfTheCard'
    <3>1. \A i \in Slots : ucm'[i] # None => managers'[ucm'[i]].card = cardId'[i]
      BY <1>1, <2>1, <2>2, <2>3 DEF IInv, TypeOK, OfTheCard, Opening
    <3>2. QED
      BY <1>1, <2>1, <2>3, <3>1 DEF IInv, TypeOK, OfTheCard
  <2>6. OneManagerPerCard'
    BY <1>1, <2>1 DEF IInv, TypeOK, OneManagerPerCard
  <2>7. QED
    BY <2>4, <2>5, <2>6
<1>5. SetSoFar'
  <2>1. SoFar(t)'
    BY <1>1 DEF IInv, TypeOK, SoFar, InSet
  <2>2. QED
    BY <1>1, <2>1, OthersSoFar DEF IInv, TypeOK
<1>6. QED
  BY <1>2, <1>3, <1>4, <1>5 DEF IInv

(* A request takes the manager of its slot. *)
LEMMA LoadIInv ==
  ASSUME IInv, NEW t \in Threads, Load(t)
  PROVE  IInv'
<1>1. /\ pc[t] = "load" /\ pc' = [pc EXCEPT ![t] = "work"]
      /\ mgr' = [mgr EXCEPT ![t] = ucm[idx[t]]] /\ idx[t] \in Slots
      /\ \/ /\ op[t] = "set"
            /\ \E items \in Wants : want' = [want EXCEPT ![t] = items]
            /\ base' = [base EXCEPT ![t] = managers[ucm[idx[t]]].setup]
         \/ op[t] # "set" /\ UNCHANGED <<want, base>>
      /\ UNCHANGED <<ucm, cardId, managers, op, card, idx, overlapped, mixed>>
  BY DEF IInv, TypeOK, Load, Goto, table
<1>2. TypeOK'
  <2>1. ucm[idx[t]] \in DOMAIN managers
    BY <1>1 DEF IInv, HasManager
  <2>2. managers[ucm[idx[t]]].setup \in Setups
    <3>1. managers \in Seq(ManagerRecord)
      BY DEF IInv, TypeOK, ManagerRecord
    <3>2. managers[ucm[idx[t]]] \in ManagerRecord
      BY <2>1, <3>1
    <3>3. QED
      BY <3>2 DEF ManagerRecord
  <2>3. base' \in [Threads -> Setups] /\ want' \in [Threads -> Wants]
    BY <1>1, <2>2 DEF IInv, TypeOK
  <2>4. QED
    BY <1>1, <2>3 DEF IInv, TypeOK
<1>3. HasManager'
  BY <1>1 DEF IInv, TypeOK, HasManager
<1>4. ~overlapped' => OneOpening' /\ OfTheCard' /\ OneManagerPerCard'
  <2> SUFFICES ASSUME ~overlapped'
               PROVE  OneOpening' /\ OfTheCard' /\ OneManagerPerCard'
    OBVIOUS
  <2>1. OneOpening /\ OfTheCard /\ OneManagerPerCard
    BY <1>1 DEF IInv
  <2>2. OneOpening'
    BY <1>1, <2>1 DEF IInv, TypeOK, OneOpening, Opening
  <2>3. OfTheCard'
    BY <1>1, <2>1 DEF IInv, TypeOK, OfTheCard
  <2>4. OneManagerPerCard'
    BY <1>1, <2>1 DEF IInv, TypeOK, OneManagerPerCard
  <2>5. QED
    BY <2>2, <2>3, <2>4
<1>5. SetSoFar'
  <2>1. SoFar(t)'
    BY <1>1 DEF IInv, TypeOK, SoFar, InSet
  <2>2. QED
    BY <1>1, <2>1, OthersSoFar DEF IInv, TypeOK
<1>6. QED
  BY <1>2, <1>3, <1>4, <1>5 DEF IInv

(* A change of what a manager was asked for, by a request that has it in    *)
(* hand, leaves the cards and the table as they are.                        *)
LEMMA ChangeIInv ==
  ASSUME IInv, NEW t \in Threads, pc[t] \in {"work", "device", "modifier"},
         NEW r \in ManagerRecord, r.card = managers[mgr[t]].card,
         managers' = [managers EXCEPT ![mgr[t]] = r],
         NEW p \in {"idle", "device", "modifier", "end"}, pc' = [pc EXCEPT ![t] = p],
         TypeOK', UNCHANGED <<table, overlapped>>,
         \A u \in Threads \ {t} : card'[u] = card[u] /\ idx'[u] = idx[u] /\ mgr'[u] = mgr[u],
         p # "idle" => mgr' = mgr
  PROVE  /\ HasManager'
         /\ ~overlapped' => OneOpening' /\ OfTheCard' /\ OneManagerPerCard'
<1>1. /\ mgr[t] \in DOMAIN managers /\ DOMAIN managers' = DOMAIN managers
      /\ \A m \in DOMAIN managers : managers'[m].card = managers[m].card
  BY DEF IInv, TypeOK, HasManager
<1>2. /\ \A u \in Threads \ {t} : pc'[u] = pc[u]
      /\ pc'[t] = p /\ ~Opening(t) /\ ~Opening(t)' /\ pc[t] # "load"
      /\ UNCHANGED <<ucm, cardId>>
  BY DEF IInv, TypeOK, Opening, table
<1>3. HasManager'
  BY <1>1, <1>2 DEF IInv, HasManager
<1>4. ~overlapped' => OneOpening' /\ OfTheCard' /\ OneManagerPerCard'
  <2> SUFFICES ASSUME ~overlapped'
               PROVE  OneOpening' /\ OfTheCard' /\ OneManagerPerCard'
    OBVIOUS
  <2>1. OneOpening /\ OfTheCard /\ OneManagerPerCard /\ HasManager
    BY DEF IInv
  <2>2. OneOpening'
    <3>1. \A u \in Threads : Opening(u)' => u # t /\ Opening(u)
      BY <1>2 DEF Opening
    <3>2. QED
      BY <1>1, <1>2, <2>1, <3>1 DEF OneOpening, Opening
  <2>3. OfTheCard'
    <3>1. \A i \in Slots : ucm'[i] # None =>
             \/ managers'[ucm'[i]].card = cardId'[i]
             \/ \E u \in Threads : pc'[u] = "storeCard" /\ idx'[u] = i
      <4> SUFFICES ASSUME NEW i \in Slots, ucm[i] # None
                   PROVE  \/ managers'[ucm[i]].card = cardId[i]
                          \/ \E u \in Threads : pc'[u] = "storeCard" /\ idx'[u] = i
        BY <1>2
      <4>1. managers'[ucm[i]].card = managers[ucm[i]].card
        BY <1>1, <2>1 DEF HasManager
      <4>2. CASE \E u \in Threads : pc[u] = "storeCard" /\ idx[u] = i
        BY <1>2, <4>2
      <4>3. QED
        BY <2>1, <4>1, <4>2 DEF OfTheCard
    <3>2. ASSUME NEW u \in Threads \ {t},
                 pc[u] \in {"storeUcm", "storeCard", "work"}
          PROVE  managers'[mgr[u]].card = card[u]
      BY <1>1, <2>1, <3>2 DEF HasManager, OfTheCard
    <3>3. ASSUME NEW u \in Threads \ {t}, pc[u] = "load"
          PROVE  managers'[ucm[idx[u]]].card = card[u]
      BY <1>1, <2>1, <3>3 DEF HasManager, OfTheCard, IInv, TypeOK
    <3>4. QED
      BY <1>2, <3>1, <3>2, <3>3 DEF OfTheCard
  <2>4. OneManagerPerCard'
    <3>1. \A m, n \in DOMAIN managers : managers'[m].card = managers'[n].card => m = n
      BY <1>1, <2>1 DEF OneManagerPerCard
    <3>2. \A u \in Threads : pc[u] = "storeUcm" => pc'[u] = "storeUcm" /\ mgr'[u] = mgr[u]
      BY <1>2 DEF Opening
    <3>3. QED
      BY <1>1, <1>2, <2>1, <3>1, <3>2 DEF OneManagerPerCard
  <2>5. QED
    BY <2>2, <2>3, <2>4
<1>5. QED
  BY <1>3, <1>4

(* The manager a request has in hand. *)
LEMMA InHand ==
  ASSUME IInv, NEW t \in Threads, pc[t] \in {"work", "device", "modifier"}
  PROVE  /\ mgr[t] \in DOMAIN managers
         /\ managers \in Seq(ManagerRecord) /\ managers[mgr[t]] \in ManagerRecord
         /\ SetupOf(t) \in Setups /\ want[t] \in Wants /\ base[t] \in Setups
<1>1. mgr[t] \in DOMAIN managers /\ managers \in Seq(ManagerRecord)
  BY DEF IInv, TypeOK, HasManager, ManagerRecord
<1>2. managers[mgr[t]] \in ManagerRecord
  BY <1>1
<1>3. SetupOf(t) \in Setups
  BY <1>2 DEF SetupOf, ManagerRecord
<1>4. QED
  BY <1>1, <1>2, <1>3 DEF IInv, TypeOK

(* A new setup of a manager changes no other, and disturbs the sets that have *)
(* the manager in hand.                                                       *)
LEMMA SetUpType ==
  ASSUME IInv, NEW t \in Threads, pc[t] \in {"work", "device", "modifier"},
         NEW setup \in Setups, SetUp(t, setup)
  PROVE  /\ managers' \in Seq(ManagerRecord)
         /\ \E r \in ManagerRecord : /\ r.card = managers[mgr[t]].card /\ r.setup = setup
                                      /\ managers' = [managers EXCEPT ![mgr[t]] = r]
         /\ managers'[mgr[t]].setup = setup
         /\ mixed' \subseteq Threads /\ mixed \subseteq mixed'
         /\ KeepsBase(t) /\ base'[t] = base[t]
         /\ \A u \in Threads \ {t} :
               InSet(u) /\ u \notin mixed' => managers'[mgr[u]].setup = managers[mgr[u]].setup
<1> DEFINE r == [managers[mgr[t]] EXCEPT !.setup = setup]
<1>1. /\ managers' = [managers EXCEPT ![mgr[t]] = r]
      /\ mixed' = mixed \union Disturbed(t)
  BY DEF SetUp
<1>2. /\ mgr[t] \in DOMAIN managers
      /\ managers \in Seq(ManagerRecord) /\ managers[mgr[t]] \in ManagerRecord
  BY InHand
<1>3. r \in ManagerRecord /\ r.card = managers[mgr[t]].card /\ r.setup = setup
  BY <1>2 DEF ManagerRecord
<1> HIDE DEF r
<1>4. managers' \in Seq(ManagerRecord) /\ managers'[mgr[t]].setup = setup
  BY <1>1, <1>2, <1>3, ChangedType
<1>5. mixed' \subseteq Threads /\ mixed \subseteq mixed'
  BY <1>1 DEF Disturbed, IInv, TypeOK
<1>6. ASSUME NEW u \in Threads \ {t}, InSet(u), u \notin mixed'
      PROVE  managers'[mgr[u]].setup = managers[mgr[u]].setup
  <2>1. mgr[u] # mgr[t]
    BY <1>1, <1>6 DEF Disturbed
  <2>2. mgr[u] \in DOMAIN managers
    BY <1>6 DEF IInv, HasManager, InSet
  <2>3. QED
    BY <1>1, <2>1, <2>2
<1>7. KeepsBase(t) /\ base'[t] = base[t]
  <2>1. /\ base' = [u \in Threads |-> IF u \in Disturbed(t) THEN Unset ELSE base[u]]
        /\ t \notin Disturbed(t)
    BY DEF SetUp, Disturbed
  <2>2. base' \in [Threads -> Setups]
    BY <2>1, NothingType DEF IInv, TypeOK
  <2>3. QED
    BY <1>1, <2>1, <2>2 DEF KeepsBase
<1>8. QED
  BY <1>1, <1>3, <1>4, <1>5, <1>6, <1>7

(* A step of a set that leaves the setup the set should have by then. *)
LEMMA SetStepIInv ==
  ASSUME IInv, NEW t \in Threads, pc[t] \in {"work", "device", "modifier"}, op[t] = "set",
         NEW p \in {"device", "modifier", "end"}, pc' = [pc EXCEPT ![t] = p],
         UNCHANGED <<table, op, card, idx, mgr, want, overlapped>>,
         NEW setup \in Setups,
         \/ SetUp(t, setup)
         \/ UNCHANGED <<managers, base, mixed>> /\ setup = SetupOf(t),
         t \notin mixed =>
            /\ p = "device" => setup = AfterVerb(t)
            /\ p = "modifier" => setup = AfterDevice(t)
            /\ p = "end" => setup = AfterModifier(t)
  PROVE  IInv'
<1>1. /\ managers' \in Seq(ManagerRecord)
      /\ \E r \in ManagerRecord : /\ r.card = managers[mgr[t]].card
                                   /\ managers' = [managers EXCEPT ![mgr[t]] = r]
      /\ managers'[mgr[t]].setup = setup
      /\ mixed' \subseteq Threads /\ mixed \subseteq mixed'
      /\ KeepsBase(t) /\ base'[t] = base[t]
      /\ \A u \in Threads \ {t} :
            InSet(u) /\ u \notin mixed' => managers'[mgr[u]].setup = managers[mgr[u]].setup
  <2>1. CASE SetUp(t, setup)
    BY <2>1, SetUpType
  <2>2. CASE UNCHANGED <<managers, base, mixed>> /\ setup = SetupOf(t)
    <3>1. managers \in Seq(ManagerRecord) /\ managers[mgr[t]] \in ManagerRecord
      BY InHand
    <3>2. managers = [managers EXCEPT ![mgr[t]] = managers[mgr[t]]]
      BY <3>1
    <3>3. QED
      BY <2>2, <3>1, <3>2 DEF IInv, TypeOK, SetupOf, KeepsBase
  <2>3. QED
    BY <2>1, <2>2
<1>2. TypeOK'
  BY <1>1 DEF IInv, TypeOK, ManagerRecord, KeepsBase, table
<1>3. HasManager' /\ (~overlapped' => OneOpening' /\ OfTheCard' /\ OneManagerPerCard')
  BY <1>1, <1>2, ChangeIInv
<1>4. SetSoFar'
  <2>1. /\ AfterVerb(t)' = AfterVerb(t) /\ AfterDevice(t)' = AfterDevice(t)
        /\ AfterModifier(t)' = AfterModifier(t) /\ op'[t] = "set"
    BY <1>1, AfterSame
  <2>2. pc'[t] = p /\ \A u \in Threads \ {t} : pc'[u] = pc[u]
    BY DEF IInv, TypeOK
  <2>3. SoFar(t)'
    BY <1>1, <2>1, <2>2 DEF SoFar
  <2>4. QED
    BY <1>1, <2>2, <2>3, OthersSoFar DEF KeepsBase
<1>5. QED
  BY <1>2, <1>3, <1>4 DEF IInv

(* A set gives its manager the verb, if it asks for another. *)
LEMMA SetVerbIInv ==
  ASSUME IInv, NEW t \in Threads, SetVerb(t)
  PROVE  IInv'
<1> DEFINE setup == IF want[t].verb \in {NoItem, SetupOf(t).verb} THEN SetupOf(t)
                    ELSE [Unset EXCEPT !.verb = want[t].verb]
<1>1. /\ pc[t] = "work" /\ op[t] = "set" /\ pc' = [pc EXCEPT ![t] = "device"]
      /\ UNCHANGED <<table, op, card, idx, mgr, want, overlapped>>
      /\ \/ SetUp(t, setup)
         \/ UNCHANGED <<managers, base, mixed>> /\ setup = SetupOf(t)
  BY DEF SetVerb, Goto
<1>2. setup \in Setups
  BY <1>1, InHand DEF Setups, Wants, Unset
<1>3. t \notin mixed => setup = AfterVerb(t)
  BY <1>1 DEF IInv, SetSoFar, SoFar, InSet, SetupOf, AfterVerb
<1> HIDE DEF setup
<1>4. QED
  BY <1>1, <1>2, <1>3, SetStepIInv

(* A set gives its manager the device, if it asks for one. *)
LEMMA SetDeviceIInv ==
  ASSUME IInv, NEW t \in Threads, SetDevice(t)
  PROVE  IInv'
<1> DEFINE setup == IF want[t].dev = NoItem THEN SetupOf(t)
                    ELSE [SetupOf(t) EXCEPT !.devs = @ \union {want[t].dev}]
<1>1. /\ pc[t] = "device" /\ pc' = [pc EXCEPT ![t] = "modifier"]
      /\ UNCHANGED <<table, op, card, idx, mgr, want, overlapped>>
      /\ \/ SetUp(t, setup)
         \/ UNCHANGED <<managers, base, mixed>> /\ setup = SetupOf(t)
  BY DEF SetDevice, Goto
<1>2. setup \in Setups
  BY <1>1, InHand DEF Setups, Wants
<1>3. op[t] = "set" /\ (t \notin mixed => SetupOf(t) = AfterVerb(t))
  BY <1>1 DEF IInv, SetSoFar, SoFar, InSet, SetupOf
<1>4. t \notin mixed => setup = AfterDevice(t)
  BY <1>3 DEF AfterDevice
<1> HIDE DEF setup
<1>5. QED
  BY <1>1, <1>2, <1>3, <1>4, SetStepIInv

(* A set gives its manager the modifier, if it asks for one. *)
LEMMA SetModifierIInv ==
  ASSUME IInv, NEW t \in Threads, SetModifier(t)
  PROVE  IInv'
<1> DEFINE setup == IF want[t].mod = NoItem THEN SetupOf(t)
                    ELSE [SetupOf(t) EXCEPT !.mods = @ \union {want[t].mod}]
<1>1. /\ pc[t] = "modifier" /\ pc' = [pc EXCEPT ![t] = "end"]
      /\ UNCHANGED <<table, op, card, idx, mgr, want, overlapped>>
      /\ \/ SetUp(t, setup)
         \/ UNCHANGED <<managers, base, mixed>> /\ setup = SetupOf(t)
  BY DEF SetModifier, Goto
<1>2. setup \in Setups
  BY <1>1, InHand DEF Setups, Wants
<1>3. op[t] = "set" /\ (t \notin mixed => SetupOf(t) = AfterDevice(t))
  BY <1>1 DEF IInv, SetSoFar, SoFar, InSet, SetupOf
<1>4. t \notin mixed => setup = AfterModifier(t)
  BY <1>3 DEF AfterModifier
<1> HIDE DEF setup
<1>5. QED
  BY <1>1, <1>2, <1>3, <1>4, SetStepIInv

(* A set goes on as a get. *)
LEMMA SetThenGetIInv ==
  ASSUME IInv, NEW t \in Threads, SetThenGet(t)
  PROVE  IInv'
<1>1. /\ pc[t] = "end" /\ pc' = [pc EXCEPT ![t] = "search"]
      /\ op' = [op EXCEPT ![t] = "read"] /\ idx' = [idx EXCEPT ![t] = 0]
      /\ mgr' = [mgr EXCEPT ![t] = None] /\ want' = [want EXCEPT ![t] = Nothing]
      /\ base' = [base EXCEPT ![t] = Unset] /\ mixed' = mixed \ {t}
      /\ UNCHANGED <<table, managers, card, overlapped>>
  BY DEF SetThenGet, Goto
<1>2. TypeOK'
  <2>1. 0 \in Slots
    BY UcmAssumption DEF Slots
  <2>2. QED
    BY <1>1, <2>1, NothingType DEF IInv, TypeOK, table, Ops
<1>3. \A u \in Threads \ {t} : /\ op'[u] = op[u] /\ card'[u] = card[u] /\ idx'[u] = idx[u]
                               /\ mgr'[u] = mgr[u] /\ want'[u] = want[u]
  BY <1>1 DEF IInv, TypeOK
<1>4. KeepsBase(t)
  BY <1>1, NothingType DEF IInv, TypeOK, KeepsBase
<1>5. QED
  BY <1>1, <1>2, <1>3, <1>4, LeaveIInv

(* What a request leaves when it ends, of its own and of the others. *)
LEMMA FinishType ==
  ASSUME IInv, NEW t \in Threads, Finish(t), UNCHANGED <<table, overlapped>>,
         managers' \in Seq(ManagerRecord), mixed' \subseteq Threads, KeepsBase(t)
  PROVE  /\ TypeOK' /\ pc' = [pc EXCEPT ![t] = "idle"]
         /\ \A u \in Threads \ {t} :
               /\ pc'[u] = pc[u] /\ op'[u] = op[u] /\ card'[u] = card[u] /\ idx'[u] = idx[u]
               /\ mgr'[u] = mgr[u] /\ want'[u] = want[u]
         /\ SoFar(t)'
<1>1. /\ idx' \in [Threads -> Slots] /\ card' \in [Threads -> Cards]
      /\ mgr' \in [Threads -> Managers \union {None}]
  BY UcmAssumption DEF IInv, TypeOK, Finish, Slots
<1>2. want' \in [Threads -> Wants] /\ base' \in [Threads -> Setups]
  BY NothingType DEF IInv, TypeOK, Finish, KeepsBase
<1>3. TypeOK'
  BY <1>1, <1>2 DEF IInv, TypeOK, Finish, Goto, table, Ops, ManagerRecord
<1>4. pc' = [pc EXCEPT ![t] = "idle"] /\ SoFar(t)'
  BY DEF IInv, TypeOK, Finish, Goto, SoFar, InSet
<1>5. QED
  BY <1>3, <1>4 DEF IInv, TypeOK, Finish

(* A reset takes verb, devices and modifiers back. *)
LEMMA ResetIInv ==
  ASSUME IInv, NEW t \in Threads, Reset(t)
  PROVE  IInv'
<1>1. pc[t] = "work" /\ Finish(t) /\ UNCHANGED <<table, overlapped>>
  BY DEF Reset
<1>2. CASE UNCHANGED <<managers, base, mixed>>
  BY <1>1, <1>2, FinishIInv DEF IInv, TypeOK, KeepsBase
<1>3. CASE SetUp(t, Unset)
  <2>1. /\ managers' \in Seq(ManagerRecord)
        /\ \E r \in ManagerRecord : /\ r.card = managers[mgr[t]].card
                                     /\ managers' = [managers EXCEPT ![mgr[t]] = r]
        /\ mixed' \subseteq Threads /\ mixed \subseteq mixed' /\ KeepsBase(t)
        /\ \A u \in Threads \ {t} :
              InSet(u) /\ u \notin mixed' => managers'[mgr[u]].setup = managers[mgr[u]].setup
    BY <1>1, <1>3, NothingType, SetUpType
  <2>2. /\ TypeOK' /\ pc' = [pc EXCEPT ![t] = "idle"]
        /\ \A u \in Threads \ {t} :
              /\ pc'[u] = pc[u] /\ op'[u] = op[u] /\ card'[u] = card[u] /\ idx'[u] = idx[u]
              /\ mgr'[u] = mgr[u] /\ want'[u] = want[u]
        /\ SoFar(t)'
    BY <1>1, <2>1, FinishType
  <2>3. HasManager' /\ (~overlapped' => OneOpening' /\ OfTheCard' /\ OneManagerPerCard')
    BY <1>1, <2>1, <2>2, ChangeIInv
  <2>4. SetSoFar'
    BY <2>1, <2>2, OthersSoFar DEF KeepsBase
  <2>5. QED
    BY <2>2, <2>3, <2>4 DEF IInv
<1>4. QED
  BY <1>2, <1>3 DEF Reset

(* Closing a manager keeps its setup. *)
LEMMA CloseIInv ==
  ASSUME IInv, NEW t \in Threads, Close(t)
  PROVE  IInv'
<1>1. pc[t] = "work" /\ Finish(t) /\ UNCHANGED <<table, base, overlapped, mixed>>
  BY DEF Close
<1>2. /\ mgr[t] \in DOMAIN managers
      /\ managers \in Seq(ManagerRecord) /\ managers[mgr[t]] \in ManagerRecord
  BY <1>1, InHand
<1>3. PICK r \in ManagerRecord :
         /\ managers' = [managers EXCEPT ![mgr[t]] = r]
         /\ r.card = managers[mgr[t]].card /\ r.setup = managers[mgr[t]].setup
  <2>1. PICK done \in BOOLEAN :
           managers' = [managers EXCEPT ![mgr[t]].open = @ /\ ~done]
    BY DEF Close
  <2> DEFINE r == [managers[mgr[t]] EXCEPT !.open = @ /\ ~done]
  <2>2. r \in ManagerRecord
    BY <1>2 DEF ManagerRecord
  <2>3. r.card = managers[mgr[t]].card /\ r.setup = managers[mgr[t]].setup
    BY <1>2 DEF ManagerRecord
  <2>4. managers' = [managers EXCEPT ![mgr[t]] = r]
    BY <2>1
  <2> HIDE DEF r
  <2>5. QED
    BY <2>2, <2>3, <2>4
<1>4. managers' \in Seq(ManagerRecord) /\ DOMAIN managers' = DOMAIN managers
  BY <1>2, <1>3, ChangedType
<1>5. mixed' \subseteq Threads /\ mixed' = mixed /\ KeepsBase(t) /\ base' = base
  BY <1>1 DEF IInv, TypeOK, KeepsBase
<1>6. /\ TypeOK' /\ pc' = [pc EXCEPT ![t] = "idle"]
      /\ \A u \in Threads \ {t} :
            /\ pc'[u] = pc[u] /\ op'[u] = op[u] /\ card'[u] = card[u] /\ idx'[u] = idx[u]
            /\ mgr'[u] = mgr[u] /\ want'[u] = want[u]
      /\ SoFar(t)'
  BY <1>1, <1>4, <1>5, FinishType
<1>7. HasManager' /\ (~overlapped' => OneOpening' /\ OfTheCard' /\ OneManagerPerCard')
  BY <1>1, <1>3, <1>6, ChangeIInv
<1>8. SetSoFar'
  <2>1. \A m \in DOMAIN managers : managers'[m].setup = managers[m].setup
    BY <1>2, <1>3
  <2>2. \A u \in Threads \ {t} : InSet(u) => mgr[u] \in DOMAIN managers
    BY DEF IInv, HasManager, InSet
  <2>3. QED
    BY <1>5, <1>6, <2>1, <2>2, OthersSoFar
<1>9. QED
  BY <1>6, <1>7, <1>8 DEF IInv

-----------------------------------------------------------------------------
(* A step of one request keeps the invariant. *)
(* A request that answers, with its set done or not. *)
LEMMA AnswerIInv ==
  ASSUME IInv, NEW t \in Threads, pc[t] \notin {"storeUcm", "storeCard"}, Answer(t)
  PROVE  IInv'
<1>1. KeepsBase(t)
  BY NothingType DEF Answer, KeepsBase, IInv, TypeOK
<1>2. QED
  BY <1>1, FinishIInv DEF Answer, IInv, TypeOK

LEMMA StepIInv ==
  ASSUME IInv, NEW t \in Threads, Step(t)
  PROVE  IInv'
<1>1. CASE OpenFails(t)
  BY <1>1, FinishIInv DEF OpenFails, KeepsBase, IInv, TypeOK
<1>2. CASE ReadEnds(t)
  BY <1>2, AnswerIInv DEF ReadEnds
<1>3. CASE SetRefused(t)
  BY <1>3, AnswerIInv DEF SetRefused, Asks
<1>4. CASE SetEnds(t)
  BY <1>4, AnswerIInv DEF SetEnds
<1>5. QED
  BY <1>1, <1>2, <1>3, <1>4, SearchIInv, OpenManagerIInv, StoreUcmIInv, StoreCardIInv,
     LoadIInv, SetVerbIInv, SetDeviceIInv, SetModifierIInv, SetThenGetIInv, ResetIInv,
     CloseIInv DEF Step

(* The invariant of the cache. *)
THEOREM Invariant == Spec => []IInv
<1>1. Init => IInv
  BY InitIInv
<1>2. IInv /\ [Next]_vars => IInv'
  <2> SUFFICES ASSUME IInv, [Next]_vars PROVE IInv'
    OBVIOUS
  <2>1. CASE Next
    BY <2>1, RequestIInv, StepIInv DEF Next
  <2>2. CASE UNCHANGED vars
    <3>1. /\ UNCHANGED <<ucm, cardId, managers, pc, op, card, idx, mgr, want, base,
                         overlapped, mixed>>
      BY <2>2 DEF vars, table
    <3>2. TypeOK' /\ HasManager'
      BY <3>1 DEF IInv, TypeOK, HasManager
    <3>3. ~overlapped' => OneOpening' /\ OfTheCard' /\ OneManagerPerCard'
      BY <3>1 DEF IInv, OneOpening, Opening, OfTheCard, OneManagerPerCard
    <3>4. ASSUME NEW t \in Threads PROVE SoFar(t)'
      BY <3>1, AfterSame DEF IInv, SetSoFar, SoFar, InSet
    <3>5. QED
      BY <3>2, <3>3, <3>4 DEF IInv, SetSoFar
  <2>3. QED
    BY <2>1, <2>2
<1>3. QED
  BY <1>1, <1>2, PTL DEF Spec

(* Slots, requests and managers keep their types, however many requests     *)
(* search and fill the table at once.                                       *)
THEOREM TypeCorrect == Spec => []TypeOK
<1>1. IInv => TypeOK
  BY DEF IInv
<1>2. QED
  BY <1>1, Invariant, PTL

(* A request works with a manager of its card, unless a search ran during   *)
(* an opening.                                                              *)
THEOREM ManagerIsOfTheCard == Spec => []RightManager
<1>1. IInv => RightManager
  BY DEF IInv, OfTheCard, RightManager
<1>2. QED
  BY <1>1, Invariant, PTL

(* Under the same condition no card has two managers, and none is lost. *)
THEOREM OneManager == Spec => []OneManagerPerCard
<1>1. IInv => OneManagerPerCard
  BY DEF IInv, OneManagerPerCard
<1>2. QED
  BY <1>1, Invariant, PTL

(* A set that no other request disturbed leaves the setup it was asked for on *)
(* top of the one it found, whatever its shape.                               *)
THEOREM SetIsAsAsked == Spec => []SetAsAsked
<1>1. ASSUME IInv, NEW t \in Threads, pc[t] = "end", t \notin mixed
      PROVE  LET same == want[t].verb \in {NoItem, base[t].verb}
             IN  /\ SetupOf(t).verb = IF same THEN base[t].verb ELSE want[t].verb
                 /\ SetupOf(t).devs = (IF same THEN base[t].devs ELSE {})
                                         \union ({want[t].dev} \ {NoItem})
                 /\ SetupOf(t).mods = (IF same THEN base[t].mods ELSE {})
                                         \union ({want[t].mod} \ {NoItem})
  <2>1. SetupOf(t) = AfterModifier(t) /\ base[t] \in Setups /\ want[t] \in Wants
    BY <1>1 DEF IInv, TypeOK, SetSoFar, SoFar, InSet, SetupOf
  <2>2. AfterVerb(t) \in Setups
    BY <2>1 DEF AfterVerb, Setups, Wants, Unset
  <2>3. /\ AfterModifier(t).verb = AfterVerb(t).verb
        /\ AfterModifier(t).devs = AfterVerb(t).devs \union ({want[t].dev} \ {NoItem})
        /\ AfterModifier(t).mods = AfterVerb(t).mods \union ({want[t].mod} \ {NoItem})
    BY <2>2 DEF AfterModifier, AfterDevice, Setups
  <2>4. QED
    BY <2>1, <2>3 DEF AfterVerb, Unset
<1>2. IInv => SetAsAsked
  BY <1>1 DEF SetAsAsked
<1>3. QED
  BY <1>2, Invariant, PTL
=============================================================================
