---------------------------- MODULE HalControls -----------------------------
(***************************************************************************)
(* A HAL binding over the ALSA core (HAL-interface/hal-interface.c): the   *)
(* start-up that maps its table of tags onto the controls of the card, and *)
(* the verbs ctlset and ctlget that translate tags and percentages.        *)
(*                                                                         *)
(* The binder may stop at any step and start again, with the same table or *)
(* that of another version; the controls of the card stay.  A table is a   *)
(* constant of the program: an entry has a tag, the name of a control, and *)
(* the shape and default of one the HAL adds (auto).  Entries given by     *)
(* numid, decibel scales and labels are left out.                          *)
(***************************************************************************)
EXTENDS AlsaControls

CONSTANTS
    Versions,       \* versions of the HAL binding
    Table,          \* [Versions -> Seq(table entry)]
    Hardware,       \* sets of controls a card may come with
    Queries,        \* queries other clients make of the core: [verb, query]
    TagQueries,     \* sequences of tags asked of the HAL
    Percents,       \* values set through the HAL
    MaxStarts       \* bound: starts of the binder

(* A HAL adds controls of its own, each under a name that nothing else has. *)
TableAssumption ==
    /\ Table \in [Versions -> Seq(TableEntry) \ {<<>>}]
    /\ \A v \in Versions : \A i, j \in DOMAIN Table[v] :
          Table[v][i].auto =>
              Table[v][i].count > 0 /\ (i # j => Table[v][i].name # Table[v][j].name)

(* A card comes with one control of a name, and has a value for each.       *)
HardwareAssumption ==
    \A hw \in Hardware :
        /\ hw \in Seq(ControlRecord) /\ Len(hw) <= MaxNumid
        /\ \A m, n \in DOMAIN hw :
              ~hw[n].user /\ hw[n].value # <<>> /\ (m # n => hw[m].name # hw[n].name)

(* The HAL is only asked for tags it has.                                   *)
InputAssumption ==
    /\ Queries \subseteq [verb : {"get", "set"}, query : Seq(QueryEntry)]
    /\ TagQueries \subseteq Seq(Int) \ {<<>>}
    /\ \A v \in Versions : \A tags \in TagQueries : \A j \in DOMAIN tags :
          \E i \in DOMAIN Table[v] : Table[v][i].tag = tags[j]
    /\ Percents \subseteq Nat /\ MaxStarts \in Nat

ASSUME HalAssumption == TableAssumption /\ HardwareAssumption /\ InputAssumption

VARIABLES
    hal,            \* step of halServiceInit: "down", "add", "map",
                    \* "subscribe", "up" or "failed"
    version,        \* the version that runs, or ran last
    map,            \* halCtls: Seq([num, max, count]) by position in the table
    ask,            \* [Callers -> the tags of a request to the HAL, or <<>>]
    untold,         \* names of controls changed since the HAL was up, and the
                    \* entries of which were not called back
    due,            \* numids of changes the HAL is still to be told of
    starts,         \* history: starts of the binder
    upgrades        \* history: those with another version than before

vars == <<controlVars, hal, version, map, ask, untold, due, starts, upgrades>>

V == INSTANCE HalVolume

Entries0 == [v \in Versions |->
    [i \in DOMAIN Table[v] |->
        [num |-> IF Table[v][i].auto THEN CtlAuto ELSE None,
         max |-> Table[v][i].max, count |-> Table[v][i].count]]]

(* The table the HAL was started with, and the entry of a tag: the first. *)
halCtls == Table[version]
halCtlTagToIndex(tag) ==
    CHOOSE i \in DOMAIN halCtls :
        /\ halCtls[i].tag = tag
        /\ \A j \in DOMAIN halCtls : halCtls[j].tag = tag => i <= j

Init ==
    /\ \E hw \in Hardware :
          /\ card = [n \in DOMAIN hw |-> hw[n]]
          /\ lastNumid = Len(hw)
    /\ call = [t \in Callers |-> NoCall]
    /\ add = NoAdd
    /\ hal = "down" /\ version \in Versions /\ map = Entries0[version]
    /\ ask = [t \in Callers |-> <<>>]
    /\ untold = {} /\ due = {} /\ starts = 0 /\ upgrades = 0

-----------------------------------------------------------------------------
(* halServiceInit.  Registration finds the card by its name, or the HAL is  *)
(* not registered.                                                          *)
Start(v) ==
    /\ hal = "down" /\ starts < MaxStarts
    /\ starts' = starts + 1
    /\ upgrades' = IF v = version \/ starts = 0 THEN upgrades ELSE upgrades + 1
    /\ version' = v
    /\ map' = Entries0[v]
    /\ hal' = "add"
    /\ add' = [NoAdd EXCEPT !.at = "look", !.entries = Table[v]]
    /\ UNCHANGED <<card, lastNumid, call, ask, untold, due>>

RegisterFails ==
    /\ hal = "add" /\ add = [NoAdd EXCEPT !.at = "look", !.entries = halCtls]
    /\ hal' = "failed" /\ add' = NoAdd
    /\ UNCHANGED <<card, lastNumid, call, version, map, ask, untold, due,
                   starts, upgrades>>

(* A change of a control is told to the HAL from its subscription on.       *)
Changed == {n \in DOMAIN card \intersect DOMAIN card' : card'[n] # card[n]}
Told ==
    IF hal = "up"
    THEN /\ due' = due \union Changed
         /\ untold' = untold \union {card[n].name : n \in Changed}
    ELSE UNCHANGED <<due, untold>>

Adding ==
    /\ hal = "add" /\ AddStep
    /\ UNCHANGED <<hal, version, map, ask, untold, due, starts, upgrades>>

(* Mutant: the request is left as it is. *)
AddFailsOpen ==
    /\ hal = "add" /\ add.at = "failed"
    /\ hal' = "failed"
    /\ UNCHANGED <<card, lastNumid, call, add, version, map, ask, untold, due,
                   starts, upgrades>>

AddFails ==
    /\ hal = "add" /\ add.at = "failed"
    /\ hal' = "failed" /\ add' = NoAdd
    /\ UNCHANGED <<card, lastNumid, call, version, map, ask, untold, due,
                   starts, upgrades>>

(* Mutant: the answers are put into the table in the order of their numids. *)
MapSorted ==
    /\ hal = "add" /\ add.at = "done"
    /\ LET ids == {add.got[i].id : i \in DOMAIN add.got}
           nth(i) == CHOOSE j \in DOMAIN add.got :
                        Cardinality({k \in ids : k < add.got[j].id}) =
                            (i - 1) % Cardinality(ids)
       IN  map' = [i \in DOMAIN map |->
                     [num |-> add.got[nth(i)].id, max |-> add.got[nth(i)].max,
                      count |-> add.got[nth(i)].count]]
    /\ hal' = "subscribe" /\ add' = NoAdd
    /\ UNCHANGED <<card, lastNumid, call, version, ask, untold, due, starts, upgrades>>

(* UpdateOneSndCtl on every answer: they are told apart by position only.   *)
Map ==
    /\ hal = "add" /\ add.at = "done"
    /\ map' = [i \in DOMAIN map |->
                 [num |-> add.got[i].id, max |-> add.got[i].max,
                  count |-> add.got[i].count]]
    /\ hal' = "subscribe" /\ add' = NoAdd
    /\ UNCHANGED <<card, lastNumid, call, version, ask, untold, due, starts, upgrades>>

Subscribe ==
    /\ hal = "subscribe"
    /\ hal' \in {"up", "failed"}
    /\ UNCHANGED <<controlVars, version, map, ask, untold, due, starts, upgrades>>

(* The binder stops: everything but the controls of the card is lost. *)
Crash ==
    /\ hal # "down"
    /\ hal' = "down"
    /\ add' = NoAdd
    /\ call' = [t \in Callers |-> NoCall]
    /\ ask' = [t \in Callers |-> <<>>]
    /\ map' = Entries0[version]
    /\ untold' = {} /\ due' = {}
    /\ UNCHANGED <<card, lastNumid, version, starts, upgrades>>

-----------------------------------------------------------------------------
(* The scale volumeNormalise sees in an entry. *)
Scale(e) == [minval |-> 0, maxval |-> e.max, dbmin |-> 0, dbmax |-> 0]
Raw(e, value) == IF e.num > None THEN V!ToRaw(Scale(e), value) ELSE value

(* halSetCtls: all tags to one value.  One tag goes as an object, several   *)
(* as an array of objects.                                                  *)
halSetCtls(t, tags, value) ==
    /\ hal \in {"up", "failed"} /\ ask[t] = <<>>
    /\ LET entry(j) == map[halCtlTagToIndex(tags[j])]
       IN  Open(t, "set", [j \in DOMAIN tags |->
                             Object(entry(j).num, <<Raw(entry(j), value)>>)], None)
    /\ ask' = [ask EXCEPT ![t] = tags]
    /\ UNCHANGED <<hal, version, map, untold, due, starts, upgrades>>

(* halSetCtlByTag, for the ramps: the short form. *)
halSetCtlByTag(t, tag, value) ==
    /\ hal \in {"up", "failed"} /\ ask[t] = <<>>
    /\ LET entry == map[halCtlTagToIndex(tag)]
       IN  Open(t, "set", <<Integer(entry.num), Array(Raw(entry, value), <<>>)>>, None)
    /\ ask' = [ask EXCEPT ![t] = <<tag>>]
    /\ UNCHANGED <<hal, version, map, untold, due, starts, upgrades>>

halGetCtls(t, tags) ==
    /\ hal \in {"up", "failed"} /\ ask[t] = <<>>
    /\ Open(t, "get", [j \in DOMAIN tags |->
                         Integer(map[halCtlTagToIndex(tags[j])].num)], None)
    /\ ask' = [ask EXCEPT ![t] = tags]
    /\ UNCHANGED <<hal, version, map, untold, due, starts, upgrades>>

(* The entries mapped to a control. *)
Mapped(n) == {i \in DOMAIN map : map[i].num = n}

(* Mutant: the last entry mapped to a control answers for it. *)
Entry1Last(n) == CHOOSE i \in Mapped(n) : \A j \in Mapped(n) : i >= j

(* HalGetPrepareResponse: the first entry mapped to a control answers for   *)
(* it; a control of no entry is passed over.                                *)
Entry1(n) == CHOOSE i \in Mapped(n) : \A j \in Mapped(n) : i <= j

HalGetPrepareResponse(t) ==
    {[tag |-> halCtls[Entry1(r.id)].tag,
      val |-> [k \in DOMAIN r.val |->
                 V!ToPercent(Scale(map[Entry1(r.id)]), r.val[k])]] :
        r \in {call[t].got[j] : j \in {k \in DOMAIN call[t].got :
                                         Mapped(call[t].got[k].id) # {}}}}

(* Other clients of the core; an entry without id has any numid.            *)
Client(t, q, garbage) ==
    /\ hal # "down" /\ ask[t] = <<>>
    /\ Open(t, q.verb, q.query, garbage)
    /\ UNCHANGED <<hal, version, map, ask, untold, due, starts, upgrades>>

Serve(t) ==
    /\ CallStep(t)
    /\ Told
    /\ UNCHANGED <<hal, version, map, ask, starts, upgrades>>

(* The answer, through the HAL if it was asked.  A set is a success whatever *)
(* the card refused: halCallAlsaSetCtls ignores the warnings.               *)
Answer(t) ==
    /\ Return(t)
    /\ ask' = [ask EXCEPT ![t] = <<>>]
    /\ UNCHANGED <<hal, version, map, untold, due, starts, upgrades>>

(* Mutant: the loop over the entries stops one too early. *)
halServiceEventShort(n) ==
    /\ hal = "up" /\ n \in due
    /\ due' = due \ {n}
    /\ untold' = untold \ {halCtls[i].name : i \in Mapped(n) \ {Len(map)}}
    /\ UNCHANGED <<controlVars, hal, version, map, ask, starts, upgrades>>

(* halServiceEvent: the callbacks of all entries mapped to the control. *)
halServiceEvent(n) ==
    /\ hal = "up" /\ n \in due
    /\ due' = due \ {n}
    /\ untold' = untold \ {halCtls[i].name : i \in Mapped(n)}
    /\ UNCHANGED <<controlVars, hal, version, map, ask, starts, upgrades>>

-----------------------------------------------------------------------------
Next ==
    \/ \E v \in Versions : Start(v)
    \/ RegisterFails \/ Adding \/ AddFails \/ Map \/ Subscribe \/ Crash
    \/ \E t \in Callers :
          \/ \E tags \in TagQueries, p \in Percents : halSetCtls(t, tags, p)
          \/ \E tags \in TagQueries, p \in Percents : halSetCtlByTag(t, tags[1], p)
          \/ \E tags \in TagQueries : halGetCtls(t, tags)
          \/ \E q \in Queries, g \in 0 .. MaxNumid : Client(t, q, g)
          \/ Serve(t) \/ Answer(t)
    \/ \E n \in 1 .. MaxNumid : halServiceEvent(n)

Spec == Init /\ [][Next]_vars

-----------------------------------------------------------------------------
NumidRange == 1 .. MaxNumid
TypeOK ==
    /\ DOMAIN card \subseteq NumidRange /\ lastNumid \in 0 .. MaxNumid
    /\ \A n \in DOMAIN card : n <= lastNumid /\ Len(card[n].value) >= 1
    /\ \A t \in Callers : /\ call[t].verb \in {"none", "get", "set"}
                          /\ \A j \in DOMAIN call[t].reqs : call[t].reqs[j].used \in -1 .. 1
    /\ add.at \in {"none", "look", "create", "write", "read", "done", "failed"}
    /\ add.at = "none" <=> hal # "add"
    /\ hal \in {"down", "add", "subscribe", "up", "failed"}
    /\ version \in Versions /\ DOMAIN map = DOMAIN halCtls
    /\ due \subseteq NumidRange /\ starts \in 0 .. MaxStarts /\ upgrades \in 0 .. MaxStarts

(* Once the HAL is up every entry of its table is mapped to the control of  *)
(* its name, with the range that control has, wherever an earlier start was *)
(* cut off and whatever version it was.                                     *)
MappedRight ==
    hal \in {"subscribe", "up"} =>
        \A i \in DOMAIN map :
            /\ map[i].num \in DOMAIN card
            /\ card[map[i].num].name = halCtls[i].name
            /\ map[i].max = card[map[i].num].max

(* "If control exist try to reuse it": starting again adds no control.  A   *)
(* numid is given for each added control of the table, and at most once     *)
(* more for each change of version.                                         *)
NumidsBounded ==
    lastNumid <= Cardinality({n \in DOMAIN card : ~card[n].user}) +
        (1 + upgrades) * Cardinality({i \in DOMAIN halCtls : halCtls[i].auto})

(* A get through an up HAL answers each tag, with a value in percent; only  *)
(* a tag that shares its control with an earlier entry is answered under    *)
(* the tag of that one.                                                     *)
TagsAnswered ==
    \A t \in Callers :
        hal = "up" /\ ask[t] # <<>> /\ call[t].verb = "get" /\ Done(t) =>
            LET answers == HalGetPrepareResponse(t)
            IN  /\ \A j \in DOMAIN ask[t] :
                      LET i == halCtlTagToIndex(ask[t][j])
                      IN  \/ \E r \in answers : r.tag = ask[t][j]
                          \/ \E k \in 1 .. i - 1 : map[k].num = map[i].num
                /\ \A r \in answers : \A k \in DOMAIN r.val : r.val[k] \in 0 .. 100

(* A change of a control of the table that its callback was not called for  *)
(* yet is still to be told to the HAL.                                      *)
UntoldIsDue ==
    \A i \in DOMAIN halCtls :
        halCtls[i].name \in untold => map[i].num \in due
=============================================================================
