---------------------------- MODULE AlsaControls ----------------------------
(***************************************************************************)
(* The controls of one sound card and the verbs of the ALSA core that read *)
(* and write them: ctlget and ctlset (Alsa-afb/Alsa-SetGet.c), and         *)
(* addcustomctl (Alsa-afb/Alsa-AddCtl.c), which gives the card the         *)
(* controls of a HAL table.                                                *)
(*                                                                         *)
(* The controls belong to the kernel: they outlive the binder.  A request  *)
(* lists the controls once and then serves them one by one, so that other  *)
(* requests come in between.  A value is the sequence of the values of a   *)
(* control; an integer and an array of one integer are the same, anything  *)
(* else is the empty sequence.  Names, types and scales in an answer are   *)
(* left out, and so is a control that cannot be read.                      *)
(***************************************************************************)
EXTENDS Integers, Sequences, FiniteSets

CONSTANTS
    Callers,        \* threads, each with one request to the core at a time
    MaxNumid        \* bound: numids ever given by the kernel

ASSUME ControlsAssumption == MaxNumid \in Nat

CtlAuto == -1
None    == 0        \* no numid: the kernel gives them from 1

VARIABLES
    card,           \* numid -> [name, user, max, value], the controls
    lastNumid,      \* the last numid the kernel gave
    call,           \* [Callers -> CallRecord], the request under way
    add             \* the one addcustomctl request

controlVars == <<card, lastNumid, call, add>>

ControlRecord == [name : STRING, user : BOOLEAN, max : Nat, value : Seq(Int)]
TableEntry    == [tag : Int, name : STRING, auto : BOOLEAN, max : Nat,
                  count : Nat, value : Int]

(* An entry of a query: a number, an array, an object, or anything else;    *)
(* id is None if there is none, val is empty if there is none.              *)
Integer(id)     == [form |-> "int", id |-> id, val |-> <<>>]
Array(id, val)  == [form |-> "array", id |-> id, val |-> val]
Object(id, val) == [form |-> "object", id |-> id, val |-> val]
QueryEntry      == [form : {"int", "array", "object"}, id : Int, val : Seq(Int)]

(* asked is the query, reqs the ctlRequest array, todo the listed controls  *)
(* not looked at yet, got the answers, wrote the writes that went through.  *)
NoCall == [verb |-> "none", asked |-> <<>>, reqs |-> <<>>, todo |-> <<>>,
           got |-> <<>>, wrote |-> {}]
NoAdd  == [at |-> "none", entries |-> <<>>, num |-> None, got |-> <<>>]

-----------------------------------------------------------------------------
(* A query of two entries is also the short form [numid, value] of a set.   *)
AsValue(e) == IF e.form = "int" THEN <<e.id>>
              ELSE IF e.form = "array" THEN <<e.id>> \o e.val ELSE <<>>

(* Without an id the numid is left as it was on the stack.  used is -1 for  *)
(* what is refused, 0 for what no control has answered to yet.              *)
Parsed(verb, e, garbage) ==
    [num  |-> IF e.id = None THEN garbage ELSE e.id,
     val  |-> IF verb = "set" /\ e.form # "int" /\ e.id # None THEN e.val ELSE <<>>,
     used |-> IF \/ e.id = None
                 \/ verb = "set" /\ e.form # "int" /\ e.val = <<>>
              THEN -1 ELSE 0]

(* A number as the second of two entries drops itself.                      *)
NumidsListParse(verb, query, garbage) ==
    IF verb = "set" /\ Len(query) = 2 /\ query[1].form = "int"
    THEN <<[num |-> query[1].id, val |-> AsValue(query[2]), used |-> 0]>>
    ELSE LET dropped == verb = "set" /\ Len(query) = 2 /\ query[2].form = "int"
         IN  [j \in 1 .. (IF dropped THEN 1 ELSE Len(query)) |->
                Parsed(verb, query[j], garbage)]

(* When not enough values are given the last one is duplicated. *)
Fill(val, count) == [i \in 1 .. count |-> val[IF i <= Len(val) THEN i ELSE Len(val)]]

Ascending(S) == CHOOSE s \in [1 .. Cardinality(S) -> S] :
                    \A i, j \in DOMAIN s : i < j => s[i] < s[j]

Open(t, verb, query, garbage) ==
    /\ call[t].verb = "none"
    /\ call' = [call EXCEPT ![t] =
                  [NoCall EXCEPT !.verb = verb, !.asked = query,
                                 !.reqs = NumidsListParse(verb, query, garbage),
                                 !.todo = Ascending(DOMAIN card)]]
    /\ UNCHANGED <<card, lastNumid, add>>

(* The request a control is served for: the first that names it.            *)
Naming(t, n)  == {j \in DOMAIN call[t].reqs : call[t].reqs[j].num = n}
Serving(t, n) == CHOOSE j \in Naming(t, n) : \A k \in Naming(t, n) : j <= k
Busy(t, verb) == call[t].verb = verb /\ call[t].todo # <<>>
Current(t)    == Head(call[t].todo)

(* A control that the query does not name. *)
Skip(t) ==
    /\ \E verb \in {"get", "set"} : Busy(t, verb)
    /\ Naming(t, Current(t)) = {}
    /\ call[t].verb = "get" => call[t].asked # <<>>
    /\ call' = [call EXCEPT ![t].todo = Tail(@)]
    /\ UNCHANGED <<card, lastNumid, add>>

(* Mutant: every request that names the control is taken as served. *)
AnsweredAll(t, n, used) ==
    [j \in DOMAIN call[t].reqs |->
        IF j \in Naming(t, n) THEN [call[t].reqs[j] EXCEPT !.used = used]
        ELSE call[t].reqs[j]]

Answered(t, n, used) ==
    [call[t].reqs EXCEPT ![Serving(t, n)].used = used]

(* Mutant: a control that is gone is taken as read. *)
ReadGone(t) ==
    /\ Busy(t, "get")
    /\ LET n == Current(t)
       IN  /\ Naming(t, n) # {} \/ call[t].asked = <<>>
           /\ call' = [call EXCEPT
                ![t].todo = Tail(@),
                ![t].reqs = IF @ = <<>> THEN @ ELSE Answered(t, n, 1),
                ![t].got  = IF n \in DOMAIN card
                            THEN Append(@, [id |-> n, val |-> card[n].value]) ELSE @]
    /\ UNCHANGED <<card, lastNumid, add>>

(* alsaGetSingleCtl; a control removed since it was listed is refused.      *)
Read(t) ==
    /\ Busy(t, "get")
    /\ LET n == Current(t)
       IN  /\ Naming(t, n) # {} \/ call[t].asked = <<>>
           /\ call' = [call EXCEPT
                ![t].todo = Tail(@),
                ![t].reqs = IF @ = <<>> THEN @
                            ELSE Answered(t, n, IF n \in DOMAIN card THEN 1 ELSE -1),
                ![t].got  = IF n \in DOMAIN card
                            THEN Append(@, [id |-> n, val |-> card[n].value]) ELSE @]
    /\ UNCHANGED <<card, lastNumid, add>>

(* alsaSetSingleCtl. *)
Write(t) ==
    /\ Busy(t, "set") /\ Naming(t, Current(t)) # {}
    /\ LET n   == Current(t)
           val == call[t].reqs[Serving(t, n)].val
       IN  /\ n \in DOMAIN card /\ val # <<>>
           /\ card' = [card EXCEPT ![n].value = Fill(val, Len(@))]
           /\ call' = [call EXCEPT ![t].todo = Tail(@), ![t].reqs = Answered(t, n, 1),
                                   ![t].wrote = @ \union {<<n, val>>}]
    /\ UNCHANGED <<lastNumid, add>>

(* No value, no control any more, or a value the driver does not take. *)
Refuse(t) ==
    /\ Busy(t, "set") /\ Naming(t, Current(t)) # {}
    /\ call' = [call EXCEPT ![t].todo = Tail(@),
                            ![t].reqs = Answered(t, Current(t), -1)]
    /\ UNCHANGED <<card, lastNumid, add>>

Done(t)   == call[t].verb # "none" /\ call[t].todo = <<>>
Warned(t) == {<<r.num, r.val>> : r \in {call[t].reqs[j] : j \in
                 {k \in DOMAIN call[t].reqs : call[t].reqs[k].used <= 0}}}

(* The answer is a success whatever was refused; warnings tell the rest.    *)
Return(t) ==
    /\ Done(t)
    /\ call' = [call EXCEPT ![t] = NoCall]
    /\ UNCHANGED <<card, lastNumid, add>>

CallStep(t) == Skip(t) \/ Read(t) \/ Write(t) \/ Refuse(t)

-----------------------------------------------------------------------------
(* addcustomctl on the entries [name, auto, max, count, value] of a table,  *)
(* one after the other; auto is a control of software (CTL_AUTO).           *)
Named(name) == {n \in DOMAIN card : card[n].name = name}
Control(e)  == [name |-> e.name, user |-> TRUE, max |-> e.max,
                value |-> Fill(<<0>>, e.count)]

(* Mutant: the number of values is compared with the maximum. *)
SameShapeMistaken(n, e) == card[n].max = e.max /\ Len(card[n].value) = e.max

SameShape(n, e) == card[n].max = e.max /\ Len(card[n].value) = e.count

Entry == Head(add.entries)

(* What there is under the name of the entry: a control to use as it is,    *)
(* nothing, or a control of another shape, which is removed.                *)
Reuse ==
    /\ add.at = "look"
    /\ \E n \in Named(Entry.name) :
          /\ Entry.auto => SameShape(n, Entry)
          /\ add' = [add EXCEPT !.at = "write", !.num = n]
    /\ UNCHANGED <<card, lastNumid, call>>

Remove ==
    /\ add.at = "look" /\ Entry.auto
    /\ \E n \in Named(Entry.name) :
          /\ ~SameShape(n, Entry)
          /\ card' = [m \in DOMAIN card \ {n} |-> card[m]]
          /\ add' = [add EXCEPT !.at = "create"]
    /\ UNCHANGED <<lastNumid, call>>

(* A control that cannot be removed is answered as it is. *)
RemoveFails ==
    /\ add.at = "look" /\ Entry.auto
    /\ \E n \in Named(Entry.name) :
          ~SameShape(n, Entry) /\ add' = [add EXCEPT !.at = "read", !.num = n]
    /\ UNCHANGED <<card, lastNumid, call>>

NotThere ==
    /\ add.at = "look" /\ Named(Entry.name) = {}
    /\ add' = [add EXCEPT !.at = IF Entry.auto THEN "create" ELSE "failed"]
    /\ UNCHANGED <<card, lastNumid, call>>

Create ==
    /\ add.at = "create" /\ lastNumid < MaxNumid
    /\ lastNumid' = lastNumid + 1
    /\ card' = [n \in DOMAIN card \union {lastNumid'} |->
                  IF n = lastNumid' THEN Control(Entry) ELSE card[n]]
    /\ add' = [add EXCEPT !.at = "write", !.num = lastNumid']
    /\ UNCHANGED call

CreateFails ==
    /\ add.at = "create"
    /\ add' = [add EXCEPT !.at = "failed"]
    /\ UNCHANGED <<card, lastNumid, call>>

(* The default value, also into a control of the hardware.                  *)
WriteDefault ==
    /\ add.at = "write"
    /\ card' = [card EXCEPT ![add.num].value = Fill(<<Entry.value>>, Len(@))]
    /\ add' = [add EXCEPT !.at = "read"]
    /\ UNCHANGED <<lastNumid, call>>

WriteDefaultFails ==
    /\ add.at = "write"
    /\ add' = [add EXCEPT !.at = "read"]
    /\ UNCHANGED <<card, lastNumid, call>>

Append1(n) == Append(add.got, [id |-> n, name |-> card[n].name, max |-> card[n].max,
                               count |-> Len(card[n].value)])

ReadBack ==
    /\ add.at = "read"
    /\ add' = [at |-> IF Len(add.entries) = 1 THEN "done" ELSE "look",
               entries |-> Tail(add.entries), num |-> None, got |-> Append1(add.num)]
    /\ UNCHANGED <<card, lastNumid, call>>

AddStep ==
    \/ Reuse \/ Remove \/ RemoveFails \/ NotThere \/ Create \/ CreateFails
    \/ WriteDefault \/ WriteDefaultFails \/ ReadBack

-----------------------------------------------------------------------------
Malformed(e)  == e.id = None
Answers(t)    == {call[t].got[j].id : j \in DOMAIN call[t].got}
Entries(t)    == {call[t].asked[j] : j \in DOMAIN call[t].asked}

(* What a set asks for: [numid, value], or the entries with numid and value. *)
Asked(query) ==
    IF Len(query) = 2 /\ query[1].form = "int"
    THEN {<<query[1].id, AsValue(query[2])>>}
    ELSE {<<e.id, e.val>> : e \in {query[j] : j \in
            {k \in DOMAIN query : /\ query[k].form # "int" /\ ~Malformed(query[k])
                                  /\ query[k].val # <<>>}}}

(* A set writes only what it was asked to, and whatever it was asked to it  *)
(* has written when it answers, or it warns: also for a control named twice,*)
(* named by the garbage of an entry without id, or removed on the way.      *)
AppliedOrWarned ==
    \A t \in Callers : call[t].verb = "set" /\ Done(t) =>
        /\ call[t].wrote \subseteq Asked(call[t].asked)
        /\ Asked(call[t].asked) \subseteq call[t].wrote \union Warned(t)

(* Unless an entry is malformed, a get answers the controls it was asked    *)
(* and no other, each of them once, and warns of those it does not answer.  *)
AnswersAsked ==
    \A t \in Callers :
        call[t].verb = "get" /\ Done(t) /\ (\A e \in Entries(t) : ~Malformed(e)) =>
            /\ Len(call[t].got) = Cardinality(Answers(t))
            /\ call[t].asked # <<>> =>
                 /\ Answers(t) \subseteq {e.id : e \in Entries(t)}
                 /\ \A e \in Entries(t) :
                       e.id \in Answers(t) \/ <<e.id, <<>>>> \in Warned(t)
=============================================================================
