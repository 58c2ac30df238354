-------------------------- MODULE HalControls_proofs ------------------------
(***************************************************************************)
(* Proofs about HalControls and the AlsaControls it works on, for any card,*)
(* any tables and queries, any number of callers and restarts.             *)
(***************************************************************************)
EXTENDS HalControls, FiniteSetTheorems, FunctionTheorems, SequenceTheorems,
        NaturalsInduction, WellFoundedInduction, TLAPS

(* The types, in full. *)
RequestRecord == [num : Int, val : Seq(Int), used : -1 .. 1]
AnswerRecord  == [id : Nat, val : Seq(Int)]
CallRecord    == [verb : {"none", "get", "set"}, asked : Seq(QueryEntry),
                  reqs : Seq(RequestRecord), todo : Seq(Nat),
                  got : Seq(AnswerRecord), wrote : SUBSET (Int \X Seq(Int))]
AddRecord     == [at : {"none", "look", "create", "write", "read", "done", "failed"},
                  entries : Seq(TableEntry), num : Nat,
                  got : Seq([id : Nat, name : STRING, max : Nat, count : Nat])]
MapRecord     == [num : Int, max : Nat, count : Nat]

CardTyped ==
    /\ card \in [DOMAIN card -> ControlRecord] /\ DOMAIN card \subseteq 1 .. lastNumid
    /\ lastNumid \in 0 .. MaxNumid
    /\ \A n \in DOMAIN card : card[n].value # <<>>
HalTyped ==
    /\ hal \in {"down", "add", "subscribe", "up", "failed"} /\ version \in Versions
    /\ map \in [DOMAIN halCtls -> MapRecord] /\ ask \in [Callers -> Seq(Int)]
    /\ untold \subseteq STRING /\ due \subseteq 1 .. MaxNumid
    /\ starts \in 0 .. MaxStarts /\ upgrades \in 0 .. starts

(* A card has one control of a name. *)
OneOfAName == \A m, n \in DOMAIN card : card[m].name = card[n].name => m = n
CardOK     == CardTyped /\ OneOfAName

(* The controls answered so far are those of the entries done, and what is    *)
(* under way is the control of the next entry.                                *)
Right(n, e) == n \in DOMAIN card /\ card[n].name = e.name
Next1       == Len(add.got) + 1
AddSoFar ==
    /\ Len(add.got) + Len(add.entries) = Len(halCtls)
    /\ \A k \in DOMAIN add.entries : add.entries[k] = halCtls[Len(add.got) + k]
    /\ \A i \in DOMAIN add.got :
          Right(add.got[i].id, halCtls[i]) /\ add.got[i].max = card[add.got[i].id].max
    /\ add.at = "done" <=> add.entries = <<>>
    /\ add.at \in {"write", "read"} => Right(add.num, Entry)
    /\ add.at = "create" => Entry.auto /\ Named(Entry.name) = {}
AddOK == /\ add \in AddRecord
         /\ hal = "add" => add.at # "none" /\ AddSoFar
         /\ hal # "add" => add = NoAdd

(* The HAL is told of changes only while it is up. *)
ToldWhileUp == hal # "up" => untold = {} /\ due = {}

(* What a set has written so far. *)
Wanted(r)   == <<r.num, r.val>>
SetSoFar(t) ==
    call[t].verb = "set" =>
        /\ call[t].wrote \subseteq Asked(call[t].asked)
        /\ \A a \in Asked(call[t].asked) :
              \E j \in DOMAIN call[t].reqs : Wanted(call[t].reqs[j]) = a
        /\ \A j \in DOMAIN call[t].reqs :
              LET r == call[t].reqs[j]
              IN  /\ r.val # <<>> => Wanted(r) \in Asked(call[t].asked)
                  /\ r.used = 1 => Wanted(r) \in call[t].wrote

(* What a get has answered so far. *)
GetSoFar(t) ==
    call[t].verb = "get" =>
        /\ \A i, j \in DOMAIN call[t].todo : i # j => call[t].todo[i] # call[t].todo[j]
        /\ \A i \in DOMAIN call[t].todo : call[t].todo[i] \notin Answers(t)
        /\ IsFiniteSet(Answers(t)) /\ Len(call[t].got) = Cardinality(Answers(t))
        /\ call[t].asked # <<>> => \A n \in Answers(t) : Naming(t, n) # {}
        /\ DOMAIN call[t].reqs = DOMAIN call[t].asked
        /\ \A j \in DOMAIN call[t].reqs :
              LET r == call[t].reqs[j]
              IN  /\ r.val = <<>>
                  /\ ~Malformed(call[t].asked[j]) => r.num = call[t].asked[j].id
                  /\ r.used = 1 => r.num \in Answers(t)

CallsSoFar == \A t \in Callers : SetSoFar(t) /\ GetSoFar(t)
CallsOK    == call \in [Callers -> CallRecord] /\ CallsSoFar

IInv == CardOK /\ CallsOK /\ AddOK /\ HalTyped /\ ToldWhileUp /\ MappedRight /\ UntoldIsDue

-----------------------------------------------------------------------------
(* Some naturals have a least one. *)
LEMMA Least ==
  ASSUME NEW S \in SUBSET Nat, S # {}
  PROVE  \E i \in S : \A j \in S : i <= j
<1> DEFINE Less == {ss \in Nat \X Nat : ss[1] < ss[2]}
<1>1. IsWellFoundedOn(Less, Nat)
  BY NatLessThanWellFounded DEF OpToRel
<1>2. PICK i \in S : \A j \in S : ~(<<j, i>> \in Less)
  <2> HIDE DEF Less
  <2> QED
    BY <1>1, WFMin
<1>3. \A j \in S : i <= j
  <2> SUFFICES ASSUME NEW j \in S PROVE i <= j
    OBVIOUS
  <2>1. i \in Nat /\ j \in Nat /\ ~(j < i)
    BY <1>2
  <2>2. QED
    BY <2>1
<1>4. QED
  BY <1>3

(* A finite set of naturals can be listed in ascending order.               *)
Listing(S, s) ==
    s \in [1 .. Cardinality(S) -> S] /\ \A i, j \in DOMAIN s : i < j => s[i] < s[j]

(* Every finite set of numids has such a listing. *)
LEMMA ListingExists ==
  ASSUME NEW S \in SUBSET Nat, IsFiniteSet(S)
  PROVE  \E s : Listing(S, s)
<1> DEFINE Unlisted == {n \in Nat : \E T \in SUBSET Nat :
                          IsFiniteSet(T) /\ Cardinality(T) = n /\ ~\E s : Listing(T, s)}
<1> SUFFICES ASSUME Unlisted # {} PROVE FALSE
  <2>1. Cardinality(S) \in Nat
    BY FS_CardinalityType
  <2>2. QED
    BY <2>1
<1>1. PICK n \in Unlisted : \A m \in Unlisted : n <= m
  BY Least
<1>2. PICK T \in SUBSET Nat : IsFiniteSet(T) /\ Cardinality(T) = n /\ ~\E s : Listing(T, s)
  OBVIOUS
<1>3. T # {}
  <2> SUFFICES ASSUME T = {} PROVE FALSE
    OBVIOUS
  <2>1. Cardinality(T) = 0
    BY FS_EmptySet
  <2>2. Listing(T, [i \in 1 .. 0 |-> 0])
    BY <2>1 DEF Listing
  <2>3. QED
    BY <1>2, <2>2
<1>4. PICK m \in T : \A k \in T : m <= k
  BY <1>3, Least
<1> DEFINE R == T \ {m}
<1>5. R \in SUBSET Nat /\ IsFiniteSet(R) /\ Cardinality(R) = n - 1 /\ n \in Nat /\ n # 0
  BY <1>2, <1>3, FS_RemoveElement, FS_EmptySet
<1>6. PICK r : Listing(R, r)
  <2>1. n - 1 \in Nat /\ ~(n <= n - 1)
    BY <1>5
  <2>2. n - 1 \notin Unlisted
    BY <1>1, <2>1
  <2>3. QED
    BY <1>5, <2>1, <2>2
<1> HIDE DEF Unlisted
<1> DEFINE s == [i \in 1 .. n |-> IF i = 1 THEN m ELSE r[i - 1]]
<1>7. r \in [1 .. n - 1 -> R] /\ \A i, j \in 1 .. n - 1 : i < j => r[i] < r[j]
  BY <1>5, <1>6 DEF Listing
<1>8. s \in [1 .. n -> T]
  BY <1>5, <1>7
<1>9. \A i, j \in 1 .. n : i < j => s[i] < s[j]
  <2> SUFFICES ASSUME NEW i \in 1 .. n, NEW j \in 1 .. n, i < j PROVE s[i] < s[j]
    OBVIOUS
  <2>1. j # 1 /\ j - 1 \in 1 .. n - 1 /\ s[j] = r[j - 1] /\ r[j - 1] \in R
    <3>1. j # 1 /\ j - 1 \in 1 .. n - 1
      BY <1>5
    <3>2. s[j] = r[j - 1]
      BY <3>1
    <3>3. QED
      BY <1>7, <3>1, <3>2
  <2>2. CASE i = 1
    <3>1. s[i] = m /\ m <= r[j - 1] /\ m # r[j - 1] /\ m \in Nat /\ r[j - 1] \in Nat
      BY <1>4, <2>1, <2>2
    <3>2. QED
      BY <2>1, <3>1
  <2>3. CASE i # 1
    BY <1>5, <1>7, <2>1, <2>3
  <2>4. QED
    BY <2>2, <2>3
<1>10. Listing(T, s)
  BY <1>2, <1>8, <1>9 DEF Listing
<1>11. QED
  BY <1>2, <1>10

(* The listing the core makes is one. *)
LEMMA AscendingLists ==
  ASSUME NEW S \in SUBSET Nat, IsFiniteSet(S)
  PROVE  Listing(S, Ascending(S))
<1>1. \E s \in [1 .. Cardinality(S) -> S] : \A i, j \in DOMAIN s : i < j => s[i] < s[j]
  BY ListingExists DEF Listing
<1>2. QED
  BY <1>1 DEF Ascending, Listing

(* The listing is complete. *)
LEMMA AscendingIsAll ==
  ASSUME NEW S \in SUBSET Nat, IsFiniteSet(S)
  PROVE  /\ Ascending(S) \in Seq(S)
         /\ \A i, j \in DOMAIN Ascending(S) : i # j => Ascending(S)[i] # Ascending(S)[j]
         /\ \A n \in S : \E i \in DOMAIN Ascending(S) : Ascending(S)[i] = n
<1> DEFINE s == Ascending(S)
<1>1. s \in [1 .. Cardinality(S) -> S] /\ \A i, j \in DOMAIN s : i < j => s[i] < s[j]
  BY AscendingLists DEF Listing
<1>2. Cardinality(S) \in Nat
  BY FS_CardinalityType
<1> HIDE DEF s
<1>3. \A i, j \in 1 .. Cardinality(S) : i # j => s[i] # s[j]
  <2> SUFFICES ASSUME NEW i \in 1 .. Cardinality(S), NEW j \in 1 .. Cardinality(S), i # j
               PROVE  s[i] # s[j]
    OBVIOUS
  <2>1. s[i] \in Nat /\ s[j] \in Nat
    BY <1>1
  <2>2. i < j \/ j < i
    BY <1>2
  <2>3. s[i] < s[j] \/ s[j] < s[i]
    BY <1>1, <2>2
  <2>4. QED
    BY <2>1, <2>3
<1>4. s \in Seq(S)
  BY <1>1, <1>2, IsASeq
<1>5. s \in Injection(1 .. Cardinality(S), S)
  BY <1>1, <1>3, Fun_IsInj
<1>6. s \in Surjection(1 .. Cardinality(S), S)
  <2>1. Cardinality(1 .. Cardinality(S)) = Cardinality(S)
    BY <1>2, FS_Interval
  <2>2. QED
    BY <1>5, <2>1, FS_Injection
<1>7. \A n \in S : \E i \in 1 .. Cardinality(S) : s[i] = n
  BY <1>6 DEF Surjection
<1>8. DOMAIN s = 1 .. Cardinality(S)
  BY <1>1
<1>9. QED
  BY <1>3, <1>4, <1>7, <1>8 DEF s

-----------------------------------------------------------------------------
(* The operators of the core. *)
LEMMA FillTyped ==
  ASSUME NEW val \in Seq(Int), val # <<>>, NEW count \in Nat
  PROVE  /\ Fill(val, count) \in Seq(Int) /\ Len(Fill(val, count)) = count
         /\ count # 0 => Fill(val, count) # <<>>
<1>1. Len(val) \in Nat /\ Len(val) # 0 /\ \A i \in 1 .. Len(val) : val[i] \in Int
  BY EmptySeq, LenProperties, ElementOfSeq
<1>2. Fill(val, count) \in [1 .. count -> Int]
  BY <1>1 DEF Fill
<1>3. Fill(val, count) \in Seq(Int)
  BY <1>2, IsASeq
<1>4. Len(Fill(val, count)) = count
  BY <1>2, <1>3, LenProperties
<1>5. QED
  BY <1>3, <1>4

(* One entry of a query, parsed. *)
LEMMA ParsedTyped ==
  ASSUME NEW verb \in {"get", "set"}, NEW e \in QueryEntry, NEW garbage \in Int
  PROVE  /\ Parsed(verb, e, garbage) \in RequestRecord
         /\ Parsed(verb, e, garbage).used # 1
         /\ ~Malformed(e) => Parsed(verb, e, garbage).num = e.id
         /\ verb = "get" => Parsed(verb, e, garbage).val = <<>>
         /\ verb = "set" /\ Parsed(verb, e, garbage).val # <<>> =>
               /\ e.form # "int" /\ ~Malformed(e) /\ Parsed(verb, e, garbage).val = e.val
         /\ verb = "set" /\ e.form # "int" /\ ~Malformed(e) =>
               Parsed(verb, e, garbage).val = e.val
<1>1. <<>> \in Seq(Int)
  OBVIOUS
<1>2. QED
  BY <1>1 DEF Parsed, RequestRecord, QueryEntry, Malformed

(* What a query asks for is what its requests say, before any is served. *)
LEMMA Parsing ==
  ASSUME NEW verb \in {"get", "set"}, NEW query \in Seq(QueryEntry), NEW garbage \in Int,
         NEW reqs, reqs = NumidsListParse(verb, query, garbage)
  PROVE  /\ reqs \in Seq(RequestRecord) /\ \A j \in DOMAIN reqs : reqs[j].used # 1
         /\ verb = "get" =>
               /\ DOMAIN reqs = DOMAIN query
               /\ \A j \in DOMAIN reqs :
                     /\ reqs[j].val = <<>>
                     /\ ~Malformed(query[j]) => reqs[j].num = query[j].id
         /\ verb = "set" =>
               /\ \A j \in DOMAIN reqs : reqs[j].val # <<>> => Wanted(reqs[j]) \in Asked(query)
               /\ \A a \in Asked(query) : \E j \in DOMAIN reqs : Wanted(reqs[j]) = a
<1>0. /\ Len(query) \in Nat /\ DOMAIN query = 1 .. Len(query)
      /\ \A j \in 1 .. Len(query) : query[j] \in QueryEntry
  BY LenProperties, ElementOfSeq
<1>1. CASE verb = "set" /\ Len(query) = 2 /\ query[1].form = "int"
  <2> DEFINE r == [num |-> query[1].id, val |-> AsValue(query[2]), used |-> 0]
  <2>1. query[1] \in QueryEntry /\ query[2] \in QueryEntry
    BY <1>0, <1>1
  <2>2. AsValue(query[2]) \in Seq(Int)
    BY <2>1 DEF AsValue, QueryEntry
  <2>3. r \in RequestRecord /\ r.used # 1 /\ Wanted(r) = <<query[1].id, AsValue(query[2])>>
    BY <2>1, <2>2 DEF RequestRecord, QueryEntry, Wanted
  <2>4. reqs = <<r>>
    BY <1>1 DEF NumidsListParse
  <2>5. Asked(query) = {Wanted(r)}
    BY <1>1, <2>3 DEF Asked
  <2> HIDE DEF r
  <2>6. reqs \in Seq(RequestRecord) /\ DOMAIN reqs = {1} /\ reqs[1] = r
    BY <2>3, <2>4
  <2>7. QED
    BY <1>1, <2>3, <2>5, <2>6
<1>2. CASE ~(verb = "set" /\ Len(query) = 2 /\ query[1].form = "int")
  <2> DEFINE dropped == verb = "set" /\ Len(query) = 2 /\ query[2].form = "int"
             len == IF dropped THEN 1 ELSE Len(query)
  <2>1. reqs = [j \in 1 .. len |-> Parsed(verb, query[j], garbage)]
    BY <1>2 DEF NumidsListParse
  <2>2. len \in Nat /\ len <= Len(query)
    BY <1>0
  <2>3. /\ \/ len = Len(query)
           \/ verb = "set" /\ Len(query) = 2 /\ query[2].form = "int" /\ len = 1
    OBVIOUS
  <2> HIDE DEF len
  <2>4. \A j \in 1 .. len : query[j] \in QueryEntry /\ reqs[j] = Parsed(verb, query[j], garbage)
    BY <1>0, <2>1, <2>2
  <2>5. reqs \in [1 .. len -> RequestRecord]
    BY <2>1, <2>4, ParsedTyped
  <2>6. reqs \in Seq(RequestRecord) /\ DOMAIN reqs = 1 .. len
    BY <2>2, <2>5, IsASeq
  <2>7. \A j \in DOMAIN reqs : reqs[j].used # 1
    BY <2>4, <2>6, ParsedTyped
  <2>8. ASSUME verb = "get"
        PROVE  /\ DOMAIN reqs = DOMAIN query
               /\ \A j \in DOMAIN reqs :
                     /\ reqs[j].val = <<>>
                     /\ ~Malformed(query[j]) => reqs[j].num = query[j].id
    BY <1>0, <2>3, <2>4, <2>6, <2>8, ParsedTyped
  <2>9. ASSUME verb = "set"
        PROVE  /\ \A j \in DOMAIN reqs : reqs[j].val # <<>> => Wanted(reqs[j]) \in Asked(query)
               /\ \A a \in Asked(query) : \E j \in DOMAIN reqs : Wanted(reqs[j]) = a
    <3> DEFINE meant(k) == query[k].form # "int" /\ ~Malformed(query[k]) /\ query[k].val # <<>>
    <3>1. ~(Len(query) = 2 /\ query[1].form = "int")
      BY <1>2, <2>9
    <3>2. Asked(query) = {<<e.id, e.val>> : e \in {query[j] : j \in
                            {k \in 1 .. Len(query) : meant(k)}}}
      BY <1>0, <3>1 DEF Asked
    <3> HIDE DEF meant
    <3>3. ASSUME NEW j \in DOMAIN reqs, reqs[j].val # <<>>
          PROVE  Wanted(reqs[j]) \in Asked(query)
      <4>1. j \in 1 .. Len(query) /\ meant(j) /\ Wanted(reqs[j]) = <<query[j].id, query[j].val>>
        BY <2>2, <2>4, <2>6, <2>9, <3>3, ParsedTyped DEF Wanted, meant
      <4>2. QED
        BY <3>2, <4>1
    <3>4. ASSUME NEW a \in Asked(query)
          PROVE  \E j \in DOMAIN reqs : Wanted(reqs[j]) = a
      <4>1. PICK j \in 1 .. Len(query) : meant(j) /\ a = <<query[j].id, query[j].val>>
        BY <3>2
      <4>2. j \in 1 .. len
        <5>1. query[j].form # "int"
          BY <4>1 DEF meant
        <5>2. CASE len = Len(query)
          BY <5>2
        <5>3. CASE Len(query) = 2 /\ query[2].form = "int" /\ len = 1
          BY <5>1, <5>3
        <5>4. QED
          BY <2>3, <5>2, <5>3
      <4>3. Wanted(reqs[j]) = a
        BY <2>4, <2>9, <4>1, <4>2, ParsedTyped DEF Wanted, meant
      <4>4. QED
        BY <2>6, <4>2, <4>3
    <3>5. QED
      BY <3>3, <3>4
  <2>10. QED
    BY <2>6, <2>7, <2>8, <2>9
<1>3. QED
  BY <1>1, <1>2

(* A control is served for a request that names it. *)
LEMMA ServingNames ==
  ASSUME NEW t \in Callers, call[t] \in CallRecord, NEW n, Naming(t, n) # {}
  PROVE  Serving(t, n) \in DOMAIN call[t].reqs /\ call[t].reqs[Serving(t, n)].num = n
<1>1. Naming(t, n) \in SUBSET Nat
  <2>1. call[t].reqs \in Seq(RequestRecord)
    BY DEF CallRecord
  <2>2. DOMAIN call[t].reqs = 1 .. Len(call[t].reqs) /\ Len(call[t].reqs) \in Nat
    BY <2>1, LenProperties
  <2>3. QED
    BY <2>2 DEF Naming
<1>2. \E j \in Naming(t, n) : \A k \in Naming(t, n) : j <= k
  BY <1>1, Least
<1>3. Serving(t, n) \in Naming(t, n)
  BY <1>2 DEF Serving
<1>4. QED
  BY <1>3 DEF Naming

-----------------------------------------------------------------------------
(* The calls to the core, one caller after the other.                       *)
CallOK(t) == call[t] \in CallRecord /\ SetSoFar(t) /\ GetSoFar(t)

(* One step of one caller leaves the others alone. *)
LEMMA OneCaller ==
  ASSUME CallsOK, NEW t \in Callers, call' = [call EXCEPT ![t] = call'[t]], CallOK(t)'
  PROVE  CallsOK'
<1>1. call' \in [Callers -> CallRecord]
  BY DEF CallsOK, CallOK
<1>2. ASSUME NEW u \in Callers PROVE SetSoFar(u)' /\ GetSoFar(u)'
  <2>1. CASE u = t
    BY <2>1 DEF CallOK
  <2>2. CASE u # t
    <3>1. call'[u] = call[u] /\ SetSoFar(u) /\ GetSoFar(u)
      BY <2>2 DEF CallsOK, CallsSoFar
    <3>2. SetSoFar(u)'
      BY <3>1 DEF SetSoFar
    <3>3. Answers(u)' = Answers(u) /\ \A n : Naming(u, n)' = Naming(u, n)
      BY <3>1 DEF Answers, Naming
    <3>4. GetSoFar(u)'
      BY <3>1, <3>3 DEF GetSoFar
    <3>5. QED
      BY <3>2, <3>4
  <2>3. QED
    BY <2>1, <2>2
<1>3. QED
  BY <1>1, <1>2 DEF CallsOK, CallsSoFar

(* A caller without a call. *)
LEMMA NoCallOK ==
  ASSUME NEW t \in Callers, call'[t] = NoCall
  PROVE  CallOK(t)'
<1>1. NoCall \in CallRecord /\ NoCall.verb = "none"
  BY DEF NoCall, CallRecord
<1>2. QED
  BY <1>1 DEF CallOK, SetSoFar, GetSoFar

(* A request that was just parsed has served nothing yet. *)
LEMMA OpenOK ==
  ASSUME CallsOK, CardTyped, NEW t \in Callers, NEW verb \in {"get", "set"},
         NEW query \in Seq(QueryEntry), NEW garbage \in Int, Open(t, verb, query, garbage)
  PROVE  CallsOK'
<1> DEFINE reqs == NumidsListParse(verb, query, garbage)
           todo == Ascending(DOMAIN card)
<1>1. /\ reqs \in Seq(RequestRecord) /\ \A j \in DOMAIN reqs : reqs[j].used # 1
      /\ verb = "get" =>
            /\ DOMAIN reqs = DOMAIN query
            /\ \A j \in DOMAIN reqs :
                  /\ reqs[j].val = <<>>
                  /\ ~Malformed(query[j]) => reqs[j].num = query[j].id
      /\ verb = "set" =>
            /\ \A j \in DOMAIN reqs : reqs[j].val # <<>> => Wanted(reqs[j]) \in Asked(query)
            /\ \A a \in Asked(query) : \E j \in DOMAIN reqs : Wanted(reqs[j]) = a
  BY Parsing
<1>2. /\ todo \in Seq(Nat)
      /\ \A i, j \in DOMAIN todo : i # j => todo[i] # todo[j]
  <2>1. DOMAIN card \in SUBSET Nat /\ IsFiniteSet(DOMAIN card)
    <3>1. lastNumid \in Nat /\ DOMAIN card \subseteq 1 .. lastNumid
      BY DEF CardTyped
    <3>2. IsFiniteSet(1 .. lastNumid)
      BY <3>1, FS_Interval
    <3>3. QED
      BY <3>1, <3>2, FS_Subset
  <2>2. QED
    BY <2>1, AscendingIsAll
<1> DEFINE c == [NoCall EXCEPT !.verb = verb, !.asked = query, !.reqs = reqs, !.todo = todo]
<1>3. call' = [call EXCEPT ![t] = c]
  BY DEF Open
<1> HIDE DEF reqs, todo
<1>4. call'[t] = c
  BY <1>3 DEF CallsOK
<1>5. c \in CallRecord
  <2>1. NoCall \in CallRecord
    BY DEF NoCall, CallRecord
  <2>2. QED
    BY <1>1, <1>2, <2>1 DEF CallRecord
<1>6. /\ c.verb = verb /\ c.asked = query /\ c.reqs = reqs /\ c.todo = todo
      /\ c.got = <<>> /\ c.wrote = {}
  BY DEF NoCall
<1> HIDE DEF c
<1>7. SetSoFar(t)'
  BY <1>1, <1>4, <1>6 DEF SetSoFar
<1>8. GetSoFar(t)'
  <2>1. Answers(t)' = {}
    BY <1>4, <1>6 DEF Answers
  <2>2. IsFiniteSet({}) /\ Cardinality({}) = 0 /\ Len(<<>>) = 0
    BY FS_EmptySet
  <2>3. QED
    BY <1>1, <1>2, <1>4, <1>6, <2>1, <2>2 DEF GetSoFar
<1>9. QED
  BY <1>3, <1>4, <1>5, <1>7, <1>8, OneCaller DEF CallOK

(* Head and tail of a sequence, position by position. *)
LEMMA Tails ==
  ASSUME NEW S, NEW s \in Seq(S), s # <<>>
  PROVE  /\ 1 \in DOMAIN s /\ Head(s) = s[1] /\ Head(s) \in S /\ Tail(s) \in Seq(S)
         /\ Len(Tail(s)) = Len(s) - 1
         /\ \A i \in DOMAIN Tail(s) : i # 0 /\ i + 1 \in DOMAIN s /\ Tail(s)[i] = s[i + 1]
<1>1. Len(s) \in Nat /\ Len(s) # 0 /\ DOMAIN s = 1 .. Len(s)
  BY EmptySeq, LenProperties
<1>2. Tail(s) \in Seq(S) /\ Len(Tail(s)) = Len(s) - 1
      /\ \A i \in 1 .. Len(s) - 1 : Tail(s)[i] = s[i + 1]
  BY HeadTailProperties
<1>3. DOMAIN Tail(s) = 1 .. Len(s) - 1
  BY <1>1, <1>2, LenProperties
<1>4. 1 \in DOMAIN s /\ Head(s) = s[1] /\ s[1] \in S
  BY <1>1, ElementOfSeq
<1>5. \A i \in 1 .. Len(s) - 1 : i # 0 /\ i + 1 \in 1 .. Len(s)
  BY <1>1
<1>6. QED
  BY <1>1, <1>2, <1>3, <1>4, <1>5

(* All but the head stay, one position earlier. *)
LEMMA TailKeeps ==
  ASSUME NEW S, NEW s \in Seq(S), s # <<>>, NEW i \in DOMAIN s, i # 1
  PROVE  i - 1 \in DOMAIN Tail(s) /\ Tail(s)[i - 1] = s[i]
<1>1. Len(s) \in Nat /\ Len(s) # 0 /\ DOMAIN s = 1 .. Len(s)
  BY EmptySeq, LenProperties
<1>2. Tail(s) \in Seq(S) /\ Len(Tail(s)) = Len(s) - 1
      /\ \A j \in 1 .. Len(s) - 1 : Tail(s)[j] = s[j + 1]
  BY HeadTailProperties
<1>3. DOMAIN Tail(s) = 1 .. Len(s) - 1
  BY <1>1, <1>2, LenProperties
<1>4. i - 1 \in 1 .. Len(s) - 1 /\ (i - 1) + 1 = i
  BY <1>1
<1>5. QED
  BY <1>2, <1>3, <1>4

(* One request is marked as served, the others stay as they are. *)
LEMMA AnsweredOne ==
  ASSUME NEW t \in Callers, call[t] \in CallRecord, NEW n, Naming(t, n) # {},
         NEW used \in -1 .. 1, NEW a, a = Answered(t, n, used)
  PROVE  /\ a \in Seq(RequestRecord) /\ DOMAIN a = DOMAIN call[t].reqs
         /\ \A j \in DOMAIN a :
               /\ a[j].num = call[t].reqs[j].num /\ a[j].val = call[t].reqs[j].val
               /\ \/ a[j].used = call[t].reqs[j].used
                  \/ j = Serving(t, n) /\ a[j].num = n /\ a[j].used = used
<1> DEFINE r == call[t].reqs
           k == Serving(t, n)
<1>1. r \in Seq(RequestRecord) /\ k \in DOMAIN r /\ r[k].num = n
  BY ServingNames DEF CallRecord
<1>2. a = [r EXCEPT ![k].used = used]
  BY DEF Answered
<1> HIDE DEF r, k
<1>3. DOMAIN r = 1 .. Len(r) /\ Len(r) \in Nat /\ \A j \in 1 .. Len(r) : r[j] \in RequestRecord
  BY <1>1, LenProperties, ElementOfSeq
<1>4. \A j \in DOMAIN r : /\ a[j] \in RequestRecord
                          /\ a[j].num = r[j].num /\ a[j].val = r[j].val
                          /\ a[j].used = r[j].used \/ (j = k /\ a[j].used = used)
  BY <1>1, <1>2, <1>3 DEF RequestRecord
<1>5. DOMAIN a = DOMAIN r /\ a = [j \in DOMAIN r |-> a[j]]
  BY <1>1, <1>2
<1>6. a \in Seq(RequestRecord)
  BY <1>3, <1>4, <1>5, IsASeq
<1>7. QED
  BY <1>1, <1>4, <1>5, <1>6 DEF r, k

(* A control that is passed over, or refused. *)
LEMMA SkipOK ==
  ASSUME CallsOK, NEW t \in Callers, Skip(t) \/ Refuse(t)
  PROVE  CallsOK'
<1>1. call \in [Callers -> CallRecord] /\ SetSoFar(t) /\ GetSoFar(t)
  BY DEF CallsOK, CallsSoFar
<1>2. /\ call[t] \in CallRecord /\ call[t].todo \in Seq(Nat) /\ call[t].todo # <<>>
      /\ call[t].reqs \in Seq(RequestRecord)
  BY <1>1 DEF Skip, Refuse, Busy, CallRecord
<1> DEFINE c == call'[t]
<1>3. /\ call' = [call EXCEPT ![t] = c] /\ c \in CallRecord
      /\ c.verb = call[t].verb /\ c.asked = call[t].asked /\ c.got = call[t].got
      /\ c.wrote = call[t].wrote /\ c.todo = Tail(call[t].todo)
      /\ DOMAIN c.reqs = DOMAIN call[t].reqs
      /\ \A j \in DOMAIN c.reqs :
            /\ c.reqs[j].num = call[t].reqs[j].num /\ c.reqs[j].val = call[t].reqs[j].val
            /\ c.reqs[j].used = 1 => call[t].reqs[j].used = 1
  <2>1. Tail(call[t].todo) \in Seq(Nat)
    BY <1>2, Tails
  <2>2. CASE Skip(t)
    <3>1. call' = [call EXCEPT ![t].todo = Tail(call[t].todo)]
      BY <2>2 DEF Skip
    <3>2. QED
      BY <1>1, <1>2, <2>1, <3>1 DEF CallRecord
  <2>3. CASE Refuse(t)
    <3> DEFINE a == Answered(t, Current(t), -1)
    <3>1. call' = [call EXCEPT ![t].todo = Tail(call[t].todo), ![t].reqs = a]
      BY <2>3 DEF Refuse
    <3>2. /\ a \in Seq(RequestRecord) /\ DOMAIN a = DOMAIN call[t].reqs
          /\ \A j \in DOMAIN a :
               /\ a[j].num = call[t].reqs[j].num /\ a[j].val = call[t].reqs[j].val
               /\ a[j].used = call[t].reqs[j].used \/ a[j].used = -1
      BY <1>2, <2>3, AnsweredOne DEF Refuse
    <3> HIDE DEF a
    <3>3. /\ c.verb = call[t].verb /\ c.asked = call[t].asked /\ c.got = call[t].got
          /\ c.wrote = call[t].wrote /\ c.todo = Tail(call[t].todo) /\ c.reqs = a
          /\ c \in CallRecord /\ call' = [call EXCEPT ![t] = c]
      BY <1>1, <1>2, <2>1, <3>1, <3>2 DEF CallRecord
    <3> HIDE DEF c
    <3>4. QED
      BY <3>2, <3>3
  <2>4. QED
    BY <2>2, <2>3
<1> HIDE DEF c
<1>4. SetSoFar(t)'
  BY <1>1, <1>3 DEF SetSoFar, Wanted, c
<1>5. GetSoFar(t)'
  <2>1. Answers(t)' = Answers(t)
    BY <1>3 DEF Answers, c
  <2>2. \A n : Naming(t, n)' = Naming(t, n)
    BY <1>3 DEF Naming, c
  <2>3. \A i \in DOMAIN c.todo : i + 1 \in DOMAIN call[t].todo /\ c.todo[i] = call[t].todo[i + 1]
    BY <1>2, <1>3, Tails
  <2>4. DOMAIN c.todo \subseteq Nat
    BY <1>3, LenProperties DEF CallRecord
  <2>5. QED
    BY <1>1, <1>3, <2>1, <2>2, <2>3, <2>4 DEF GetSoFar, c
<1>6. QED
  BY <1>3, <1>4, <1>5, OneCaller DEF CallOK, c

(* A control that is written. *)
LEMMA WriteOK ==
  ASSUME CallsOK, NEW t \in Callers, Write(t)
  PROVE  CallsOK'
<1> DEFINE n == Current(t)
           k == Serving(t, n)
           val == call[t].reqs[k].val
           a == Answered(t, n, 1)
           c == call'[t]
<1>1. call \in [Callers -> CallRecord] /\ SetSoFar(t) /\ call[t].verb = "set"
  BY DEF CallsOK, CallsSoFar, Write, Busy
<1>2. /\ call[t] \in CallRecord /\ call[t].todo \in Seq(Nat) /\ call[t].todo # <<>>
      /\ Naming(t, n) # {} /\ call[t].wrote \in SUBSET (Int \X Seq(Int))
      /\ call[t].reqs \in Seq(RequestRecord)
  BY <1>1 DEF Write, Busy, CallRecord
<1>3. /\ call' = [call EXCEPT ![t].todo = Tail(call[t].todo), ![t].reqs = a,
                              ![t].wrote = call[t].wrote \union {<<n, val>>}]
      /\ val # <<>>
  BY DEF Write
<1>4. Tail(call[t].todo) \in Seq(Nat) /\ n \in Nat
  BY <1>2, Tails DEF Current
<1>5. k \in DOMAIN call[t].reqs /\ call[t].reqs[k].num = n
  BY <1>2, ServingNames
<1>6. val \in Seq(Int) /\ Wanted(call[t].reqs[k]) = <<n, val>>
  <2>1. call[t].reqs[k] \in RequestRecord
    BY <1>2, <1>5
  <2>2. QED
    BY <1>5, <2>1 DEF RequestRecord, Wanted
<1>7. /\ a \in Seq(RequestRecord) /\ DOMAIN a = DOMAIN call[t].reqs
      /\ \A j \in DOMAIN a :
           /\ a[j].num = call[t].reqs[j].num /\ a[j].val = call[t].reqs[j].val
           /\ a[j].used = call[t].reqs[j].used \/ j = k
  BY <1>2, AnsweredOne
<1> HIDE DEF a, n, k, val
<1>8. /\ c.verb = "set" /\ c.asked = call[t].asked /\ c.got = call[t].got
      /\ c.wrote = call[t].wrote \union {<<n, val>>} /\ c.reqs = a
      /\ c \in CallRecord /\ call' = [call EXCEPT ![t] = c]
  <2>1. <<n, val>> \in Int \X Seq(Int)
    BY <1>4, <1>6
  <2>2. call[t].wrote \union {<<n, val>>} \in SUBSET (Int \X Seq(Int))
    BY <1>2, <2>1
  <2> DEFINE wrote == call[t].wrote \union {<<n, val>>}
  <2> HIDE DEF wrote
  <2>3. /\ c.verb = call[t].verb /\ c.asked = call[t].asked /\ c.got = call[t].got
        /\ c.wrote = wrote /\ c.reqs = a
        /\ c \in CallRecord /\ call' = [call EXCEPT ![t] = c]
    BY <1>1, <1>2, <1>3, <1>4, <1>7, <2>2 DEF CallRecord, wrote
  <2>4. QED
    BY <1>1, <2>3 DEF wrote
<1> HIDE DEF c
<1>9. \A j \in DOMAIN a : Wanted(a[j]) = Wanted(call[t].reqs[j])
  BY <1>7 DEF Wanted
<1>10. <<n, val>> \in Asked(call[t].asked)
  BY <1>1, <1>3, <1>5, <1>6 DEF SetSoFar, val
<1>11. SetSoFar(t)'
  BY <1>1, <1>5, <1>6, <1>7, <1>8, <1>9, <1>10 DEF SetSoFar, c
<1>12. GetSoFar(t)'
  BY <1>8 DEF GetSoFar, c
<1>13. QED
  BY <1>8, <1>11, <1>12, OneCaller DEF CallOK, c

(* A control that is read, or refused because it is gone. *)
LEMMA ReadOK ==
  ASSUME CallsOK, CardTyped, NEW t \in Callers, Read(t)
  PROVE  CallsOK'
<1> DEFINE n == Current(t)
           k == Serving(t, n)
           there == n \in DOMAIN card
           a == IF call[t].reqs = <<>> THEN <<>>
                ELSE Answered(t, n, IF there THEN 1 ELSE -1)
           answer == [id |-> n, val |-> card[n].value]
           got == IF there THEN Append(call[t].got, answer) ELSE call[t].got
           c == call'[t]
<1>1. call \in [Callers -> CallRecord] /\ GetSoFar(t) /\ call[t].verb = "get"
  BY DEF CallsOK, CallsSoFar, Read, Busy
<1>2. /\ call[t] \in CallRecord /\ call[t].todo \in Seq(Nat) /\ call[t].todo # <<>>
      /\ Naming(t, n) # {} \/ call[t].asked = <<>>
      /\ call[t].reqs \in Seq(RequestRecord) /\ call[t].got \in Seq(AnswerRecord)
      /\ call[t].asked \in Seq(QueryEntry)
  BY <1>1 DEF Read, Busy, CallRecord
<1>3. call' = [call EXCEPT ![t].todo = Tail(call[t].todo), ![t].reqs = a, ![t].got = got]
  BY DEF Read
<1>4. Tail(call[t].todo) \in Seq(Nat) /\ n \in Nat
  BY <1>2, Tails DEF Current
<1>5. there => answer \in AnswerRecord
  <2>1. there => card[n].value \in Seq(Int)
    BY DEF CardTyped, ControlRecord
  <2>2. QED
    BY <1>4, <2>1 DEF AnswerRecord
<1>6. /\ got \in Seq(AnswerRecord)
      /\ \/ there /\ Len(got) = Len(call[t].got) + 1 /\ got[Len(got)] = answer
         \/ ~there /\ Len(got) = Len(call[t].got)
      /\ \A j \in DOMAIN call[t].got : got[j] = call[t].got[j]
  BY <1>2, <1>5, AppendProperties, LenProperties
<1>7. /\ a \in Seq(RequestRecord) /\ DOMAIN a = DOMAIN call[t].reqs
      /\ \A j \in DOMAIN a :
           /\ a[j].num = call[t].reqs[j].num /\ a[j].val = call[t].reqs[j].val
           /\ \/ a[j].used = call[t].reqs[j].used
              \/ a[j].num = n /\ there
              \/ a[j].used = -1
  <2>1. CASE call[t].reqs = <<>>
    BY <1>2, <2>1
  <2>2. CASE call[t].reqs # <<>>
    <3>1. Naming(t, n) # {}
      <4>1. DOMAIN call[t].reqs = DOMAIN call[t].asked
        BY <1>1 DEF GetSoFar
      <4>2. call[t].asked # <<>>
        BY <1>2, <2>2, <4>1, EmptySeq, LenProperties
      <4>3. QED
        BY <1>2, <4>2
    <3>2. a = Answered(t, n, IF there THEN 1 ELSE -1)
      BY <2>2
    <3> HIDE DEF a, n, k
    <3>3. CASE there
      <4>1. a = Answered(t, n, 1)
        BY <3>2, <3>3
      <4>2. QED
        BY <1>2, <3>1, <3>3, <4>1, AnsweredOne
    <3>4. CASE ~there
      <4>1. a = Answered(t, n, -1)
        BY <3>2, <3>4
      <4>2. QED
        BY <1>2, <3>1, <4>1, AnsweredOne
    <3>5. QED
      BY <3>3, <3>4
  <2>3. QED
    BY <2>1, <2>2
<1> HIDE DEF a, got, k
<1>8. /\ c.verb = "get" /\ c.asked = call[t].asked /\ c.got = got
      /\ c.todo = Tail(call[t].todo) /\ c.reqs = a
      /\ c \in CallRecord /\ call' = [call EXCEPT ![t] = c]
  BY <1>1, <1>2, <1>3, <1>4, <1>6, <1>7 DEF CallRecord
<1> HIDE DEF c
<1>9. SetSoFar(t)'
  BY <1>8 DEF SetSoFar, c
<1>10. Answers(t)' = IF there THEN Answers(t) \union {n} ELSE Answers(t)
  <2>1. Answers(t)' = {got[j].id : j \in DOMAIN got}
    BY <1>8 DEF Answers, c
  <2>2. /\ DOMAIN got = 1 .. Len(got) /\ Len(call[t].got) \in Nat
        /\ DOMAIN call[t].got = 1 .. Len(call[t].got)
    BY <1>2, <1>6, LenProperties
  <2>3. CASE there
    <3>1. DOMAIN got = DOMAIN call[t].got \union {Len(got)}
      <4>1. Len(got) = Len(call[t].got) + 1
        BY <1>6, <2>3
      <4>2. QED
        BY <2>2, <4>1
    <3>2. got[Len(got)].id = n
      BY <1>6, <2>3
    <3>3. QED
      BY <1>6, <2>1, <2>3, <3>1, <3>2 DEF Answers
  <2>4. CASE ~there
    <3>1. DOMAIN got = DOMAIN call[t].got
      BY <1>6, <2>2, <2>4
    <3>2. QED
      BY <1>6, <2>1, <2>4, <3>1 DEF Answers
  <2>5. QED
    BY <2>3, <2>4
<1>11. \A m : Naming(t, m)' = Naming(t, m)
  BY <1>7, <1>8 DEF Naming, c
<1>12. /\ \A i \in DOMAIN c.todo : /\ i # 0 /\ i + 1 \in DOMAIN call[t].todo
                                   /\ c.todo[i] = call[t].todo[i + 1]
       /\ 1 \in DOMAIN call[t].todo /\ n = call[t].todo[1]
  BY <1>2, <1>8, Tails DEF Current
<1>13. DOMAIN c.todo \subseteq Nat
  BY <1>8, LenProperties DEF CallRecord
<1>14. n \notin Answers(t)
  BY <1>1, <1>12 DEF GetSoFar
<1>15. IsFiniteSet(Answers(t)') /\ Len(got) = Cardinality(Answers(t)')
  <2>1. IsFiniteSet(Answers(t)) /\ Len(call[t].got) = Cardinality(Answers(t))
    BY <1>1 DEF GetSoFar
  <2>2. QED
    BY <1>6, <1>10, <1>14, <2>1, FS_AddElement
<1>16. /\ \A i, j \in DOMAIN c.todo : i # j => c.todo[i] # c.todo[j]
       /\ \A i \in DOMAIN c.todo : c.todo[i] \notin Answers(t)'
  BY <1>1, <1>10, <1>12, <1>13 DEF GetSoFar
<1>17. c.asked # <<>> => \A m \in Answers(t)' : Naming(t, m)' # {}
  BY <1>1, <1>2, <1>8, <1>10, <1>11 DEF GetSoFar
<1>18. DOMAIN c.reqs = DOMAIN c.asked
  BY <1>1, <1>7, <1>8 DEF GetSoFar
<1>19. \A j \in DOMAIN c.reqs :
          /\ c.reqs[j].val = <<>>
          /\ ~Malformed(c.asked[j]) => c.reqs[j].num = c.asked[j].id
          /\ c.reqs[j].used = 1 => c.reqs[j].num \in Answers(t)'
  BY <1>1, <1>7, <1>8, <1>10 DEF GetSoFar
<1>20. GetSoFar(t)'
  BY <1>8, <1>15, <1>16, <1>17, <1>18, <1>19 DEF GetSoFar, c
<1>21. QED
  BY <1>8, <1>9, <1>20, OneCaller DEF CallOK, c

-----------------------------------------------------------------------------
(* A step that changes values of controls at most. *)
SameControls ==
    /\ DOMAIN card' = DOMAIN card /\ lastNumid' = lastNumid /\ card' = [n \in DOMAIN card' |-> card'[n]]
    /\ \A n \in DOMAIN card :
          /\ card'[n] \in ControlRecord /\ card'[n].value # <<>>
          /\ card'[n].name = card[n].name /\ card'[n].max = card[n].max
          /\ card'[n].user = card[n].user /\ Len(card'[n].value) = Len(card[n].value)

(* Writing a value of a control is such a step. *)
LEMMA ValueWritten ==
  ASSUME CardTyped, NEW n \in DOMAIN card, NEW val \in Seq(Int), val # <<>>,
         card' = [card EXCEPT ![n].value = Fill(val, Len(@))], lastNumid' = lastNumid
  PROVE  SameControls
<1>1. /\ card \in [DOMAIN card -> ControlRecord] /\ card[n] \in ControlRecord
      /\ \A m \in DOMAIN card : card[m].value # <<>>
  BY DEF CardTyped
<1>2. card[n].value \in Seq(Int) /\ card[n].value # <<>>
  BY <1>1 DEF ControlRecord
<1>3. Len(card[n].value) \in Nat /\ Len(card[n].value) # 0
  BY <1>2, EmptySeq, LenProperties
<1> DEFINE f == Fill(val, Len(card[n].value))
<1>4. f \in Seq(Int) /\ Len(f) = Len(card[n].value) /\ f # <<>>
  BY <1>3, FillTyped
<1>5. card' = [card EXCEPT ![n].value = f]
  OBVIOUS
<1> HIDE DEF f
<1>6. DOMAIN card' = DOMAIN card /\ card' = [m \in DOMAIN card' |-> card'[m]]
  BY <1>5
<1>7. ASSUME NEW m \in DOMAIN card
      PROVE  /\ card'[m] \in ControlRecord /\ card'[m].value # <<>>
             /\ card'[m].name = card[m].name /\ card'[m].max = card[m].max
             /\ card'[m].user = card[m].user /\ Len(card'[m].value) = Len(card[m].value)
  <2>1. CASE m = n
    <3>1. card'[m] = [card[n] EXCEPT !.value = f]
      BY <1>5, <2>1
    <3>2. QED
      BY <1>1, <1>4, <2>1, <3>1 DEF ControlRecord
  <2>2. CASE m # n
    <3>1. card'[m] = card[m]
      BY <1>5, <2>2
    <3>2. QED
      BY <1>1, <3>1
  <2>3. QED
    BY <2>1, <2>2
<1>8. QED
  BY <1>6, <1>7 DEF SameControls

(* So is one that leaves the card alone. *)
LEMMA NothingWritten ==
  ASSUME CardTyped, UNCHANGED <<card, lastNumid>>
  PROVE  SameControls
BY DEF CardTyped, SameControls

(* The card stays well-formed. *)
LEMMA CardKept ==
  ASSUME CardOK, SameControls
  PROVE  CardOK'
BY DEF CardOK, CardTyped, OneOfAName, SameControls

(* Adding the controls of a table: what the next entry is. *)
LEMMA NextEntry ==
  ASSUME AddOK, hal = "add", version \in Versions, add.at # "done"
  PROVE  /\ add.entries \in Seq(TableEntry) /\ add.entries # <<>>
         /\ Entry \in TableEntry /\ Next1 \in DOMAIN halCtls /\ Entry = halCtls[Next1]
         /\ DOMAIN add.got = 1 .. Len(add.got) /\ Len(add.got) \in Nat
         /\ DOMAIN add.got \subseteq DOMAIN halCtls
         /\ Entry.auto => /\ Entry.count > 0
                          /\ \A i \in DOMAIN add.got : halCtls[i].name # Entry.name
<1>1. /\ add.entries \in Seq(TableEntry) /\ add.entries # <<>>
      /\ DOMAIN add.got = 1 .. Len(add.got) /\ Len(add.got) \in Nat
  BY LenProperties DEF AddOK, AddSoFar, AddRecord
<1>2. /\ Len(add.entries) \in Nat /\ 1 \in DOMAIN add.entries
      /\ Entry = add.entries[1] /\ Entry \in TableEntry /\ Len(add.entries) # 0
  BY <1>1, Tails, LenProperties, EmptySeq DEF Entry
<1>3. /\ DOMAIN halCtls = 1 .. Len(halCtls) /\ Len(halCtls) \in Nat
  BY HalAssumption, LenProperties DEF TableAssumption, halCtls
<1>4. Entry = halCtls[Next1] /\ Len(add.got) + Len(add.entries) = Len(halCtls)
  BY <1>2 DEF AddOK, AddSoFar, Next1
<1>5. Next1 \in DOMAIN halCtls /\ DOMAIN add.got \subseteq DOMAIN halCtls
      /\ \A i \in DOMAIN add.got : i # Next1
  <2> DEFINE g == Len(add.got)
             e == Len(add.entries)
  <2>1. g \in Nat /\ e \in Nat /\ e # 0 /\ g + e = Len(halCtls) /\ Next1 = g + 1
        /\ DOMAIN add.got = 1 .. g
    BY <1>1, <1>2, <1>4 DEF Next1
  <2> HIDE DEF g, e
  <2>2. g + 1 \in 1 .. Len(halCtls) /\ g <= Len(halCtls)
    BY <1>3, <2>1
  <2>3. \A i \in 1 .. g : i \in 1 .. Len(halCtls) /\ i # g + 1
    BY <1>3, <2>1, <2>2
  <2>4. QED
    BY <1>3, <2>1, <2>2, <2>3
<1>6. Entry.auto => /\ Entry.count > 0
                    /\ \A i \in DOMAIN add.got : halCtls[i].name # Entry.name
  BY <1>4, <1>5, HalAssumption DEF TableAssumption, halCtls
<1>7. QED
  BY <1>1, <1>2, <1>4, <1>5, <1>6

(* The controls answered stay: so do the answers about them. *)
LEMMA AnswersKept ==
  ASSUME AddOK, hal = "add", version \in Versions,
         \A i \in DOMAIN add.got :
            LET m == add.got[i].id
            IN  m \in DOMAIN card => /\ m \in DOMAIN card' /\ card'[m].name = card[m].name
                                     /\ card'[m].max = card[m].max,
         UNCHANGED <<hal, version>>, add' \in AddRecord, add'.at # "none",
         add'.got = add.got, add'.entries = add.entries, add'.at = "done" <=> add.at = "done",
         add'.at \in {"write", "read"} => Right(add.num, Entry)',
         add'.at = "create" => Entry.auto /\ Named(Entry.name)' = {}
  PROVE  AddOK'
<1>1. Entry' = Entry /\ halCtls' = halCtls
  BY DEF Entry, halCtls
<1>2. AddSoFar
  BY DEF AddOK
<1>3. /\ (Len(add.got) + Len(add.entries) = Len(halCtls))'
      /\ (\A k \in DOMAIN add.entries : add.entries[k] = halCtls[Len(add.got) + k])'
  BY <1>1, <1>2 DEF AddSoFar
<1>4. (add.at = "done" <=> add.entries = <<>>)'
  BY <1>2 DEF AddSoFar
<1>5. (add.at = "create" => Entry.auto /\ Named(Entry.name) = {})'
  BY <1>1
<1>6. (\A i \in DOMAIN add.got :
          Right(add.got[i].id, halCtls[i]) /\ add.got[i].max = card[add.got[i].id].max)'
  <2> SUFFICES ASSUME NEW i \in DOMAIN add.got
               PROVE  /\ Right(add.got[i].id, halCtls[i])'
                      /\ add'.got[i].max = card'[add'.got[i].id].max
    OBVIOUS
  <2>1. /\ add.got[i].id \in DOMAIN card /\ card[add.got[i].id].name = halCtls[i].name
        /\ add.got[i].max = card[add.got[i].id].max
    BY <1>2 DEF AddSoFar, Right
  <2>2. /\ add.got[i].id \in DOMAIN card'
        /\ card'[add.got[i].id].name = card[add.got[i].id].name
        /\ card'[add.got[i].id].max = card[add.got[i].id].max
    BY <2>1
  <2>3. QED
    BY <1>1, <2>1, <2>2 DEF Right
<1>7. (add.at \in {"write", "read"} => Right(add.num, Entry))'
  OBVIOUS
<1>8. AddSoFar'
  BY ZenonT(30), <1>3, <1>4, <1>5, <1>6, <1>7 DEF AddSoFar
<1>9. QED
  BY <1>8 DEF AddOK

(* The controls answered so far stay in such a step. *)
LEMMA ControlsKept ==
  ASSUME SameControls
  PROVE  \A i \in DOMAIN add.got :
            LET m == add.got[i].id
            IN  m \in DOMAIN card => /\ m \in DOMAIN card' /\ card'[m].name = card[m].name
                                     /\ card'[m].max = card[m].max
BY DEF SameControls

(* addcustomctl keeps the card and its own answers right. *)
LEMMA AddStepOK ==
  ASSUME CardOK, AddOK, HalTyped, hal = "add", AddStep, UNCHANGED <<hal, version>>
  PROVE  CardOK' /\ AddOK'
<1> USE DEF HalTyped
<1>1. CardTyped /\ OneOfAName /\ add \in AddRecord /\ AddSoFar
  BY DEF CardOK, AddOK
<1>2. add.at # "done"
  BY DEF AddStep, Reuse, Remove, RemoveFails, NotThere, Create, CreateFails,
         WriteDefault, WriteDefaultFails, ReadBack
<1>3. /\ add.entries \in Seq(TableEntry) /\ add.entries # <<>>
      /\ Entry \in TableEntry /\ Next1 \in DOMAIN halCtls /\ Entry = halCtls[Next1]
      /\ DOMAIN add.got = 1 .. Len(add.got) /\ Len(add.got) \in Nat
      /\ DOMAIN add.got \subseteq DOMAIN halCtls
      /\ Entry.auto => /\ Entry.count > 0
                       /\ \A i \in DOMAIN add.got : halCtls[i].name # Entry.name
  BY <1>2, NextEntry
<1>4. /\ DOMAIN card \subseteq Nat
      /\ \A i \in DOMAIN add.got :
            /\ add.got[i].id \in DOMAIN card
            /\ card[add.got[i].id].name = halCtls[i].name
  <2>1. lastNumid \in Nat /\ DOMAIN card \subseteq 1 .. lastNumid
    BY <1>1 DEF CardTyped
  <2>2. \A i \in DOMAIN add.got : Right(add.got[i].id, halCtls[i])
    BY <1>1 DEF AddSoFar
  <2>3. QED
    BY <2>1, <2>2 DEF Right
<1>5. ASSUME UNCHANGED <<card, lastNumid>>
      PROVE  SameControls /\ CardOK'
  BY <1>1, <1>5, NothingWritten, CardKept
<1>6. CASE Reuse
  <2>1. PICK n \in Named(Entry.name) : add' = [add EXCEPT !.at = "write", !.num = n]
    BY <1>6 DEF Reuse
  <2>2. n \in DOMAIN card /\ card[n].name = Entry.name /\ n \in Nat
    BY <1>4 DEF Named
  <2>3. add' \in AddRecord /\ add'.at = "write" /\ add'.num = n
        /\ add'.got = add.got /\ add'.entries = add.entries
    BY <1>1, <2>1, <2>2 DEF AddRecord
  <2>4. UNCHANGED <<card, lastNumid>>
    BY <1>6 DEF Reuse
  <2>5. Right(add.num, Entry)'
    BY <2>2, <2>3, <2>4 DEF Right, Entry
  <2>6. QED
    BY <1>2, <1>5, <2>3, <2>4, <2>5, AnswersKept, ControlsKept
<1>7. CASE Remove
  <2>1. PICK n \in Named(Entry.name) : /\ card' = [m \in DOMAIN card \ {n} |-> card[m]]
                                       /\ add' = [add EXCEPT !.at = "create"]
    BY <1>7 DEF Remove
  <2>2. n \in DOMAIN card /\ card[n].name = Entry.name /\ Entry.auto /\ lastNumid' = lastNumid
    BY <1>7 DEF Named, Remove
  <2>3. add' \in AddRecord /\ add'.at = "create"
        /\ add'.got = add.got /\ add'.entries = add.entries
    BY <1>1, <2>1 DEF AddRecord
  <2>4. CardOK'
    BY <1>1, <2>1, <2>2 DEF CardOK, CardTyped, OneOfAName
  <2>5. Named(Entry.name)' = {}
    <3>1. Entry' = Entry
      BY <2>3 DEF Entry
    <3>2. QED
      BY <1>1, <2>1, <2>2, <3>1 DEF Named, OneOfAName
  <2>6. \A i \in DOMAIN add.got : add.got[i].id # n
    BY <1>3, <1>4, <2>2
  <2>7. QED
    <3>1. \A i \in DOMAIN add.got :
            LET m == add.got[i].id
            IN  m \in DOMAIN card => /\ m \in DOMAIN card' /\ card'[m].name = card[m].name
                                     /\ card'[m].max = card[m].max
      BY <2>1, <2>6
    <3>2. Entry' = Entry
      BY <2>3 DEF Entry
    <3>3. QED
      BY <1>2, <2>2, <2>3, <2>4, <2>5, <3>1, <3>2, AnswersKept
<1>8. CASE RemoveFails
  <2>1. PICK n \in Named(Entry.name) : add' = [add EXCEPT !.at = "read", !.num = n]
    BY <1>8 DEF RemoveFails
  <2>2. n \in DOMAIN card /\ card[n].name = Entry.name /\ n \in Nat
    BY <1>4 DEF Named
  <2>3. add' \in AddRecord /\ add'.at = "read" /\ add'.num = n
        /\ add'.got = add.got /\ add'.entries = add.entries
    BY <1>1, <2>1, <2>2 DEF AddRecord
  <2>4. UNCHANGED <<card, lastNumid>>
    BY <1>8 DEF RemoveFails
  <2>5. Right(add.num, Entry)'
    BY <2>2, <2>3, <2>4 DEF Right, Entry
  <2>6. QED
    BY <1>2, <1>5, <2>3, <2>4, <2>5, AnswersKept, ControlsKept
<1>9. CASE NotThere
  <2>1. UNCHANGED <<card, lastNumid>> /\ Named(Entry.name) = {}
    BY <1>9 DEF NotThere
  <2>2. /\ add' \in AddRecord /\ add'.got = add.got /\ add'.entries = add.entries
        /\ \/ add'.at = "create" /\ Entry.auto
           \/ add'.at = "failed"
    BY <1>1, <1>9 DEF NotThere, AddRecord
  <2>3. Entry' = Entry /\ Named(Entry.name)' = {}
    BY <2>1, <2>2 DEF Entry, Named
  <2>4. QED
    BY <1>2, <1>5, <2>1, <2>2, <2>3, AnswersKept, ControlsKept
<1>10. CASE Create
  <2> DEFINE n == lastNumid + 1
  <2>1. /\ lastNumid < MaxNumid /\ lastNumid' = n
        /\ card' = [m \in DOMAIN card \union {n} |->
                      IF m = n THEN Control(Entry) ELSE card[m]]
        /\ add' = [add EXCEPT !.at = "write", !.num = n]
        /\ Entry.auto /\ Named(Entry.name) = {}
    BY <1>1, <1>10 DEF Create, AddSoFar
  <2>2. n \in Nat /\ n \notin DOMAIN card /\ n \in 1 .. n /\ 1 .. lastNumid \subseteq 1 .. n
        /\ n \in 0 .. MaxNumid
    BY <1>1, <2>1, ControlsAssumption DEF CardTyped
  <2>3. /\ Control(Entry) \in ControlRecord /\ Control(Entry).name = Entry.name
        /\ Control(Entry).value # <<>>
    <3>1. <<0>> \in Seq(Int) /\ <<0>> # <<>> /\ Entry.count \in Nat /\ Entry.count # 0
      BY <1>3, <2>1 DEF TableEntry
    <3>2. Fill(<<0>>, Entry.count) \in Seq(Int) /\ Fill(<<0>>, Entry.count) # <<>>
      BY <3>1, FillTyped
    <3>3. QED
      BY <1>3, <3>2 DEF Control, ControlRecord, TableEntry
  <2> HIDE DEF n
  <2>4. add' \in AddRecord /\ add'.at = "write" /\ add'.num = n
        /\ add'.got = add.got /\ add'.entries = add.entries
    BY <1>1, <2>1, <2>2 DEF AddRecord
  <2>5. /\ DOMAIN card' = DOMAIN card \union {n} /\ card'[n] = Control(Entry)
        /\ \A m \in DOMAIN card : card'[m] = card[m]
        /\ card' = [m \in DOMAIN card' |-> card'[m]]
    BY <2>1, <2>2
  <2>6. CardTyped'
    BY <1>1, <2>1, <2>2, <2>3, <2>5 DEF CardTyped
  <2>7. OneOfAName'
    <3>1. \A m \in DOMAIN card : card[m].name # Entry.name
      BY <2>1 DEF Named
    <3>2. QED
      BY <1>1, <2>2, <2>3, <2>5, <3>1 DEF OneOfAName
  <2>8. Right(add.num, Entry)'
    BY <2>3, <2>4, <2>5 DEF Right, Entry
  <2>9. \A i \in DOMAIN add.got :
            LET m == add.got[i].id
            IN  m \in DOMAIN card => /\ m \in DOMAIN card' /\ card'[m].name = card[m].name
                                     /\ card'[m].max = card[m].max
    BY <2>5
  <2>10. AddOK'
    BY <1>2, <2>4, <2>8, <2>9, AnswersKept
  <2>11. QED
    BY <2>6, <2>7, <2>10 DEF CardOK
<1>11. CASE CreateFails
  <2>1. UNCHANGED <<card, lastNumid>>
    BY <1>11 DEF CreateFails
  <2>2. /\ add' \in AddRecord /\ add'.got = add.got /\ add'.entries = add.entries
        /\ add'.at = "failed"
    BY <1>1, <1>11 DEF CreateFails, AddRecord
  <2>3. QED
    BY <1>2, <1>5, <2>1, <2>2, AnswersKept, ControlsKept
<1>12. CASE WriteDefault
  <2>1. /\ card' = [card EXCEPT ![add.num].value = Fill(<<Entry.value>>, Len(@))]
        /\ lastNumid' = lastNumid /\ add.at = "write"
    BY <1>12 DEF WriteDefault
  <2>2. /\ add' \in AddRecord /\ add'.got = add.got /\ add'.entries = add.entries
        /\ add'.at = "read" /\ add'.num = add.num
    BY <1>1, <1>12 DEF WriteDefault, AddRecord
  <2>3. Right(add.num, Entry)
    BY <1>1, <2>1 DEF AddSoFar
  <2>4. <<Entry.value>> \in Seq(Int) /\ <<Entry.value>> # <<>>
    BY <1>3 DEF TableEntry
  <2>5. SameControls
    BY <1>1, <2>1, <2>3, <2>4, ValueWritten DEF Right
  <2>6. Right(add.num, Entry)'
    BY <2>2, <2>3, <2>5 DEF Right, Entry, SameControls
  <2>7. QED
    BY <1>2, <2>2, <2>5, <2>6, CardKept, AnswersKept, ControlsKept
<1>13. CASE WriteDefaultFails
  <2>1. UNCHANGED <<card, lastNumid>> /\ add.at = "write"
    BY <1>13 DEF WriteDefaultFails
  <2>2. /\ add' \in AddRecord /\ add'.got = add.got /\ add'.entries = add.entries
        /\ add'.at = "read" /\ add'.num = add.num
    BY <1>1, <1>13 DEF WriteDefaultFails, AddRecord
  <2>3. Right(add.num, Entry)'
    BY <1>1, <2>1, <2>2 DEF Right, Entry, AddSoFar
  <2>4. QED
    BY <1>2, <1>5, <2>1, <2>2, <2>3, AnswersKept, ControlsKept
<1>14. CASE ReadBack
  <2>1. UNCHANGED <<card, lastNumid>> /\ add.at = "read" /\ Right(add.num, Entry)
    BY <1>1, <1>14 DEF ReadBack, AddSoFar
  <2> DEFINE x == [id |-> add.num, name |-> card[add.num].name, max |-> card[add.num].max,
                   count |-> Len(card[add.num].value)]
             got == Append(add.got, x)
             A == [id : Nat, name : STRING, max : Nat, count : Nat]
  <2>2. add' = [at |-> IF Len(add.entries) = 1 THEN "done" ELSE "look",
                entries |-> Tail(add.entries), num |-> None, got |-> got]
    BY <1>14 DEF ReadBack, Append1
  <2>3. x \in A
    <3>1. card[add.num] \in ControlRecord /\ add.num \in Nat
      BY <1>1, <2>1 DEF CardTyped, Right, AddRecord
    <3>2. Len(card[add.num].value) \in Nat
      BY <3>1, LenProperties DEF ControlRecord
    <3>3. QED
      BY <3>1, <3>2 DEF ControlRecord
  <2>4. add.got \in Seq(A)
    BY <1>1 DEF AddRecord
  <2>5. x.id = add.num /\ x.max = card[add.num].max
    OBVIOUS
  <2> HIDE DEF x, A
  <2>6. /\ got \in Seq(A) /\ Len(got) = Next1 /\ DOMAIN got = 1 .. Next1 /\ got[Next1] = x
        /\ \A i \in DOMAIN add.got : got[i] = add.got[i]
    BY <1>3, <2>3, <2>4, AppendProperties, LenProperties DEF Next1
  <2> HIDE DEF got
  <2>7. /\ Tail(add.entries) \in Seq(TableEntry)
        /\ Len(Tail(add.entries)) = Len(add.entries) - 1
        /\ \A i \in DOMAIN Tail(add.entries) :
              i + 1 \in DOMAIN add.entries /\ Tail(add.entries)[i] = add.entries[i + 1]
    BY <1>3, Tails
  <2>8. add' \in AddRecord
    BY <2>2, <2>6, <2>7 DEF AddRecord, A, None
  <2>9. /\ add'.got = got /\ add'.entries = Tail(add.entries)
        /\ add'.at \in {"done", "look"} /\ (add'.at = "done" <=> Len(add.entries) = 1)
    BY <2>2
  <2>10. halCtls' = halCtls
    BY DEF halCtls
  <2>11. Len(add.entries) \in Nat /\ Len(add.got) \in Nat /\ Len(add.entries) # 0
    BY <1>3, EmptySeq, LenProperties
  <2>12. (Len(add.got) + Len(add.entries) = Len(halCtls))'
    <3>1. Len(add.got) + Len(add.entries) = Len(halCtls)
      BY <1>1 DEF AddSoFar
    <3>2. Len(got) = Len(add.got) + 1
      BY <2>6 DEF Next1
    <3>3. Len(got) + Len(Tail(add.entries)) = Len(halCtls)
      <4> DEFINE a == Len(add.got)
                 b == Len(add.entries)
                 c == Len(halCtls)
      <4>1. a \in Nat /\ b \in Nat /\ a + b = c
        BY <2>11, <3>1
      <4>2. Len(got) = a + 1 /\ Len(Tail(add.entries)) = b - 1
        BY <2>7, <3>2
      <4> HIDE DEF a, b, c
      <4>3. (a + 1) + (b - 1) = c
        BY <4>1
      <4>4. QED
        BY <4>2, <4>3 DEF c
    <3>4. QED
      BY <2>9, <2>10, <3>3
  <2>13. (\A k \in DOMAIN add.entries : add.entries[k] = halCtls[Len(add.got) + k])'
    <3> SUFFICES ASSUME NEW k \in DOMAIN Tail(add.entries)
                 PROVE  Tail(add.entries)[k] = halCtls[Len(got) + k]
      BY <2>9, <2>10
    <3>1. k \in Nat
      BY <2>7, LenProperties
    <3>2. add.entries[k + 1] = halCtls[Len(add.got) + (k + 1)]
      BY <1>1, <2>7 DEF AddSoFar
    <3>3. Len(add.got) + (k + 1) = Len(got) + k
      <4> DEFINE a == Len(add.got)
      <4>1. a \in Nat /\ Len(got) = a + 1
        BY <2>6, <2>11 DEF Next1
      <4> HIDE DEF a
      <4>2. a + (k + 1) = (a + 1) + k
        BY <3>1, <4>1
      <4>3. QED
        BY <4>1, <4>2 DEF a
    <3>4. QED
      BY <2>7, <3>2, <3>3
  <2>14. (\A i \in DOMAIN add.got :
            Right(add.got[i].id, halCtls[i]) /\ add.got[i].max = card[add.got[i].id].max)'
    <3> SUFFICES ASSUME NEW i \in DOMAIN got
                 PROVE  Right(got[i].id, halCtls[i]) /\ got[i].max = card[got[i].id].max
      BY <2>1, <2>9, <2>10 DEF Right
    <3>1. i \in DOMAIN add.got \/ i = Next1
      BY <1>3, <2>6 DEF Next1
    <3>2. CASE i \in DOMAIN add.got
      BY <1>1, <2>6, <3>2 DEF AddSoFar
    <3>3. CASE i = Next1
      BY <1>3, <2>1, <2>5, <2>6, <3>3
    <3>4. QED
      BY <3>1, <3>2, <3>3
  <2>15. (add.at = "done" <=> add.entries = <<>>)'
    <3>1. Tail(add.entries) = <<>> <=> Len(add.entries) = 1
      <4>1. Tail(add.entries) = <<>> <=> Len(Tail(add.entries)) = 0
        BY <2>7, EmptySeq
      <4>2. Len(Tail(add.entries)) = 0 <=> Len(add.entries) = 1
        BY <2>7, <2>11
      <4>3. QED
        BY <4>1, <4>2
    <3>2. QED
      BY <2>9, <3>1
  <2>16. /\ add'.at \notin {"write", "read"} /\ add'.at # "create"
    BY <2>9
  <2>17. AddSoFar'
    BY <2>12, <2>13, <2>14, <2>15, <2>16 DEF AddSoFar
  <2>18. AddOK'
    BY <2>8, <2>9, <2>17 DEF AddOK
  <2>19. QED
    BY <1>5, <2>1, <2>18
<1>15. QED
  BY <1>6, <1>7, <1>8, <1>9, <1>10, <1>11, <1>12, <1>13, <1>14 DEF AddStep

(* What addcustomctl has done stays right while others write. *)
LEMMA AddKept ==
  ASSUME AddOK, SameControls, version \in Versions, UNCHANGED <<hal, version, add>>
  PROVE  AddOK'
<1>1. CASE hal # "add"
  BY <1>1 DEF AddOK
<1>2. CASE hal = "add"
  <2>1. add' \in AddRecord /\ add'.at # "none" /\ AddSoFar
    BY <1>2 DEF AddOK
  <2>2. Entry' = Entry
    BY DEF Entry
  <2>3. add'.at \in {"write", "read"} => Right(add.num, Entry)'
    BY <2>1, <2>2 DEF AddSoFar, Right, SameControls
  <2>4. add'.at = "create" => Entry.auto /\ Named(Entry.name)' = {}
    BY <2>1, <2>2 DEF AddSoFar, Named, SameControls
  <2>5. QED
    BY <1>2, <2>1, <2>3, <2>4, AnswersKept, ControlsKept
<1>3. QED
  BY <1>1, <1>2

-----------------------------------------------------------------------------
(* The HAL finds the entry of every tag it is asked for.                    *)
LEMMA TagFound ==
  ASSUME HalTyped, NEW tags \in TagQueries, NEW j \in DOMAIN tags
  PROVE  /\ tags \in Seq(Int) /\ tags[j] \in Int /\ 1 \in DOMAIN tags
         /\ halCtlTagToIndex(tags[j]) \in DOMAIN halCtls
         /\ halCtls[halCtlTagToIndex(tags[j])].tag = tags[j]
         /\ map[halCtlTagToIndex(tags[j])] \in MapRecord
<1> DEFINE S == {i \in DOMAIN halCtls : halCtls[i].tag = tags[j]}
<1>1. tags \in Seq(Int) /\ tags # <<>> /\ tags[j] \in Int /\ 1 \in DOMAIN tags
  <2>1. tags \in Seq(Int) /\ tags # <<>>
    BY HalAssumption DEF InputAssumption
  <2>2. QED
    BY <2>1, EmptySeq, LenProperties, ElementOfSeq
<1>2. S # {}
  BY HalAssumption DEF InputAssumption, HalTyped, halCtls
<1>3. DOMAIN halCtls \subseteq Nat
  BY HalAssumption, LenProperties DEF TableAssumption, HalTyped, halCtls
<1>4. PICK i \in S : \A k \in S : i <= k
  BY <1>2, <1>3, Least
<1>5. /\ halCtlTagToIndex(tags[j]) \in DOMAIN halCtls
      /\ halCtls[halCtlTagToIndex(tags[j])].tag = tags[j]
  BY <1>4 DEF halCtlTagToIndex
<1>6. QED
  BY <1>1, <1>5 DEF HalTyped

(* A percentage becomes a raw value. *)
LEMMA RawTyped ==
  ASSUME NEW e \in MapRecord, NEW value \in Nat
  PROVE  Raw(e, value) \in Int
<1>1. Scale(e).maxval \in Nat /\ Scale(e).minval = 0
  BY DEF Scale, MapRecord
<1> DEFINE span == Scale(e).maxval - Scale(e).minval
<1>2. span \in Int
  BY <1>1
<1> HIDE DEF span
<1>3. value * span \in Int
  BY <1>2
<1>4. (value * span) \div 100 \in Int
  BY <1>3
<1>5. QED
  BY <1>4 DEF Raw, V!ToRaw, span

(* Steps that only start or end a call. *)
LEMMA CallsOnly ==
  ASSUME IInv, CallsOK', ask' \in [Callers -> Seq(Int)],
         UNCHANGED <<card, lastNumid, add, hal, version, map, untold, due, starts, upgrades>>
  PROVE  IInv'
<1> USE DEF IInv
<1>1. SameControls
  BY NothingWritten DEF CardOK
<1>2. CardOK'
  BY <1>1, CardKept
<1>3. AddOK'
  BY <1>1, AddKept DEF HalTyped
<1>4. HalTyped'
  BY DEF HalTyped, halCtls
<1>5. ToldWhileUp' /\ MappedRight' /\ UntoldIsDue'
  BY DEF ToldWhileUp, MappedRight, UntoldIsDue, halCtls
<1>6. QED
  BY <1>2, <1>3, <1>4, <1>5

(* Steps that leave the calls and the card alone, as to those. *)
LEMMA CardUntouched ==
  ASSUME CardOK, UNCHANGED <<card, lastNumid>>
  PROVE  CardOK'
BY NothingWritten, CardKept DEF CardOK

(* The same of the calls. *)
LEMMA CallsUntouched ==
  ASSUME CallsOK, UNCHANGED call
  PROVE  CallsOK'
<1>1. ASSUME NEW t \in Callers PROVE SetSoFar(t)' /\ GetSoFar(t)'
  <2>1. SetSoFar(t) /\ GetSoFar(t)
    BY DEF CallsOK, CallsSoFar
  <2>2. SetSoFar(t)'
    BY <2>1 DEF SetSoFar
  <2>3. Answers(t)' = Answers(t) /\ \A n : Naming(t, n)' = Naming(t, n)
    BY DEF Answers, Naming
  <2>4. GetSoFar(t)'
    BY <2>1, <2>3 DEF GetSoFar
  <2>5. QED
    BY <2>2, <2>4
<1>2. QED
  BY <1>1 DEF CallsOK, CallsSoFar

(* A request through the HAL, or of another client.                         *)
LEMMA RequestOK ==
  ASSUME IInv, NEW t \in Callers, NEW tags \in TagQueries, NEW p \in Nat,
         \/ halSetCtls(t, tags, p) \/ halSetCtlByTag(t, tags[1], p) \/ halGetCtls(t, tags)
  PROVE  IInv'
<1> USE DEF IInv
<1>1. /\ tags \in Seq(Int) /\ 1 \in DOMAIN tags /\ None \in Int
      /\ DOMAIN tags = 1 .. Len(tags) /\ Len(tags) \in Nat
  BY TagFound, HalAssumption, LenProperties DEF InputAssumption, None
<1>2. \A j \in DOMAIN tags : map[halCtlTagToIndex(tags[j])] \in MapRecord /\ tags[j] \in Int
  BY TagFound
<1>3. \A e \in MapRecord : e.num \in Int /\ Raw(e, p) \in Int
  BY <1>1, RawTyped DEF MapRecord
<1>4. <<>> \in Seq(Int) /\ \A x \in Int : <<x>> \in Seq(Int)
  OBVIOUS
<1>5. UNCHANGED <<card, lastNumid, add, hal, version, map, untold, due, starts, upgrades>>
  BY DEF halSetCtls, halSetCtlByTag, halGetCtls, Open
<1>6. \E s \in Seq(Int) : ask' = [ask EXCEPT ![t] = s]
  <2>1. <<tags[1]>> \in Seq(Int)
    BY <1>1, <1>2, <1>4
  <2>2. QED
    BY <1>1, <2>1 DEF halSetCtls, halSetCtlByTag, halGetCtls
<1>7. ask' \in [Callers -> Seq(Int)]
  BY <1>6 DEF HalTyped
<1>8. CASE halSetCtls(t, tags, p)
  <2> DEFINE query == [j \in DOMAIN tags |->
                         Object(map[halCtlTagToIndex(tags[j])].num,
                                <<Raw(map[halCtlTagToIndex(tags[j])], p)>>)]
  <2>1. \A e \in MapRecord : Object(e.num, <<Raw(e, p)>>) \in QueryEntry
    BY <1>3, <1>4 DEF Object, QueryEntry
  <2>2. query \in [1 .. Len(tags) -> QueryEntry]
    BY <1>1, <1>2, <2>1
  <2>3. query \in Seq(QueryEntry)
    BY <1>1, <2>2, IsASeq
  <2>4. Open(t, "set", query, None)
    BY <1>8 DEF halSetCtls
  <2> HIDE DEF query
  <2>5. CallsOK'
    BY <1>1, <2>3, <2>4, OpenOK DEF CardOK
  <2>6. QED
    BY <1>5, <1>7, <2>5, CallsOnly
<1>9. CASE halSetCtlByTag(t, tags[1], p)
  <2> DEFINE e == map[halCtlTagToIndex(tags[1])]
             query == <<Integer(e.num), Array(Raw(e, p), <<>>)>>
  <2>1. e \in MapRecord
    BY <1>1, <1>2
  <2>2. Open(t, "set", query, None)
    BY <1>9 DEF halSetCtlByTag
  <2> HIDE DEF e
  <2>3. Integer(e.num) \in QueryEntry /\ Array(Raw(e, p), <<>>) \in QueryEntry
    BY <1>3, <1>4, <2>1 DEF Integer, Array, QueryEntry
  <2>4. query \in Seq(QueryEntry)
    BY <2>3
  <2> HIDE DEF query
  <2>5. CallsOK'
    BY <1>1, <2>2, <2>4, OpenOK DEF CardOK
  <2>6. QED
    BY <1>5, <1>7, <2>5, CallsOnly
<1>10. CASE halGetCtls(t, tags)
  <2> DEFINE query == [j \in DOMAIN tags |->
                         Integer(map[halCtlTagToIndex(tags[j])].num)]
  <2>1. \A e \in MapRecord : Integer(e.num) \in QueryEntry
    BY <1>3, <1>4 DEF Integer, QueryEntry
  <2>2. query \in [1 .. Len(tags) -> QueryEntry]
    BY <1>1, <1>2, <2>1
  <2>3. query \in Seq(QueryEntry)
    BY <1>1, <2>2, IsASeq
  <2>4. Open(t, "get", query, None)
    BY <1>10 DEF halGetCtls
  <2> HIDE DEF query
  <2>5. CallsOK'
    BY <1>1, <2>3, <2>4, OpenOK DEF CardOK
  <2>6. QED
    BY <1>5, <1>7, <2>5, CallsOnly
<1>11. QED
  BY <1>8, <1>9, <1>10

(* A request of another client. *)
LEMMA ClientOK ==
  ASSUME IInv, NEW t \in Callers, NEW q \in Queries, NEW g \in 0 .. MaxNumid, Client(t, q, g)
  PROVE  IInv'
<1>1. q.verb \in {"get", "set"} /\ q.query \in Seq(QueryEntry) /\ g \in Int
  BY HalAssumption DEF InputAssumption
<1>2. CallsOK'
  BY <1>1, OpenOK DEF Client, IInv, CardOK
<1>3. UNCHANGED <<card, lastNumid, add, hal, version, map, ask, untold, due, starts, upgrades>>
  BY DEF Client, Open
<1>4. QED
  BY <1>2, <1>3, CallsOnly DEF IInv, HalTyped

(* A request is answered. *)
LEMMA AnswerOK ==
  ASSUME IInv, NEW t \in Callers, Answer(t)
  PROVE  IInv'
<1>1. /\ call' = [call EXCEPT ![t] = NoCall] /\ ask' = [ask EXCEPT ![t] = <<>>]
      /\ UNCHANGED <<card, lastNumid, add, hal, version, map, untold, due, starts, upgrades>>
  BY DEF Answer, Return
<1>2. call'[t] = NoCall
  BY <1>1 DEF IInv, CallsOK
<1>3. CallsOK'
  BY <1>1, <1>2, NoCallOK, OneCaller DEF IInv
<1>4. <<>> \in Seq(Int)
  OBVIOUS
<1>5. ask' \in [Callers -> Seq(Int)]
  BY <1>1, <1>4 DEF IInv, HalTyped
<1>6. QED
  BY <1>1, <1>3, <1>5, CallsOnly

(* Serving changes values at most. *)
LEMMA ServeKeeps ==
  ASSUME IInv, NEW t \in Callers, Serve(t)
  PROVE  SameControls
<1>1. lastNumid' = lastNumid /\ CardTyped /\ CallsOK
  BY DEF Serve, CallStep, Skip, Read, Write, Refuse, IInv, CardOK
<1>2. CASE UNCHANGED card
  BY <1>1, <1>2, NothingWritten
<1>3. CASE Write(t)
  <2> DEFINE n == Current(t)
             val == call[t].reqs[Serving(t, n)].val
  <2>1. /\ n \in DOMAIN card /\ val # <<>> /\ Naming(t, n) # {}
        /\ card' = [card EXCEPT ![n].value = Fill(val, Len(@))]
    BY <1>3 DEF Write
  <2>2. call[t] \in CallRecord
    BY <1>1 DEF CallsOK
  <2>3. Serving(t, n) \in DOMAIN call[t].reqs
    BY <2>1, <2>2, ServingNames
  <2>4. call[t].reqs \in Seq(RequestRecord)
    BY <2>2 DEF CallRecord
  <2>5. call[t].reqs[Serving(t, n)] \in RequestRecord
    BY <2>3, <2>4
  <2>6. val \in Seq(Int)
    BY <2>5 DEF RequestRecord
  <2> HIDE DEF n, val
  <2>7. QED
    BY <1>1, <2>1, <2>6, ValueWritten
<1>4. QED
  BY <1>2, <1>3 DEF Serve, CallStep, Skip, Read, Refuse

(* A request is served one control further. *)
LEMMA ServeOK ==
  ASSUME IInv, NEW t \in Callers, Serve(t)
  PROVE  IInv'
<1> USE DEF IInv
<1>1. /\ UNCHANGED <<add, hal, version, map, ask, starts, upgrades>> /\ lastNumid' = lastNumid
      /\ Told /\ CardTyped
  BY DEF Serve, CallStep, Skip, Read, Write, Refuse, CardOK
<1>2. CallsOK'
  BY <1>1, SkipOK, ReadOK, WriteOK DEF Serve, CallStep
<1>3. SameControls
  BY ServeKeeps
<1>4. CardOK' /\ AddOK'
  BY <1>1, <1>3, CardKept, AddKept DEF HalTyped
<1>5. /\ Changed \subseteq DOMAIN card /\ DOMAIN card \subseteq 1 .. MaxNumid
      /\ \A n \in DOMAIN card : card[n].name \in STRING
  <2>1. /\ lastNumid \in 0 .. MaxNumid /\ DOMAIN card \subseteq 1 .. lastNumid
        /\ card \in [DOMAIN card -> ControlRecord]
    BY <1>1 DEF CardTyped
  <2>2. DOMAIN card \subseteq 1 .. MaxNumid
    BY <2>1, ControlsAssumption
  <2>3. QED
    BY <2>1, <2>2 DEF Changed, ControlRecord
<1>6. HalTyped'
  <2>1. due' \subseteq 1 .. MaxNumid /\ untold' \subseteq STRING
    <3>1. CASE hal # "up"
      BY <1>1, <3>1 DEF Told, HalTyped
    <3>2. CASE hal = "up"
      <4>1. /\ due' = due \union Changed
            /\ untold' = untold \union {card[n].name : n \in Changed}
        BY <1>1, <3>2 DEF Told
      <4>2. Changed \subseteq 1 .. MaxNumid /\ {card[n].name : n \in Changed} \subseteq STRING
        BY <1>5
      <4>3. QED
        BY <4>1, <4>2 DEF HalTyped
    <3>3. QED
      BY <3>1, <3>2
  <2>2. QED
    BY <1>1, <2>1 DEF HalTyped, halCtls
<1>7. ToldWhileUp'
  BY <1>1 DEF ToldWhileUp, Told
<1>8. MappedRight'
  BY <1>1, <1>3 DEF MappedRight, SameControls, halCtls
<1>9. UntoldIsDue'
  <2> SUFFICES ASSUME NEW i \in DOMAIN halCtls, halCtls[i].name \in untold'
               PROVE  map[i].num \in due'
    BY <1>1 DEF UntoldIsDue, halCtls
  <2>1. CASE hal # "up"
    BY <1>1, <2>1 DEF Told, UntoldIsDue
  <2>2. CASE hal = "up"
    <3>1. due' = due \union Changed /\ untold' = untold \union {card[n].name : n \in Changed}
      BY <1>1, <2>2 DEF Told
    <3>2. CASE halCtls[i].name \in untold
      BY <3>1, <3>2 DEF UntoldIsDue
    <3>3. ASSUME NEW n \in Changed, card[n].name = halCtls[i].name
          PROVE  map[i].num \in due'
      <4>1. map[i].num \in DOMAIN card /\ card[map[i].num].name = halCtls[i].name
        BY <2>2 DEF MappedRight, HalTyped
      <4>2. map[i].num = n
        BY <1>5, <3>3, <4>1 DEF CardOK, OneOfAName
      <4>3. QED
        BY <3>1, <4>2
    <3>4. QED
      BY <3>1, <3>2, <3>3
  <2>3. QED
    BY <2>1, <2>2
<1>10. QED
  BY <1>2, <1>4, <1>6, <1>7, <1>8, <1>9

-----------------------------------------------------------------------------
(* Everything but the controls of the card starts anew. *)
LEMMA TableTyped ==
  ASSUME NEW v \in Versions
  PROVE  /\ Table[v] \in Seq(TableEntry) /\ Table[v] # <<>>
         /\ Entries0[v] \in [DOMAIN Table[v] -> MapRecord]
<1>1. Table[v] \in Seq(TableEntry) /\ Table[v] # <<>>
  BY HalAssumption DEF TableAssumption
<1>2. \A i \in DOMAIN Table[v] : Table[v][i] \in TableEntry
  BY <1>1
<1>3. \A i \in DOMAIN Table[v] :
        [num |-> IF Table[v][i].auto THEN CtlAuto ELSE None,
         max |-> Table[v][i].max, count |-> Table[v][i].count] \in MapRecord
  BY <1>2 DEF TableEntry, MapRecord, CtlAuto, None
<1>4. QED
  BY <1>1, <1>3 DEF Entries0

(* No addcustomctl under way. *)
LEMMA NoAddTyped == NoAdd \in AddRecord /\ NoAdd.at = "none" /\ NoAdd.got = <<>>
<1>1. <<>> \in Seq(TableEntry) /\ <<>> \in Seq([id : Nat, name : STRING, max : Nat, count : Nat])
  OBVIOUS
<1>2. QED
  BY <1>1 DEF NoAdd, AddRecord, None

(* A card of the hardware and a binder that is down. *)
LEMMA InitIInv ==
  ASSUME Init
  PROVE  IInv
<1>1. PICK hw \in Hardware : card = [n \in DOMAIN hw |-> hw[n]] /\ lastNumid = Len(hw)
  BY DEF Init
<1>2. /\ hw \in Seq(ControlRecord) /\ Len(hw) <= MaxNumid
      /\ \A m, n \in DOMAIN hw : hw[n].value # <<>> /\ (m # n => hw[m].name # hw[n].name)
  BY HalAssumption DEF HardwareAssumption
<1>3. DOMAIN hw = 1 .. Len(hw) /\ Len(hw) \in Nat /\ \A n \in DOMAIN hw : hw[n] \in ControlRecord
  BY <1>2, LenProperties, ElementOfSeq
<1>4. CardOK
  <2>1. lastNumid \in 0 .. MaxNumid
    BY <1>1, <1>2, <1>3, ControlsAssumption
  <2>2. DOMAIN card = DOMAIN hw /\ \A n \in DOMAIN card : card[n] = hw[n]
    BY <1>1
  <2>3. CardTyped
    BY <1>1, <1>2, <1>3, <2>1, <2>2 DEF CardTyped
  <2>4. OneOfAName
    BY <1>2, <2>2 DEF OneOfAName
  <2>5. QED
    BY <2>3, <2>4 DEF CardOK
<1>5. CallsOK
  <2>1. NoCall \in CallRecord /\ NoCall.verb = "none"
    BY DEF NoCall, CallRecord
  <2>2. call = [t \in Callers |-> NoCall]
    BY DEF Init
  <2>3. QED
    BY <2>1, <2>2 DEF CallsOK, CallsSoFar, SetSoFar, GetSoFar
<1>6. AddOK
  BY NoAddTyped DEF AddOK, Init
<1>7. HalTyped
  <2>1. version \in Versions /\ map = Entries0[version]
    BY DEF Init
  <2>2. map \in [DOMAIN halCtls -> MapRecord]
    BY <2>1, TableTyped DEF halCtls
  <2>3. <<>> \in Seq(Int) /\ 0 \in 0 .. MaxStarts /\ 0 \in 0 .. 0
    BY HalAssumption DEF InputAssumption
  <2>4. QED
    BY <2>1, <2>2, <2>3 DEF HalTyped, Init
<1>8. ToldWhileUp /\ MappedRight /\ UntoldIsDue
  BY DEF Init, ToldWhileUp, MappedRight, UntoldIsDue
<1>9. QED
  BY <1>4, <1>5, <1>6, <1>7, <1>8 DEF IInv

(* The binder starts, with any version of the table. *)
LEMMA StartOK ==
  ASSUME IInv, NEW v \in Versions, Start(v)
  PROVE  IInv'
<1> USE DEF IInv
<1>1. /\ hal = "down" /\ starts < MaxStarts /\ starts' = starts + 1 /\ version' = v
      /\ upgrades' \in {upgrades, upgrades + 1} /\ map' = Entries0[v] /\ hal' = "add"
      /\ add' = [NoAdd EXCEPT !.at = "look", !.entries = Table[v]]
      /\ UNCHANGED <<card, lastNumid, call, ask, untold, due>>
  BY DEF Start
<1>2. CardOK' /\ CallsOK'
  BY <1>1, CardUntouched, CallsUntouched
<1>3. halCtls' = Table[v] /\ Table[v] \in Seq(TableEntry) /\ Table[v] # <<>>
  BY <1>1, TableTyped DEF halCtls
<1>4. AddOK'
  <2>1. add' \in AddRecord
    BY <1>1, <1>3, NoAddTyped DEF AddRecord
  <2>2. add'.at = "look" /\ add'.entries = Table[v] /\ add'.got = <<>> /\ Len(<<>>) = 0
    BY <1>1 DEF NoAdd
  <2>3. DOMAIN Table[v] = 1 .. Len(Table[v]) /\ Len(Table[v]) \in Nat
    BY <1>3, LenProperties
  <2>4. AddSoFar'
    <3>1. 0 + Len(Table[v]) = Len(Table[v])
      BY <2>3
    <3>2. \A k \in DOMAIN Table[v] : 0 + k = k
      BY <2>3
    <3>3. QED
      BY <1>3, <2>2, <3>1, <3>2 DEF AddSoFar
  <2>5. QED
    BY <1>1, <2>1, <2>2, <2>4 DEF AddOK
<1>5. HalTyped'
  <2>1. starts \in 0 .. MaxStarts /\ upgrades \in 0 .. starts /\ MaxStarts \in Nat
    BY HalAssumption DEF HalTyped, InputAssumption
  <2>2. starts' \in 0 .. MaxStarts /\ upgrades' \in 0 .. starts'
    BY <1>1, <2>1
  <2>3. map' \in [DOMAIN halCtls' -> MapRecord]
    BY <1>1, <1>3, TableTyped
  <2>4. QED
    BY <1>1, <2>2, <2>3 DEF HalTyped
<1>6. ToldWhileUp' /\ MappedRight' /\ UntoldIsDue'
  BY <1>1 DEF ToldWhileUp, MappedRight, UntoldIsDue
<1>7. QED
  BY <1>2, <1>4, <1>5, <1>6

(* The start fails: the card is not found, or an entry is not, or its control *)
(* cannot be created.                                                         *)
LEMMA FailedOK ==
  ASSUME IInv, RegisterFails \/ AddFails
  PROVE  IInv'
<1> USE DEF IInv
<1>1. /\ hal = "add" /\ hal' = "failed" /\ add' = NoAdd
      /\ UNCHANGED <<card, lastNumid, call, version, map, ask, untold, due, starts, upgrades>>
  BY DEF RegisterFails, AddFails
<1>2. CardOK' /\ CallsOK'
  BY <1>1, CardUntouched, CallsUntouched
<1>3. AddOK'
  BY <1>1, NoAddTyped DEF AddOK
<1>4. HalTyped'
  BY <1>1 DEF HalTyped, halCtls
<1>5. ToldWhileUp' /\ MappedRight' /\ UntoldIsDue'
  BY <1>1 DEF ToldWhileUp, MappedRight, UntoldIsDue
<1>6. QED
  BY <1>2, <1>3, <1>4, <1>5

(* A step of addcustomctl for the start-up. *)
LEMMA AddingOK ==
  ASSUME IInv, Adding
  PROVE  IInv'
<1> USE DEF IInv
<1>1. /\ hal = "add" /\ AddStep
      /\ UNCHANGED <<hal, version, map, ask, untold, due, starts, upgrades>> /\ call' = call
  BY DEF Adding, AddStep, Reuse, Remove, RemoveFails, NotThere, Create, CreateFails,
         WriteDefault, WriteDefaultFails, ReadBack
<1>2. CardOK' /\ AddOK'
  BY <1>1, AddStepOK
<1>3. CallsOK'
  BY <1>1, CallsUntouched
<1>4. HalTyped'
  BY <1>1 DEF HalTyped, halCtls
<1>5. ToldWhileUp' /\ MappedRight' /\ UntoldIsDue'
  BY <1>1 DEF ToldWhileUp, MappedRight, UntoldIsDue
<1>6. QED
  BY <1>2, <1>3, <1>4, <1>5

(* When all entries are answered for, each answer is that of its entry.     *)
LEMMA MapOK ==
  ASSUME IInv, Map
  PROVE  IInv'
<1> USE DEF IInv
<1>1. /\ hal = "add" /\ add.at = "done" /\ hal' = "subscribe" /\ add' = NoAdd
      /\ map' = [i \in DOMAIN map |->
                   [num |-> add.got[i].id, max |-> add.got[i].max,
                    count |-> add.got[i].count]]
      /\ UNCHANGED <<card, lastNumid, call, version, ask, untold, due, starts, upgrades>>
  BY DEF Map
<1>2. CardOK' /\ CallsOK'
  BY <1>1, CardUntouched, CallsUntouched
<1>3. AddOK'
  BY <1>1, NoAddTyped DEF AddOK
<1>4. AddSoFar /\ add \in AddRecord /\ DOMAIN map = DOMAIN halCtls
  BY <1>1 DEF AddOK, HalTyped
<1>5. DOMAIN add.got = DOMAIN halCtls
  <2>1. add.entries = <<>> /\ Len(add.got) + Len(add.entries) = Len(halCtls)
    BY <1>1, <1>4 DEF AddSoFar
  <2>2. Len(add.got) \in Nat /\ DOMAIN add.got = 1 .. Len(add.got) /\ Len(<<>>) = 0
    BY <1>4, LenProperties DEF AddRecord
  <2>3. Len(add.got) = Len(halCtls)
    BY <2>1, <2>2
  <2>4. DOMAIN halCtls = 1 .. Len(halCtls)
    BY TableTyped, LenProperties DEF HalTyped, halCtls
  <2>5. QED
    BY <2>2, <2>3, <2>4
<1>6. \A i \in DOMAIN halCtls :
        /\ add.got[i] \in [id : Nat, name : STRING, max : Nat, count : Nat]
        /\ add.got[i].id \in DOMAIN card /\ card[add.got[i].id].name = halCtls[i].name
        /\ add.got[i].max = card[add.got[i].id].max
  <2>1. add.got \in Seq([id : Nat, name : STRING, max : Nat, count : Nat])
    BY <1>4 DEF AddRecord
  <2>2. \A i \in DOMAIN add.got :
          Right(add.got[i].id, halCtls[i]) /\ add.got[i].max = card[add.got[i].id].max
    BY <1>4 DEF AddSoFar
  <2> SUFFICES ASSUME NEW i \in DOMAIN add.got
               PROVE  /\ add.got[i] \in [id : Nat, name : STRING, max : Nat, count : Nat]
                      /\ add.got[i].id \in DOMAIN card
                      /\ card[add.got[i].id].name = halCtls[i].name
                      /\ add.got[i].max = card[add.got[i].id].max
    BY <1>5
  <2>3. add.got[i] \in [id : Nat, name : STRING, max : Nat, count : Nat]
    <3> DEFINE A == [id : Nat, name : STRING, max : Nat, count : Nat]
    <3> HIDE DEF A
    <3>1. add.got \in Seq(A)
      BY <2>1 DEF A
    <3>2. add.got[i] \in A
      BY <3>1
    <3>3. QED
      BY <3>2 DEF A
  <2>4. Right(add.got[i].id, halCtls[i]) /\ add.got[i].max = card[add.got[i].id].max
    BY <2>2
  <2>5. QED
    BY <2>3, <2>4 DEF Right
<1>7. HalTyped'
  <2>1. \A i \in DOMAIN halCtls :
          [num |-> add.got[i].id, max |-> add.got[i].max, count |-> add.got[i].count]
             \in MapRecord
    BY <1>6 DEF MapRecord
  <2>2. map' \in [DOMAIN halCtls -> MapRecord]
    BY <1>1, <1>4, <2>1
  <2>3. QED
    BY <1>1, <2>2 DEF HalTyped, halCtls
<1>8. MappedRight'
  BY <1>1, <1>4, <1>6 DEF MappedRight, halCtls
<1>9. ToldWhileUp' /\ UntoldIsDue'
  BY <1>1 DEF ToldWhileUp, UntoldIsDue
<1>10. QED
  BY <1>2, <1>3, <1>7, <1>8, <1>9

(* The HAL subscribes to the card. *)
LEMMA SubscribeOK ==
  ASSUME IInv, Subscribe
  PROVE  IInv'
<1> USE DEF IInv
<1>1. /\ hal = "subscribe" /\ hal' \in {"up", "failed"}
      /\ UNCHANGED <<card, lastNumid, call, add, version, map, ask, untold, due,
                     starts, upgrades>>
  BY DEF Subscribe, controlVars
<1>2. CardOK' /\ CallsOK'
  BY <1>1, CardUntouched, CallsUntouched
<1>3. AddOK'
  BY <1>1 DEF AddOK
<1>4. HalTyped'
  BY <1>1 DEF HalTyped, halCtls
<1>5. ToldWhileUp' /\ MappedRight' /\ UntoldIsDue'
  BY <1>1 DEF ToldWhileUp, MappedRight, UntoldIsDue, halCtls
<1>6. QED
  BY <1>2, <1>3, <1>4, <1>5

(* The binder stops, wherever it is. *)
LEMMA CrashOK ==
  ASSUME IInv, Crash
  PROVE  IInv'
<1> USE DEF IInv
<1>1. /\ hal' = "down" /\ add' = NoAdd /\ call' = [t \in Callers |-> NoCall]
      /\ ask' = [t \in Callers |-> <<>>] /\ map' = Entries0[version]
      /\ untold' = {} /\ due' = {}
      /\ UNCHANGED <<card, lastNumid, version, starts, upgrades>>
  BY DEF Crash
<1>2. CardOK'
  BY <1>1, CardUntouched
<1>3. CallsOK'
  <2>1. NoCall \in CallRecord /\ NoCall.verb = "none"
    BY DEF NoCall, CallRecord
  <2>2. QED
    BY <1>1, <2>1 DEF CallsOK, CallsSoFar, SetSoFar, GetSoFar
<1>4. AddOK'
  BY <1>1, NoAddTyped DEF AddOK
<1>5. HalTyped'
  <2>1. map' \in [DOMAIN halCtls -> MapRecord] /\ <<>> \in Seq(Int)
    BY <1>1, TableTyped DEF HalTyped, halCtls
  <2>2. QED
    BY <1>1, <2>1 DEF HalTyped, halCtls
<1>6. ToldWhileUp' /\ MappedRight' /\ UntoldIsDue'
  BY <1>1 DEF ToldWhileUp, MappedRight, UntoldIsDue
<1>7. QED
  BY <1>2, <1>3, <1>4, <1>5, <1>6

(* A change is told, and with it every entry mapped to the control. *)
LEMMA EventOK ==
  ASSUME IInv, NEW n \in 1 .. MaxNumid, halServiceEvent(n)
  PROVE  IInv'
<1> USE DEF IInv
<1>1. /\ hal = "up" /\ due' = due \ {n}
      /\ untold' = untold \ {halCtls[i].name : i \in Mapped(n)}
      /\ UNCHANGED <<card, lastNumid, call, add, hal, version, map, ask, starts, upgrades>>
  BY DEF halServiceEvent, controlVars
<1>2. CardOK' /\ CallsOK'
  BY <1>1, CardUntouched, CallsUntouched
<1>3. AddOK'
  BY <1>1 DEF AddOK
<1>4. HalTyped'
  BY <1>1 DEF HalTyped, halCtls
<1>5. ToldWhileUp' /\ MappedRight'
  BY <1>1 DEF ToldWhileUp, MappedRight, halCtls
<1>6. UntoldIsDue'
  <2> SUFFICES ASSUME NEW i \in DOMAIN halCtls, halCtls[i].name \in untold'
               PROVE  map[i].num \in due'
    BY <1>1 DEF UntoldIsDue, halCtls
  <2>1. map[i].num \in due /\ i \notin Mapped(n) /\ i \in DOMAIN map
    BY <1>1 DEF UntoldIsDue, HalTyped
  <2>2. QED
    BY <1>1, <2>1 DEF Mapped
<1>7. QED
  BY <1>2, <1>3, <1>4, <1>5, <1>6

(* Nothing happens. *)
LEMMA StutterOK ==
  ASSUME IInv, UNCHANGED vars
  PROVE  IInv'
<1>1. CallsOK' /\ UNCHANGED <<card, lastNumid, add, hal, version, map, ask, untold, due,
                              starts, upgrades>>
  BY CallsUntouched DEF IInv, vars, controlVars
<1>2. QED
  BY <1>1, CallsOnly DEF IInv, HalTyped

(* Every step keeps the inductive invariant. *)
LEMMA NextIInv ==
  ASSUME IInv, [Next]_vars
  PROVE  IInv'
<1>1. CASE \E v \in Versions : Start(v)
  BY <1>1, StartOK
<1>2. CASE RegisterFails \/ AddFails
  BY <1>2, FailedOK
<1>3. CASE Adding
  BY <1>3, AddingOK
<1>4. CASE Map
  BY <1>4, MapOK
<1>5. CASE Subscribe
  BY <1>5, SubscribeOK
<1>6. CASE Crash
  BY <1>6, CrashOK
<1>7. ASSUME NEW t \in Callers,
             \/ \E tags \in TagQueries, p \in Percents : halSetCtls(t, tags, p)
             \/ \E tags \in TagQueries, p \in Percents : halSetCtlByTag(t, tags[1], p)
             \/ \E tags \in TagQueries : halGetCtls(t, tags)
             \/ \E q \in Queries, g \in 0 .. MaxNumid : Client(t, q, g)
             \/ Serve(t) \/ Answer(t)
      PROVE  IInv'
  <2>1. CASE \E tags \in TagQueries, p \in Percents :
                halSetCtls(t, tags, p) \/ halSetCtlByTag(t, tags[1], p)
    <3>1. Percents \subseteq Nat
      BY HalAssumption DEF InputAssumption
    <3>2. QED
      BY <2>1, <3>1, RequestOK
  <2>2. CASE \E tags \in TagQueries : halGetCtls(t, tags)
    BY <2>2, 0 \in Nat, RequestOK
  <2>3. CASE \E q \in Queries, g \in 0 .. MaxNumid : Client(t, q, g)
    BY <2>3, ClientOK
  <2>4. CASE Serve(t) \/ Answer(t)
    BY <2>4, ServeOK, AnswerOK
  <2>5. QED
    BY <1>7, <2>1, <2>2, <2>3, <2>4
<1>8. CASE \E n \in 1 .. MaxNumid : halServiceEvent(n)
  BY <1>8, EventOK
<1>9. CASE UNCHANGED vars
  BY <1>9, StutterOK
<1>10. QED
  BY <1>1, <1>2, <1>3, <1>4, <1>5, <1>6, <1>7, <1>8, <1>9 DEF Next

-----------------------------------------------------------------------------
(* The inductive invariant holds always: on any card, for any tables,       *)
(* however often the binder is stopped and started, whoever else calls.     *)
THEOREM Invariant == Spec => []IInv
<1>1. Init => IInv
  BY InitIInv
<1>2. IInv /\ [Next]_vars => IInv'
  BY NextIInv
<1>3. QED
  BY <1>1, <1>2, PTL DEF Spec

(* TypeOK: every step of the start-up, every call and every restart keeps   *)
(* the state within its types, and addcustomctl runs just while the HAL     *)
(* starts.                                                                  *)
THEOREM TypeCorrect == Spec => []TypeOK
<1>1. ASSUME IInv PROVE TypeOK
  <2> USE DEF IInv
  <2>1. /\ lastNumid \in 0 .. MaxNumid /\ DOMAIN card \subseteq 1 .. lastNumid
        /\ \A n \in DOMAIN card : card[n] \in ControlRecord /\ card[n].value # <<>>
    BY <1>1 DEF CardOK, CardTyped
  <2>2. DOMAIN card \subseteq NumidRange /\ \A n \in DOMAIN card : n <= lastNumid
    BY <2>1, ControlsAssumption DEF NumidRange
  <2>3. ASSUME NEW n \in DOMAIN card PROVE Len(card[n].value) >= 1
    <3>1. card[n].value \in Seq(Int) /\ card[n].value # <<>>
      BY <2>1 DEF ControlRecord
    <3>2. Len(card[n].value) \in Nat /\ Len(card[n].value) # 0
      BY <3>1, EmptySeq, LenProperties
    <3>3. QED
      BY <3>2
  <2>4. ASSUME NEW t \in Callers
        PROVE  /\ call[t].verb \in {"none", "get", "set"}
               /\ \A j \in DOMAIN call[t].reqs : call[t].reqs[j].used \in -1 .. 1
    <3>1. call[t] \in CallRecord
      BY <1>1 DEF CallsOK
    <3>2. call[t].verb \in {"none", "get", "set"} /\ call[t].reqs \in Seq(RequestRecord)
      BY <3>1 DEF CallRecord
    <3>3. \A j \in DOMAIN call[t].reqs : call[t].reqs[j] \in RequestRecord
      BY <3>2
    <3>4. QED
      BY <3>2, <3>3 DEF RequestRecord
  <2>5. /\ add.at \in {"none", "look", "create", "write", "read", "done", "failed"}
        /\ (add.at = "none" <=> hal # "add")
    BY <1>1, NoAddTyped DEF AddOK, AddRecord
  <2>6. /\ hal \in {"down", "add", "subscribe", "up", "failed"} /\ version \in Versions
        /\ DOMAIN map = DOMAIN halCtls /\ due \subseteq NumidRange
    BY <1>1 DEF HalTyped, NumidRange
  <2>7. starts \in 0 .. MaxStarts /\ upgrades \in 0 .. MaxStarts
    <3>1. starts \in 0 .. MaxStarts /\ upgrades \in 0 .. starts /\ MaxStarts \in Nat
      BY <1>1, HalAssumption DEF HalTyped, InputAssumption
    <3>2. QED
      BY <3>1
  <2>8. QED
    BY <2>1, <2>2, <2>3, <2>4, <2>5, <2>6, <2>7 DEF TypeOK
<1>2. QED
  BY <1>1, Invariant, PTL

(* MappedRight: when halServiceInit is through, every entry of the table is *)
(* mapped to the control of its name, with the range it has, although the   *)
(* answers of addcustomctl are told apart by their position only, earlier   *)
(* starts were cut off anywhere and other clients write in between.         *)
THEOREM TableIsMapped == Spec => []MappedRight
BY Invariant, PTL DEF IInv

(* UntoldIsDue: halServiceEvent calls the callback of every entry that is   *)
(* mapped to a changed control, so no change is dropped.                    *)
THEOREM ChangesAreTold == Spec => []UntoldIsDue
BY Invariant, PTL DEF IInv

(* AppliedOrWarned: alsaSetGetCtls on any query.  What a set was asked to   *)
(* write it has written or warned of, and it has written nothing else.      *)
THEOREM SetsAreApplied == Spec => []AppliedOrWarned
<1>1. ASSUME IInv PROVE AppliedOrWarned
  <2> SUFFICES ASSUME NEW t \in Callers, call[t].verb = "set"
               PROVE  /\ call[t].wrote \subseteq Asked(call[t].asked)
                      /\ Asked(call[t].asked) \subseteq call[t].wrote \union Warned(t)
    BY DEF AppliedOrWarned
  <2>1. SetSoFar(t) /\ call[t] \in CallRecord
    BY <1>1 DEF IInv, CallsOK, CallsSoFar
  <2>2. \A j \in DOMAIN call[t].reqs : call[t].reqs[j].used \in -1 .. 1
    <3>1. call[t].reqs \in Seq(RequestRecord)
      BY <2>1 DEF CallRecord
    <3>2. \A j \in DOMAIN call[t].reqs : call[t].reqs[j] \in RequestRecord
      BY <3>1
    <3>3. QED
      BY <3>2 DEF RequestRecord
  <2>3. ASSUME NEW a \in Asked(call[t].asked)
        PROVE  a \in call[t].wrote \union Warned(t)
    <3>1. PICK j \in DOMAIN call[t].reqs : Wanted(call[t].reqs[j]) = a
      BY <2>1 DEF SetSoFar
    <3>2. CASE call[t].reqs[j].used = 1
      BY <2>1, <3>1, <3>2 DEF SetSoFar
    <3>3. CASE call[t].reqs[j].used # 1
      <4>1. call[t].reqs[j].used <= 0
        BY <2>2, <3>3
      <4>2. QED
        BY <3>1, <4>1 DEF Warned, Wanted
    <3>4. QED
      BY <3>2, <3>3
  <2>4. QED
    BY <2>1, <2>3 DEF SetSoFar
<1>2. QED
  BY <1>1, Invariant, PTL

(* AnswersAsked: a get of well-formed entries answers each control once and *)
(* no control it was not asked, and warns of every one it does not answer.  *)
THEOREM GetsAnswer == Spec => []AnswersAsked
<1>1. ASSUME IInv PROVE AnswersAsked
  <2> SUFFICES ASSUME NEW t \in Callers, call[t].verb = "get",
                      \A e \in Entries(t) : ~Malformed(e)
               PROVE  /\ Len(call[t].got) = Cardinality(Answers(t))
                      /\ call[t].asked # <<>> =>
                           /\ Answers(t) \subseteq {e.id : e \in Entries(t)}
                           /\ \A e \in Entries(t) :
                                 e.id \in Answers(t) \/ <<e.id, <<>>>> \in Warned(t)
    BY DEF AnswersAsked
  <2>1. GetSoFar(t) /\ call[t] \in CallRecord
    BY <1>1 DEF IInv, CallsOK, CallsSoFar
  <2>2. \A j \in DOMAIN call[t].reqs : call[t].reqs[j].used \in -1 .. 1
    <3>1. call[t].reqs \in Seq(RequestRecord)
      BY <2>1 DEF CallRecord
    <3>2. \A j \in DOMAIN call[t].reqs : call[t].reqs[j] \in RequestRecord
      BY <3>1
    <3>3. QED
      BY <3>2 DEF RequestRecord
  <2>3. /\ DOMAIN call[t].reqs = DOMAIN call[t].asked
        /\ \A j \in DOMAIN call[t].reqs :
              /\ call[t].reqs[j].val = <<>>
              /\ call[t].reqs[j].num = call[t].asked[j].id
              /\ call[t].asked[j] \in Entries(t)
              /\ call[t].reqs[j].used = 1 => call[t].reqs[j].num \in Answers(t)
    BY <2>1 DEF GetSoFar, Entries
  <2>4. Len(call[t].got) = Cardinality(Answers(t))
    BY <2>1 DEF GetSoFar
  <2>5. ASSUME call[t].asked # <<>>, NEW n \in Answers(t)
        PROVE  n \in {e.id : e \in Entries(t)}
    <3>1. PICK j \in DOMAIN call[t].reqs : call[t].reqs[j].num = n
      BY <2>1, <2>5 DEF GetSoFar, Naming
    <3>2. QED
      BY <2>3, <3>1
  <2>6. ASSUME NEW e \in Entries(t)
        PROVE  e.id \in Answers(t) \/ <<e.id, <<>>>> \in Warned(t)
    <3>1. PICK j \in DOMAIN call[t].reqs : call[t].asked[j] = e
      BY <2>3 DEF Entries
    <3>2. CASE call[t].reqs[j].used = 1
      BY <2>3, <3>1, <3>2
    <3>3. CASE call[t].reqs[j].used # 1
      <4>1. call[t].reqs[j].used <= 0
        BY <2>2, <3>3
      <4>2. <<call[t].reqs[j].num, call[t].reqs[j].val>> \in Warned(t)
        BY <4>1 DEF Warned
      <4>3. QED
        BY <2>3, <3>1, <4>2
    <3>4. QED
      BY <3>2, <3>3
  <2>7. QED
    BY <2>4, <2>5, <2>6
<1>2. QED
  BY <1>1, Invariant, PTL

-----------------------------------------------------------------------------
(* A read through the HAL.  It runs while the HAL is up from its beginning  *)
(* to its end, so the card keeps its controls.                              *)
Reading(t) == hal = "up" /\ ask[t] # <<>> /\ call[t].verb = "get"
AskedUp    == \A t \in Callers : ask[t] # <<>> => hal \in {"up", "failed"}

(* A control it has asked for is answered, or still to be looked at.        *)
Listed(t, n) == n \in Answers(t) \/ \E i \in DOMAIN call[t].todo : call[t].todo[i] = n
Progress(t)  ==
    Reading(t) =>
        /\ ask[t] \in TagQueries
        /\ call[t].asked = [j \in DOMAIN ask[t] |->
                              Integer(map[halCtlTagToIndex(ask[t][j])].num)]
        /\ \A j \in DOMAIN call[t].asked :
              LET n == call[t].asked[j].id IN n \in DOMAIN card => Listed(t, n)

(* Drivers and clients keep to the ranges of the controls, and no answer is  *)
(* beyond that of its control.                                               *)
Within(val, n) == n \in DOMAIN card /\ \A k \in DOMAIN val : val[k] \in 0 .. card[n].max
InRange        == \A n \in DOMAIN card : card[n].max > 0 /\ Within(card[n].value, n)
InReach(t)     == Reading(t) => \A j \in DOMAIN call[t].got :
                                    Within(call[t].got[j].val, call[t].got[j].id)

ReadInv  == AskedUp /\ \A t \in Callers : Progress(t)
RangeInv == \A t \in Callers : InReach(t)

(* One more control skipped or read, of a read. *)
Began(t) ==
    /\ ask'[t] \in TagQueries /\ call'[t].got = <<>> /\ call'[t].todo = Ascending(DOMAIN card)
    /\ call'[t].asked = [j \in DOMAIN ask'[t] |->
                           Integer(map[halCtlTagToIndex(ask'[t][j])].num)]
Went(t) == ask'[t] = ask[t] /\ (Skip(t) \/ Read(t)) /\ card' = card

(* A control skipped or read leaves every answer and every control to come. *)
LEMMA WentOn ==
  ASSUME CallsOK, CardTyped, NEW t \in Callers, Skip(t) \/ Read(t),
         NEW c, c = call'[t], NEW n, n = Current(t)
  PROVE  /\ c.verb = call[t].verb /\ c.asked = call[t].asked
         /\ c.todo = Tail(call[t].todo) /\ call[t].todo \in Seq(Nat) /\ call[t].todo # <<>>
         /\ \/ Naming(t, n) = {} /\ c.got = call[t].got
            \/ n \notin DOMAIN card /\ c.got = call[t].got
            \/ /\ n \in DOMAIN card /\ DOMAIN call[t].got \subseteq DOMAIN c.got
               /\ \A j \in DOMAIN call[t].got : c.got[j] = call[t].got[j]
               /\ \A j \in DOMAIN c.got : \/ j \in DOMAIN call[t].got
                                          \/ c.got[j] = [id |-> n, val |-> card[n].value]
               /\ \E j \in DOMAIN c.got : c.got[j] = [id |-> n, val |-> card[n].value]
<1>1. call \in [Callers -> CallRecord] /\ call[t] \in CallRecord
  BY DEF CallsOK
<1>2. /\ call[t].todo \in Seq(Nat) /\ call[t].todo # <<>> /\ call[t].got \in Seq(AnswerRecord)
  BY <1>1 DEF Skip, Read, Busy, CallRecord
<1>3. CASE Skip(t)
  <2>1. call' = [call EXCEPT ![t].todo = Tail(call[t].todo)] /\ Naming(t, n) = {}
    BY <1>3 DEF Skip
  <2>2. QED
    BY <1>1, <1>2, <2>1 DEF CallRecord
<1>4. CASE Read(t)
  <2> DEFINE answer == [id |-> n, val |-> card[n].value]
             got == IF n \in DOMAIN card THEN Append(call[t].got, answer) ELSE call[t].got
             reqs == c.reqs
  <2>1. /\ c.verb = call[t].verb /\ c.asked = call[t].asked
        /\ c.todo = Tail(call[t].todo) /\ c.got = got
    BY <1>1, <1>4 DEF Read, CallRecord
  <2>2. CASE n \notin DOMAIN card
    BY <1>2, <2>1, <2>2
  <2>3. CASE n \in DOMAIN card
    <3>1. c.got = Append(call[t].got, answer)
      BY <2>1, <2>3
    <3>2. answer \in AnswerRecord
      <4>1. card[n].value \in Seq(Int)
        BY <2>3 DEF CardTyped, ControlRecord
      <4>2. n \in Nat
        BY <1>2, Tails DEF Current
      <4>3. QED
        BY <4>1, <4>2 DEF AnswerRecord
    <3> HIDE DEF answer, got
    <3>3. /\ c.got \in Seq(AnswerRecord) /\ Len(c.got) = Len(call[t].got) + 1
          /\ c.got[Len(c.got)] = answer
          /\ \A j \in 1 .. Len(call[t].got) : c.got[j] = call[t].got[j]
      BY <1>2, <3>1, <3>2, AppendProperties
    <3>4. /\ DOMAIN c.got = 1 .. Len(c.got) /\ DOMAIN call[t].got = 1 .. Len(call[t].got)
          /\ Len(call[t].got) \in Nat
      BY <1>2, <3>3, LenProperties
    <3>5. /\ 1 .. Len(call[t].got) \subseteq 1 .. Len(c.got) /\ Len(c.got) \in 1 .. Len(c.got)
          /\ \A j \in 1 .. Len(c.got) : j \in 1 .. Len(call[t].got) \/ j = Len(c.got)
      BY <3>3, <3>4
    <3>6. QED
      BY <1>2, <2>1, <2>3, <3>3, <3>4, <3>5 DEF answer
  <2>4. QED
    BY <2>2, <2>3
<1>5. QED
  BY <1>3, <1>4

(* What a step does to a read while the HAL is up. *)
LEMMA UpStep ==
  ASSUME IInv, AskedUp, [Next]_vars, hal' = "up", NEW t \in Callers, Reading(t)'
  PROVE  /\ hal = "up" /\ SameControls /\ UNCHANGED <<version, map>>
         /\ \/ ask'[t] = ask[t] /\ call'[t] = call[t]
            \/ Began(t)
            \/ Went(t)
<1> USE DEF IInv
<1>1. ask'[t] # <<>> /\ call'[t].verb = "get" /\ NoCall.verb = "none"
  BY DEF Reading, NoCall
<1>2. /\ ask \in [Callers -> Seq(Int)] /\ call \in [Callers -> CallRecord] /\ CardTyped
  BY DEF HalTyped, CallsOK, CardOK
<1>3. ~ \/ \E v \in Versions : Start(v)
        \/ RegisterFails \/ Adding \/ AddFails \/ Map \/ Crash
  BY DEF Start, RegisterFails, Adding, AddFails, Map, Crash
<1>4. ~Subscribe
  BY <1>1 DEF Subscribe, AskedUp
<1>5. ASSUME NEW u \in Callers, NEW tags \in TagQueries, NEW p \in Nat,
             \/ halSetCtls(u, tags, p) \/ halSetCtlByTag(u, tags[1], p) \/ halGetCtls(u, tags)
      PROVE  /\ hal = "up" /\ UNCHANGED <<card, lastNumid, version, map>>
             /\ (ask'[t] = ask[t] /\ call'[t] = call[t]) \/ Began(t)
  <2>1. hal = "up" /\ UNCHANGED <<card, lastNumid, version, map>>
    BY <1>5 DEF halSetCtls, halSetCtlByTag, halGetCtls, Open
  <2>2. \E verb \in {"get", "set"} : \E query, s :
           /\ Open(u, verb, query, None) /\ ask' = [ask EXCEPT ![u] = s]
           /\ verb = "get" =>
                 /\ s = tags
                 /\ query = [j \in DOMAIN tags |-> Integer(map[halCtlTagToIndex(tags[j])].num)]
    BY <1>5 DEF halSetCtls, halSetCtlByTag, halGetCtls
  <2>3. PICK verb \in {"get", "set"} : \E query, s :
           /\ Open(u, verb, query, None) /\ ask' = [ask EXCEPT ![u] = s]
           /\ verb = "get" =>
                 /\ s = tags
                 /\ query = [j \in DOMAIN tags |-> Integer(map[halCtlTagToIndex(tags[j])].num)]
    BY <2>2
  <2>4. PICK query, s :
           /\ Open(u, verb, query, None) /\ ask' = [ask EXCEPT ![u] = s]
           /\ verb = "get" =>
                 /\ s = tags
                 /\ query = [j \in DOMAIN tags |-> Integer(map[halCtlTagToIndex(tags[j])].num)]
    BY <2>3
  <2>5. /\ u # t => call'[t] = call[t] /\ ask'[t] = ask[t]
        /\ ask'[u] = s /\ call'[u].verb = verb /\ call'[u].asked = query
        /\ call'[u].got = <<>> /\ call'[u].todo = Ascending(DOMAIN card)
    BY <1>2, <2>4 DEF Open, NoCall
  <2>6. CASE u = t
    BY <1>1, <2>1, <2>4, <2>5, <2>6 DEF Began
  <2>7. CASE u # t
    BY <2>1, <2>5, <2>7
  <2>8. QED
    BY <2>6, <2>7
<1>6. ASSUME NEW u \in Callers, NEW q \in Queries, NEW g \in 0 .. MaxNumid, Client(u, q, g)
      PROVE  /\ hal = "up" /\ UNCHANGED <<card, lastNumid, version, map>>
             /\ ask'[t] = ask[t] /\ call'[t] = call[t]
  BY <1>1, <1>2, <1>6 DEF Client, Open
<1>7. ASSUME NEW u \in Callers, Answer(u)
      PROVE  /\ hal = "up" /\ UNCHANGED <<card, lastNumid, version, map>>
             /\ ask'[t] = ask[t] /\ call'[t] = call[t]
  BY <1>1, <1>2, <1>7 DEF Answer, Return
<1>8. ASSUME NEW u \in Callers, Serve(u)
      PROVE  /\ hal = "up" /\ SameControls /\ UNCHANGED <<version, map>>
             /\ (ask'[t] = ask[t] /\ call'[t] = call[t]) \/ Went(t)
  <2>1. hal = "up" /\ UNCHANGED <<version, map, ask>>
    BY <1>8 DEF Serve
  <2>2. SameControls
    BY <1>8, ServeKeeps
  <2>3. CASE u # t
    BY <1>2, <1>8, <2>1, <2>2, <2>3 DEF Serve, CallStep, Skip, Read, Write, Refuse
  <2>4. CASE u = t
    <3>1. CASE Skip(t) \/ Read(t)
      BY <2>1, <2>2, <3>1 DEF Went, Skip, Read
    <3>2. CASE Write(t) \/ Refuse(t)
      <4>1. call'[t].verb = "set"
        BY <1>2, <3>2 DEF Write, Refuse, Busy, CallRecord
      <4>2. QED
        BY <1>1, <4>1
    <3>3. QED
      BY <1>8, <2>4, <3>1, <3>2 DEF Serve, CallStep
  <2>5. QED
    BY <2>3, <2>4
<1>9. ASSUME NEW n \in 1 .. MaxNumid, halServiceEvent(n)
      PROVE  /\ hal = "up" /\ UNCHANGED <<card, lastNumid, version, map>>
             /\ ask'[t] = ask[t] /\ call'[t] = call[t]
  BY <1>9 DEF halServiceEvent, controlVars
<1>10. ASSUME UNCHANGED vars
      PROVE  /\ hal = "up" /\ UNCHANGED <<card, lastNumid, version, map>>
             /\ ask'[t] = ask[t] /\ call'[t] = call[t]
  BY <1>10 DEF vars, controlVars
<1>11. ASSUME UNCHANGED <<card, lastNumid>> PROVE SameControls
  BY <1>2, <1>11, NothingWritten
<1>12. Percents \subseteq Nat /\ 0 \in Nat
  BY HalAssumption DEF InputAssumption
<1>13. \/ \E u \in Callers, tags \in TagQueries, p \in Nat :
            halSetCtls(u, tags, p) \/ halSetCtlByTag(u, tags[1], p) \/ halGetCtls(u, tags)
       \/ \E u \in Callers, q \in Queries, g \in 0 .. MaxNumid : Client(u, q, g)
       \/ \E u \in Callers : Serve(u) \/ Answer(u)
       \/ \E n \in 1 .. MaxNumid : halServiceEvent(n)
       \/ UNCHANGED vars
  BY <1>3, <1>4, <1>12 DEF Next
<1>14. QED
  BY <1>5, <1>6, <1>7, <1>8, <1>9, <1>10, <1>11, <1>13

(* A HAL that is asked is up, or has failed to be.                          *)
LEMMA AskedUpNext ==
  ASSUME IInv, AskedUp, [Next]_vars
  PROVE  AskedUp'
<1>1. ask \in [Callers -> Seq(Int)]
  BY DEF IInv, HalTyped
<1>2. CASE Crash
  BY <1>2 DEF Crash, AskedUp
<1>3. CASE /\ UNCHANGED ask
           /\ hal' = hal \/ hal \notin {"up", "failed"}
  BY <1>3 DEF AskedUp
<1>4. ASSUME NEW t \in Callers, NEW s, ask' = [ask EXCEPT ![t] = s], hal' = hal,
             s = <<>> \/ hal \in {"up", "failed"}
      PROVE  AskedUp'
  BY <1>1, <1>4 DEF AskedUp
<1>5. ASSUME NEW t \in Callers,
             \/ \E tags \in TagQueries, p \in Percents : halSetCtls(t, tags, p)
             \/ \E tags \in TagQueries, p \in Percents : halSetCtlByTag(t, tags[1], p)
             \/ \E tags \in TagQueries : halGetCtls(t, tags)
      PROVE  AskedUp'
  <2>1. \E s : ask' = [ask EXCEPT ![t] = s]
    BY <1>5 DEF halSetCtls, halSetCtlByTag, halGetCtls
  <2>2. hal' = hal /\ hal \in {"up", "failed"}
    BY <1>5 DEF halSetCtls, halSetCtlByTag, halGetCtls
  <2>3. QED
    BY <1>4, <2>1, <2>2
<1>6. ASSUME NEW t \in Callers, Answer(t)
      PROVE  AskedUp'
  BY <1>4, <1>6 DEF Answer
<1>7. ASSUME \/ \E v \in Versions : Start(v)
             \/ RegisterFails \/ Adding \/ AddFails \/ Map \/ Subscribe
             \/ \E t \in Callers, q \in Queries, g \in 0 .. MaxNumid : Client(t, q, g)
             \/ \E t \in Callers : Serve(t)
             \/ \E n \in 1 .. MaxNumid : halServiceEvent(n)
             \/ UNCHANGED vars
      PROVE  UNCHANGED ask /\ (hal' = hal \/ hal \notin {"up", "failed"})
  BY <1>7 DEF Start, RegisterFails, Adding, AddFails, Map, Subscribe, Client, Serve,
              halServiceEvent, vars
<1>8. QED
  BY <1>2, <1>3, <1>5, <1>6, <1>7 DEF Next

(* The control looked at is answered, or it is none that was asked for.     *)
LEMMA ProgressNext ==
  ASSUME IInv, ReadInv, [Next]_vars, NEW t \in Callers, Reading(t)'
  PROVE  Progress(t)'
<1> DEFINE L(n) == \/ \E k \in DOMAIN call'[t].got : call'[t].got[k].id = n
                   \/ \E i \in DOMAIN call'[t].todo : call'[t].todo[i] = n
<1>1. hal' = "up"
  BY DEF Reading
<1>2. /\ hal = "up" /\ SameControls /\ version' = version /\ map' = map /\ halCtls' = halCtls
      /\ \/ ask'[t] = ask[t] /\ call'[t] = call[t]
         \/ Began(t)
         \/ Went(t)
  BY <1>1, UpStep DEF ReadInv, halCtls
<1>3. DOMAIN card' = DOMAIN card /\ \A tag : halCtlTagToIndex(tag)' = halCtlTagToIndex(tag)
  BY <1>2 DEF SameControls, halCtlTagToIndex
<1>4. CardTyped /\ CallsOK /\ GetSoFar(t)
  BY DEF IInv, CardOK, CallsOK, CallsSoFar
<1>5. SUFFICES /\ ask'[t] \in TagQueries
               /\ call'[t].asked = [j \in DOMAIN ask'[t] |->
                                      Integer(map[halCtlTagToIndex(ask'[t][j])].num)]
               /\ \A j \in DOMAIN call'[t].asked :
                    call'[t].asked[j].id \in DOMAIN card =>
                       L(call'[t].asked[j].id)
  <2>1. (\A j \in DOMAIN call[t].asked :
           LET n == call[t].asked[j].id IN n \in DOMAIN card => Listed(t, n))'
    BY <1>3, <1>5 DEF Listed, Answers
  <2>2. (call[t].asked = [j \in DOMAIN ask[t] |->
                            Integer(map[halCtlTagToIndex(ask[t][j])].num)])'
    <3>1. \A j \in DOMAIN ask'[t] : halCtlTagToIndex(ask[t][j])' = halCtlTagToIndex(ask'[t][j])
      BY <1>3
    <3>2. \A e : Integer(e)' = Integer(e)
      BY DEF Integer
    <3>3. QED
      BY <1>2, <1>5, <3>1, <3>2 DEF Integer
  <2>3. QED
    BY <1>5, <2>1, <2>2 DEF Progress
<1>6. CASE ask'[t] = ask[t] /\ call'[t] = call[t]
  <2>1. Reading(t)
    BY <1>2, <1>6 DEF Reading
  <2>2. Progress(t)
    BY DEF ReadInv
  <2>3. \A n : Listed(t, n) => L(n)
    BY <1>6 DEF Listed, Answers
  <2> HIDE DEF L
  <2>4. QED
    BY <1>6, <2>1, <2>2, <2>3 DEF Progress
<1>7. CASE Began(t)
  <2>1. /\ ask'[t] \in TagQueries /\ call'[t].todo = Ascending(DOMAIN card)
        /\ call'[t].asked = [j \in DOMAIN ask'[t] |->
                                Integer(map[halCtlTagToIndex(ask'[t][j])].num)]
    BY <1>7 DEF Began
  <2>2. DOMAIN card \in SUBSET Nat /\ IsFiniteSet(DOMAIN card)
    <3>1. lastNumid \in Nat /\ DOMAIN card \subseteq 1 .. lastNumid
      BY <1>4 DEF CardTyped
    <3>2. IsFiniteSet(1 .. lastNumid)
      BY <3>1, FS_Interval
    <3>3. QED
      BY <3>1, <3>2, FS_Subset
  <2>3. \A n \in DOMAIN card : \E i \in DOMAIN call'[t].todo : call'[t].todo[i] = n
    BY <2>1, <2>2, AscendingIsAll
  <2>4. QED
    BY <2>1, <2>3
<1>8. CASE Went(t)
  <2> DEFINE cur == Current(t)
             c == call'[t]
  <2>1. ask'[t] = ask[t] /\ (Skip(t) \/ Read(t))
    BY <1>8 DEF Went
  <2>2. /\ c.verb = call[t].verb /\ c.asked = call[t].asked
        /\ c.todo = Tail(call[t].todo) /\ call[t].todo \in Seq(Nat) /\ call[t].todo # <<>>
        /\ \/ Naming(t, cur) = {} /\ c.got = call[t].got
           \/ cur \notin DOMAIN card /\ c.got = call[t].got
           \/ /\ cur \in DOMAIN card /\ DOMAIN call[t].got \subseteq DOMAIN c.got
              /\ \A j \in DOMAIN call[t].got : c.got[j] = call[t].got[j]
              /\ \E j \in DOMAIN c.got : c.got[j] = [id |-> cur, val |-> card[cur].value]
    BY <1>4, <2>1, WentOn
  <2>3. Reading(t) /\ Progress(t)
    BY <1>2, <2>1, <2>2 DEF Reading, ReadInv
  <2>4. ASSUME NEW j \in DOMAIN call[t].asked, call[t].asked[j].id \in DOMAIN card
        PROVE  L(call[t].asked[j].id)
    <3> DEFINE n == call[t].asked[j].id
    <3>1. Listed(t, n)
      BY <2>3, <2>4 DEF Progress
    <3>2. Naming(t, n) # {}
      <4>1. n # None
        BY <1>4, <2>4 DEF CardTyped, None
      <4>2. j \in DOMAIN call[t].reqs /\ call[t].reqs[j].num = n
        BY <1>4, <2>3, <4>1 DEF GetSoFar, Reading, Malformed
      <4>3. QED
        BY <4>2 DEF Naming
    <3>3. CASE n \in Answers(t)
      <4>1. PICK k \in DOMAIN call[t].got : call[t].got[k].id = n
        BY <3>3 DEF Answers
      <4>2. k \in DOMAIN c.got /\ c.got[k] = call[t].got[k]
        BY <2>2
      <4>3. QED
        BY <4>1, <4>2
    <3>4. ASSUME NEW i \in DOMAIN call[t].todo, call[t].todo[i] = n
          PROVE  L(n)
      <4>1. CASE i = 1
        <5>1. cur = n
          BY <2>2, <3>4, <4>1, Tails DEF Current
        <5>2. PICK k \in DOMAIN c.got : c.got[k] = [id |-> cur, val |-> card[cur].value]
          BY <2>2, <2>4, <3>2, <5>1
        <5>3. QED
          BY <5>1, <5>2
      <4>2. CASE i # 1
        <5>1. i - 1 \in DOMAIN c.todo /\ c.todo[i - 1] = n
          BY <2>2, <3>4, <4>2, TailKeeps
        <5>2. QED
          BY <5>1
      <4>3. QED
        BY <4>1, <4>2
    <3>5. QED
      BY <3>1, <3>3, <3>4 DEF Listed
  <2>5. QED
    BY <2>1, <2>2, <2>3, <2>4 DEF Progress
<1>9. QED
  BY <1>2, <1>6, <1>7, <1>8

(* An answer is of a control as it was when it was read.                    *)
LEMMA RangeNext ==
  ASSUME IInv, AskedUp, RangeInv, InRange, [Next]_vars, NEW t \in Callers, Reading(t)'
  PROVE  InReach(t)'
<1> DEFINE c == call'[t]
<1>1. hal' = "up"
  BY DEF Reading
<1>2. /\ hal = "up" /\ SameControls
      /\ \/ ask'[t] = ask[t] /\ call'[t] = call[t]
         \/ Began(t)
         \/ Went(t)
  BY <1>1, UpStep
<1>3. CardTyped /\ CallsOK
  BY DEF IInv, CardOK
<1>4. \A n : \A val : Within(val, n) => Within(val, n)'
  BY <1>2 DEF Within, SameControls
<1>5. SUFFICES \A j \in DOMAIN c.got : Within(c.got[j].val, c.got[j].id)
  BY <1>4, <1>5 DEF InReach
<1>6. CASE ask'[t] = ask[t] /\ call'[t] = call[t]
  BY <1>2, <1>6 DEF Reading, RangeInv, InReach
<1>7. CASE Began(t)
  BY <1>7 DEF Began
<1>8. CASE Went(t)
  <2> DEFINE cur == Current(t)
  <2>1. ask'[t] = ask[t] /\ (Skip(t) \/ Read(t))
    BY <1>8 DEF Went
  <2>2. /\ c.verb = call[t].verb
        /\ \/ c.got = call[t].got
           \/ /\ cur \in DOMAIN card
              /\ \A j \in DOMAIN call[t].got : c.got[j] = call[t].got[j]
              /\ \A j \in DOMAIN c.got : \/ j \in DOMAIN call[t].got
                                         \/ c.got[j] = [id |-> cur, val |-> card[cur].value]
    BY <1>3, <2>1, WentOn
  <2>3. \A j \in DOMAIN call[t].got : Within(call[t].got[j].val, call[t].got[j].id)
    BY <1>2, <2>1, <2>2 DEF Reading, RangeInv, InReach
  <2>4. cur \in DOMAIN card => Within(card[cur].value, cur)
    BY DEF InRange
  <2> HIDE DEF cur, c
  <2>5. QED
    BY <2>2, <2>3, <2>4
<1>9. QED
  BY <1>2, <1>6, <1>7, <1>8

(* What a read through the HAL answers when it is done. *)
TagIsAnswered(t, tag) ==
    LET i == halCtlTagToIndex(tag)
    IN  \/ \E r \in HalGetPrepareResponse(t) : r.tag = tag
        \/ \E k \in 1 .. i - 1 : map[k].num = map[i].num
EveryTagAnswered ==
    \A t \in Callers : Reading(t) /\ Done(t) =>
        \A j \in DOMAIN ask[t] : TagIsAnswered(t, ask[t][j])

(* A read that is done answers every tag it was asked for. *)
LEMMA DoneAnswers ==
  ASSUME IInv, ReadInv
  PROVE  EveryTagAnswered
<1> SUFFICES ASSUME NEW t \in Callers, Reading(t), Done(t), NEW j \in DOMAIN ask[t]
             PROVE  TagIsAnswered(t, ask[t][j])
  BY DEF EveryTagAnswered
<1> DEFINE tag == ask[t][j]
           i == halCtlTagToIndex(tag)
           n == map[i].num
<1>1. /\ ask[t] \in TagQueries
      /\ call[t].asked = [x \in DOMAIN ask[t] |->
                            Integer(map[halCtlTagToIndex(ask[t][x])].num)]
      /\ \A x \in DOMAIN call[t].asked :
            call[t].asked[x].id \in DOMAIN card => Listed(t, call[t].asked[x].id)
  BY DEF ReadInv, Progress
<1>2. HalTyped
  BY DEF IInv
<1>3. i \in DOMAIN halCtls /\ halCtls[i].tag = tag
  BY <1>1, <1>2, TagFound
<1>4. n \in DOMAIN card /\ DOMAIN map = DOMAIN halCtls
  BY <1>2, <1>3 DEF IInv, HalTyped, MappedRight, Reading
<1>5. j \in DOMAIN call[t].asked /\ call[t].asked[j].id = n
  BY <1>1 DEF Integer
<1>6. call[t].todo = <<>>
  BY DEF Done
<1> HIDE DEF n, i, tag
<1>7. n \in Answers(t)
  <2>1. Listed(t, n)
    BY <1>1, <1>4, <1>5
  <2>2. DOMAIN call[t].todo = {}
    BY <1>6
  <2>3. QED
    BY <2>1, <2>2 DEF Listed
<1>8. PICK k \in DOMAIN call[t].got : call[t].got[k].id = n
  BY <1>7 DEF Answers
<1>9. i \in Mapped(n)
  BY <1>3, <1>4 DEF Mapped, n
<1>10. Entry1(n) \in Mapped(n) /\ Entry1(n) <= i /\ Entry1(n) \in Nat /\ i \in Nat /\ Entry1(n) >= 1
  <2>1. DOMAIN map = 1 .. Len(halCtls) /\ Len(halCtls) \in Nat
    BY <1>2, <1>4, TableTyped, LenProperties DEF halCtls, HalTyped
  <2>2. Mapped(n) \in SUBSET Nat /\ \A m \in Mapped(n) : m >= 1
    BY <2>1 DEF Mapped
  <2>3. \E m \in Mapped(n) : \A x \in Mapped(n) : m <= x
    BY <1>9, <2>2, Least
  <2>4. Entry1(n) \in Mapped(n) /\ \A x \in Mapped(n) : Entry1(n) <= x
    BY <2>3 DEF Entry1
  <2>5. QED
    BY <1>9, <2>2, <2>4
<1>11. CASE Entry1(n) = i
  <2> DEFINE r == call[t].got[k]
             answer == [tag |-> halCtls[Entry1(r.id)].tag,
                        val |-> [x \in DOMAIN r.val |->
                                   V!ToPercent(Scale(map[Entry1(r.id)]), r.val[x])]]
  <2>1. Mapped(r.id) # {}
    BY <1>8, <1>9
  <2>2. answer \in HalGetPrepareResponse(t)
    BY <2>1 DEF HalGetPrepareResponse
  <2>3. answer.tag = tag
    BY <1>3, <1>8, <1>11
  <2>4. QED
    BY <2>2, <2>3 DEF TagIsAnswered, tag
<1>12. CASE Entry1(n) # i
  <2>1. Entry1(n) \in 1 .. i - 1
    BY <1>10, <1>12
  <2>2. map[Entry1(n)].num = n
    BY <1>10 DEF Mapped
  <2>3. QED
    BY <2>1, <2>2 DEF TagIsAnswered, n, i, tag
<1>13. QED
  BY <1>11, <1>12

(* A value in the range of a linear control that starts at 0 is one in percent. *)
LEMMA Percent ==
  ASSUME NEW max \in Nat, max > 0, NEW v \in 0 .. max
  PROVE  (100 * v) \div max \in 0 .. 100
<1> DEFINE q == (100 * v) \div max
<1>1. 100 * v \in Nat /\ 100 * v <= max * 100
  OBVIOUS
<1>2. q \in Int /\ max * q <= 100 * v /\ 100 * v < max * q + max
  BY <1>1
<1> HIDE DEF q
<1>3. q <= 100
  <2> SUFFICES ASSUME q >= 101 PROVE FALSE
    BY <1>2
  <2>1. max * q >= max * 101
    BY <1>2
  <2>2. max * 101 > max * 100
    OBVIOUS
  <2>3. max * q \in Int /\ max * 101 \in Int /\ max * 100 \in Int
    BY <1>2
  <2>4. QED
    BY <1>1, <1>2, <2>1, <2>2, <2>3
<1>4. q >= 0
  <2> SUFFICES ASSUME q <= -1 PROVE FALSE
    BY <1>2
  <2>1. max * q <= -max
    BY <1>2
  <2>2. max * q + max <= 0
    BY <1>2, <2>1
  <2>3. QED
    BY <1>1, <1>2, <2>2
<1>5. QED
  BY <1>2, <1>3, <1>4 DEF q

(* The answers of a read that is done are in percent. *)
LEMMA DoneInPercent ==
  ASSUME IInv, RangeInv, InRange, NEW t \in Callers, Reading(t),
         NEW r \in HalGetPrepareResponse(t), NEW k \in DOMAIN r.val
  PROVE  r.val[k] \in 0 .. 100
<1>1. PICK j \in DOMAIN call[t].got :
         /\ Mapped(call[t].got[j].id) # {}
         /\ r = [tag |-> halCtls[Entry1(call[t].got[j].id)].tag,
                 val |-> [x \in DOMAIN call[t].got[j].val |->
                            V!ToPercent(Scale(map[Entry1(call[t].got[j].id)]),
                                        call[t].got[j].val[x])]]
  BY DEF HalGetPrepareResponse
<1> DEFINE n == call[t].got[j].id
           v == call[t].got[j].val[k]
           e == map[Entry1(n)]
<1>2. k \in DOMAIN call[t].got[j].val /\ r.val[k] = V!ToPercent(Scale(e), v)
  BY <1>1
<1>3. n \in DOMAIN card /\ v \in 0 .. card[n].max
  BY <1>2 DEF RangeInv, InReach, Within
<1>4. card[n].max \in Nat /\ card[n].max > 0
  BY <1>3 DEF IInv, CardOK, CardTyped, ControlRecord, InRange
<1>5. Entry1(n) \in Mapped(n)
  <2>1. DOMAIN map = 1 .. Len(halCtls) /\ Len(halCtls) \in Nat
    BY TableTyped, LenProperties DEF halCtls, HalTyped, IInv
  <2>2. Mapped(n) \in SUBSET Nat
    BY <2>1 DEF Mapped
  <2>3. \E m \in Mapped(n) : \A x \in Mapped(n) : m <= x
    BY <1>1, <2>2, Least
  <2>4. QED
    BY <2>3 DEF Entry1
<1>6. e.max = card[n].max
  BY <1>5 DEF IInv, MappedRight, Mapped, Reading
<1> HIDE DEF e, v
<1>7. /\ Scale(e).minval = 0 /\ Scale(e).maxval = card[n].max
      /\ Scale(e).dbmin = 0 /\ Scale(e).dbmax = 0
  BY <1>6 DEF Scale
<1>8. V!ToPercent(Scale(e), v) = (100 * v) \div card[n].max
  <2>1. V!IsLinear(Scale(e))
    BY <1>7 DEF V!IsLinear, V!HasDbScale
  <2>2. v - 0 = v /\ card[n].max - 0 = card[n].max
    BY <1>3, <1>4
  <2>3. QED
    BY <1>7, <2>1, <2>2 DEF V!ToPercent
<1>9. QED
  BY <1>2, <1>3, <1>4, <1>8, Percent

(* EveryTagAnswered: a read through an up HAL answers every tag it was asked *)
(* for, or answers its control under the tag of an earlier entry, whatever   *)
(* other clients, restarts and events come in between.                       *)
THEOREM TagsReachTheirControl == Spec => []EveryTagAnswered
<1>1. Init => ReadInv
  BY DEF Init, ReadInv, AskedUp, Progress, Reading
<1>2. IInv /\ ReadInv /\ [Next]_vars => ReadInv'
  <2> SUFFICES ASSUME IInv, ReadInv, [Next]_vars PROVE ReadInv'
    OBVIOUS
  <2>1. AskedUp'
    BY AskedUpNext DEF ReadInv
  <2>2. ASSUME NEW t \in Callers PROVE Progress(t)'
    <3>1. CASE Reading(t)'
      BY <3>1, ProgressNext
    <3>2. CASE ~Reading(t)'
      BY <3>2 DEF Progress
    <3>3. QED
      BY <3>1, <3>2
  <2>3. QED
    BY <2>1, <2>2 DEF ReadInv
<1>3. IInv /\ ReadInv => EveryTagAnswered
  BY DoneAnswers
<1>4. QED
  BY <1>1, <1>2, <1>3, Invariant, PTL DEF Spec

(* TagsAnswered: if moreover drivers and clients keep the values of controls *)
(* in their ranges, the answers are in percent.                              *)
THEOREM TagsAreAnswered == Spec /\ []InRange => []TagsAnswered
<1>1. Init => AskedUp /\ RangeInv
  BY DEF Init, AskedUp, RangeInv, InReach, Reading
<1>2. IInv /\ AskedUp /\ RangeInv /\ InRange /\ [Next]_vars => AskedUp' /\ RangeInv'
  <2> SUFFICES ASSUME IInv, AskedUp, RangeInv, InRange, [Next]_vars
               PROVE  AskedUp' /\ RangeInv'
    OBVIOUS
  <2>1. AskedUp'
    BY AskedUpNext
  <2>2. ASSUME NEW t \in Callers PROVE InReach(t)'
    <3>1. CASE Reading(t)'
      BY <3>1, RangeNext
    <3>2. CASE ~Reading(t)'
      BY <3>2 DEF InReach
    <3>3. QED
      BY <3>1, <3>2
  <2>3. QED
    BY <2>1, <2>2 DEF RangeInv
<1>3. IInv /\ EveryTagAnswered /\ RangeInv /\ InRange => TagsAnswered
  <2> SUFFICES ASSUME IInv, EveryTagAnswered, RangeInv, InRange, NEW t \in Callers,
                      hal = "up", ask[t] # <<>>, call[t].verb = "get", Done(t)
               PROVE  /\ \A j \in DOMAIN ask[t] : TagIsAnswered(t, ask[t][j])
                      /\ \A r \in HalGetPrepareResponse(t) :
                            \A k \in DOMAIN r.val : r.val[k] \in 0 .. 100
    BY DEF TagsAnswered, TagIsAnswered
  <2>1. Reading(t)
    BY DEF Reading
  <2>2. QED
    BY <2>1, DoneInPercent DEF EveryTagAnswered
<1>4. QED
  BY <1>1, <1>2, <1>3, Invariant, TagsReachTheirControl, PTL DEF Spec

-----------------------------------------------------------------------------
(* The numids given out.  A control the HAL adds is settled once the card    *)
(* has it in the shape of its entry: no numid is given for it again until    *)
(* another version of the table is started.                                  *)
Autos(v)   == {i \in DOMAIN Table[v] : Table[v][i].auto}
OwnNames   == \A hw \in Hardware : \A n \in DOMAIN hw : \A v \in Versions :
                 \A i \in Autos(v) : hw[n].name # Table[v][i].name
Settled(i) == \E n \in DOMAIN card :
                 card[n].name = halCtls[i].name /\ SameShape(n, halCtls[i])
Unsettled  == {i \in Autos(version) : ~Settled(i)}
OfHardware == {n \in DOMAIN card : ~card[n].user}

AddedAreUser == \A n \in DOMAIN card : \A v \in Versions : \A i \in Autos(v) :
                   card[n].name = Table[v][i].name => card[n].user
FirstStart   == starts = 0 =>
                   upgrades = 0 /\ hal = "down" /\ lastNumid = Cardinality(OfHardware)
Budget(A)    == lastNumid + Cardinality(Unsettled) <=
                    Cardinality(OfHardware) + (1 + upgrades) * A
NumidInv(A)  == AddedAreUser /\ FirstStart /\ Budget(A)

(* A table adds so many controls. *)
LEMMA AutosCounted ==
  ASSUME NEW v \in Versions
  PROVE  IsFiniteSet(Autos(v)) /\ Cardinality(Autos(v)) \in Nat
<1>1. DOMAIN Table[v] = 1 .. Len(Table[v]) /\ Len(Table[v]) \in Int
  BY TableTyped, LenProperties
<1>2. IsFiniteSet(1 .. Len(Table[v]))
  BY <1>1, 1 \in Int, FS_Interval
<1>3. Autos(v) \in SUBSET (1 .. Len(Table[v]))
  BY <1>1 DEF Autos
<1>4. QED
  BY <1>2, <1>3, FS_Subset, FS_CardinalityType

(* The sets counted are finite. *)
LEMMA Counted ==
  ASSUME CardTyped, version \in Versions, NEW v \in Versions
  PROVE  /\ IsFiniteSet(Autos(v)) /\ Cardinality(Autos(v)) \in Nat
         /\ IsFiniteSet(Unsettled) /\ Cardinality(Unsettled) \in Nat
         /\ Cardinality(Unsettled) <= Cardinality(Autos(version))
         /\ IsFiniteSet(OfHardware) /\ Cardinality(OfHardware) \in Nat
         /\ lastNumid \in Nat
<1>1. \A w \in Versions : IsFiniteSet(Autos(w))
  BY AutosCounted
<1>2. Unsettled \in SUBSET Autos(version)
  BY DEF Unsettled
<1>3. IsFiniteSet(Unsettled) /\ Cardinality(Unsettled) <= Cardinality(Autos(version))
  BY <1>1, <1>2, FS_Subset
<1>4. lastNumid \in Nat /\ DOMAIN card \subseteq 1 .. lastNumid
  BY DEF CardTyped
<1>5. IsFiniteSet(OfHardware)
  <2>1. IsFiniteSet(1 .. lastNumid)
    BY <1>4, 1 \in Int, lastNumid \in Int, FS_Interval
  <2>2. OfHardware \in SUBSET (1 .. lastNumid)
    BY <1>4 DEF OfHardware
  <2>3. QED
    BY <2>1, <2>2, FS_Subset
<1>6. QED
  BY <1>1, <1>3, <1>4, <1>5, FS_CardinalityType

(* A step of no new table that settles what was settled, and gives a numid  *)
(* only for a control it settles, keeps to the budget.                       *)
LEMMA BudgetKept ==
  ASSUME NEW A \in Nat, NEW S \in SUBSET Unsettled, CardTyped, CardTyped', HalTyped,
         Unsettled' \subseteq S, lastNumid' + Cardinality(S) = lastNumid + Cardinality(Unsettled),
         OfHardware' = OfHardware, UNCHANGED <<version, upgrades>>, Budget(A)
  PROVE  Budget(A)'
<1>1. /\ IsFiniteSet(Unsettled) /\ Cardinality(Unsettled) \in Nat /\ lastNumid \in Nat
      /\ Cardinality(OfHardware) \in Nat
  BY Counted DEF HalTyped
<1>2. IsFiniteSet(S) /\ Unsettled' \in SUBSET S
  BY <1>1, FS_Subset
<1>3. IsFiniteSet(Unsettled') /\ Cardinality(Unsettled') <= Cardinality(S)
  BY <1>2, FS_Subset
<1>4. Cardinality(S) \in Nat /\ Cardinality(Unsettled') \in Nat /\ lastNumid' \in Nat
  BY <1>2, <1>3, FS_CardinalityType DEF CardTyped
<1> DEFINE P == (1 + upgrades) * A
           H == Cardinality(OfHardware)
<1>5. P \in Int /\ H \in Nat /\ lastNumid + Cardinality(Unsettled) <= H + P
  BY <1>1 DEF HalTyped, Budget
<1>6. Cardinality(OfHardware') = H /\ (1 + upgrades') * A = P
  OBVIOUS
<1> HIDE DEF P, H
<1>7. lastNumid' + Cardinality(Unsettled') <= H + P
  BY <1>1, <1>3, <1>4, <1>5
<1>8. QED
  BY <1>6, <1>7 DEF Budget

(* A step that changes values at most is one.                                *)
LEMMA ValuesKeepBudget ==
  ASSUME NEW A \in Nat, IInv, CardTyped', SameControls, UNCHANGED <<version, upgrades>>,
         AddedAreUser, Budget(A)
  PROVE  AddedAreUser' /\ Budget(A)' /\ Unsettled' \subseteq Unsettled /\ OfHardware' = OfHardware
<1>1. AddedAreUser'
  BY DEF AddedAreUser, SameControls
<1>2. OfHardware' = OfHardware
  BY DEF OfHardware, SameControls
<1>3. halCtls' = halCtls
  BY DEF halCtls
<1>4. \A i : Settled(i) => Settled(i)'
  BY <1>3 DEF Settled, SameShape, SameControls
<1>5. Unsettled' \subseteq Unsettled
  BY <1>4 DEF Unsettled
<1>6. Budget(A)'
  <2>1. lastNumid' + Cardinality(Unsettled) = lastNumid + Cardinality(Unsettled)
    BY DEF SameControls
  <2>2. CardTyped /\ HalTyped /\ Unsettled \in SUBSET Unsettled
    BY DEF IInv, CardOK
  <2>3. QED
    BY <1>2, <1>5, <2>1, <2>2, BudgetKept
<1>7. QED
  BY <1>1, <1>2, <1>5, <1>6

(* Removing a control of another shape: it is the next entry's own, which is  *)
(* not settled, and no other entry's.                                        *)
LEMMA RemoveKeepsBudget ==
  ASSUME NEW A \in Nat, IInv, CardTyped', hal = "add", Remove,
         UNCHANGED <<version, upgrades>>, AddedAreUser, Budget(A)
  PROVE  AddedAreUser' /\ Budget(A)'
<1>1. PICK n \in Named(Entry.name) : /\ ~SameShape(n, Entry)
                                     /\ card' = [m \in DOMAIN card \ {n} |-> card[m]]
  BY DEF Remove
<1>2. add.at # "done" /\ Entry.auto /\ lastNumid' = lastNumid
  BY DEF Remove
<1>3. n \in DOMAIN card /\ card[n].name = Entry.name
  BY <1>1 DEF Named
<1>4. Next1 \in DOMAIN halCtls /\ Entry = halCtls[Next1] /\ version \in Versions
  BY <1>2, NextEntry DEF IInv, HalTyped
<1>5. Next1 \in Autos(version) /\ Entry = Table[version][Next1]
  BY <1>2, <1>4 DEF Autos, halCtls
<1>6. card[n].user
  BY <1>3, <1>4, <1>5 DEF AddedAreUser
<1>7. OfHardware' = OfHardware
  BY <1>1, <1>3, <1>6 DEF OfHardware
<1>8. AddedAreUser'
  BY <1>1 DEF AddedAreUser
<1>9. Unsettled' \subseteq Unsettled
  <2> SUFFICES ASSUME NEW i \in Autos(version), Settled(i) PROVE Settled(i)'
    BY DEF Unsettled
  <2>1. PICK m \in DOMAIN card : card[m].name = halCtls[i].name /\ SameShape(m, halCtls[i])
    BY DEF Settled
  <2>2. m # n
    <3> SUFFICES ASSUME m = n PROVE FALSE
      OBVIOUS
    <3>1. Table[version][i].name = Table[version][Next1].name
      BY <1>3, <1>5, <2>1 DEF halCtls
    <3>2. i = Next1
      BY <1>4, <1>5, <3>1, HalAssumption DEF TableAssumption, Autos
    <3>3. QED
      BY <1>1, <1>4, <2>1, <3>2
  <2>3. m \in DOMAIN card' /\ card'[m] = card[m] /\ halCtls' = halCtls
    BY <1>1, <2>1, <2>2 DEF halCtls
  <2>4. QED
    BY <2>1, <2>3 DEF Settled, SameShape
<1>10. lastNumid' + Cardinality(Unsettled) = lastNumid + Cardinality(Unsettled)
  BY <1>2
<1>11. CardTyped /\ HalTyped /\ Unsettled \in SUBSET Unsettled
  BY DEF IInv, CardOK
<1>12. Budget(A)'
  BY <1>7, <1>9, <1>10, <1>11, BudgetKept
<1>13. QED
  BY <1>8, <1>12

(* Creating a control settles the next entry, which was not settled.         *)
LEMMA CreateKeepsBudget ==
  ASSUME NEW A \in Nat, IInv, CardTyped', hal = "add", Create,
         UNCHANGED <<version, upgrades>>, AddedAreUser, Budget(A)
  PROVE  AddedAreUser' /\ Budget(A)'
<1>0. PICK k : k = Next1
  OBVIOUS
<1> DEFINE n == lastNumid + 1
           S == Unsettled \ {k}
<1>1. /\ lastNumid' = n /\ add.at = "create"
      /\ card' = [m \in DOMAIN card \union {n} |->
                    IF m = n THEN Control(Entry) ELSE card[m]]
  BY DEF Create
<1>2. Entry.auto /\ Named(Entry.name) = {}
  BY <1>1 DEF IInv, AddOK, AddSoFar
<1>3. k \in DOMAIN halCtls /\ Entry = halCtls[k] /\ Entry \in TableEntry
      /\ version \in Versions
  BY <1>0, <1>1, NextEntry DEF IInv, HalTyped
<1>4. k \in Autos(version)
  BY <1>2, <1>3 DEF Autos, halCtls
<1>5. CardTyped /\ HalTyped /\ lastNumid \in Nat
  BY DEF IInv, CardOK, CardTyped
<1>6. n \notin DOMAIN card
  BY <1>5 DEF CardTyped
<1> HIDE DEF n
<1>7. /\ DOMAIN card' = DOMAIN card \union {n} /\ card'[n] = Control(Entry)
      /\ \A m \in DOMAIN card : card'[m] = card[m]
  BY <1>1, <1>6
<1>8. Control(Entry).user /\ Control(Entry).name = Entry.name
      /\ Control(Entry).max = Entry.max /\ Len(Control(Entry).value) = Entry.count
  <2>1. <<0>> \in Seq(Int) /\ <<0>> # <<>> /\ Entry.count \in Nat
    BY <1>3 DEF TableEntry
  <2>2. Len(Fill(<<0>>, Entry.count)) = Entry.count
    BY <2>1, FillTyped
  <2>3. QED
    BY <2>2 DEF Control
<1>9. AddedAreUser'
  BY <1>7, <1>8 DEF AddedAreUser
<1>10. OfHardware' = OfHardware
  BY <1>7, <1>8 DEF OfHardware
<1>11. halCtls' = halCtls
  BY DEF halCtls
<1>12. \A i : Settled(i) => Settled(i)'
  BY <1>7, <1>11 DEF Settled, SameShape
<1>13. Settled(k)'
  <2>1. /\ n \in DOMAIN card' /\ card'[n].name = halCtls'[k].name
        /\ card'[n].max = halCtls'[k].max /\ Len(card'[n].value) = halCtls'[k].count
    BY <1>3, <1>7, <1>8, <1>11
  <2>2. QED
    BY <2>1 DEF Settled, SameShape
<1>14. Unsettled' \subseteq S
  BY <1>12, <1>13 DEF Unsettled
<1>15. k \in Unsettled
  BY <1>2, <1>3, <1>4 DEF Unsettled, Settled, Named
<1>16. lastNumid' + Cardinality(S) = lastNumid + Cardinality(Unsettled)
  <2>1. IsFiniteSet(Unsettled) /\ Cardinality(Unsettled) \in Nat
    BY <1>3, <1>5, Counted
  <2>2. Cardinality(S) = Cardinality(Unsettled) - 1
    BY <1>15, <2>1, FS_RemoveElement
  <2>3. QED
    BY <1>1, <1>5, <2>1, <2>2 DEF n
<1>17. S \in SUBSET Unsettled
  OBVIOUS
<1> HIDE DEF S
<1>18. Budget(A)'
  BY <1>5, <1>10, <1>14, <1>16, <1>17, BudgetKept
<1>19. QED
  BY <1>9, <1>18

(* A start with another version may leave all of its controls to be settled.  *)
LEMMA StartKeepsBudget ==
  ASSUME NEW A \in Nat, \A w \in Versions : Cardinality(Autos(w)) <= A, NEW v \in Versions,
         IInv, IInv', Start(v), NumidInv(A)
  PROVE  NumidInv(A)'
<1> USE DEF NumidInv
<1>1. /\ starts' = starts + 1 /\ version' = v /\ UNCHANGED <<card, lastNumid>>
      /\ upgrades' = IF v = version \/ starts = 0 THEN upgrades ELSE upgrades + 1
  BY DEF Start
<1>2. /\ CardTyped /\ CardTyped' /\ version \in Versions
      /\ starts \in Nat /\ upgrades \in Nat /\ lastNumid \in Nat
  BY HalAssumption DEF IInv, CardOK, CardTyped, HalTyped, InputAssumption
<1>3. AddedAreUser' /\ OfHardware' = OfHardware
  BY <1>1 DEF AddedAreUser, OfHardware
<1>4. FirstStart'
  BY <1>1, <1>2 DEF FirstStart
<1>5. Budget(A)'
  <2>1. CASE v = version
    <3>1. upgrades' = upgrades /\ version' = version
      BY <1>1, <2>1
    <3>2. SameControls
      BY <1>1, <1>2, NothingWritten
    <3>3. QED
      BY <1>2, <3>1, <3>2, ValuesKeepBudget
  <2>2. CASE v # version
    <3> DEFINE H == Cardinality(OfHardware)
               U == Cardinality(Unsettled)
               W == Cardinality(Unsettled')
               a == Cardinality(Autos(v))
    <3>1. H \in Nat /\ U \in Nat /\ a \in Nat /\ a <= A
      BY <1>2, Counted
    <3>2. /\ Unsettled' \in SUBSET Autos(v) /\ IsFiniteSet(Autos(v))
      BY <1>1, <1>2, Counted DEF Unsettled
    <3>3. W \in Nat /\ W <= a
      BY <3>2, FS_Subset, FS_CardinalityType
    <3>4. Cardinality(OfHardware') = H
      BY <1>3
    <3> HIDE DEF H, U, W, a
    <3>5. W <= A
      BY <3>1, <3>3
    <3>6. CASE starts = 0
      <4>1. lastNumid' = H /\ upgrades' = 0
        BY <1>1, <3>6 DEF FirstStart, H
      <4>2. lastNumid' + W <= H + (1 + upgrades') * A
        BY <3>1, <3>3, <3>5, <4>1
      <4>3. QED
        BY <3>4, <4>2 DEF Budget, W
    <3>7. CASE starts # 0
      <4>1. lastNumid' = lastNumid /\ upgrades' = upgrades + 1
        BY <1>1, <2>2, <3>7
      <4> DEFINE P == (1 + upgrades) * A
      <4>2. lastNumid + U <= H + P /\ P \in Int
        BY <1>2 DEF Budget, H, U
      <4>3. (1 + (upgrades + 1)) * A = P + A
        BY <1>2
      <4> HIDE DEF P
      <4>4. lastNumid + W <= H + (P + A)
        BY <1>2, <3>1, <3>3, <3>5, <4>2
      <4>5. QED
        BY <3>4, <4>1, <4>3, <4>4 DEF Budget, W
    <3>8. QED
      BY <3>6, <3>7
  <2>3. QED
    BY <2>1, <2>2
<1>6. QED
  BY <1>3, <1>4, <1>5

(* Every step keeps to the budget. *)
LEMMA NumidNext ==
  ASSUME NEW A \in Nat, \A w \in Versions : Cardinality(Autos(w)) <= A,
         IInv, NumidInv(A), [Next]_vars
  PROVE  NumidInv(A)'
<1>1. IInv'
  BY NextIInv
<1>2. CardTyped /\ CardTyped'
  BY <1>1 DEF IInv, CardOK
<1> DEFINE Rest == /\ UNCHANGED <<starts, version, upgrades>>
                   /\ hal = "down" => hal' = "down"
<1>3. \/ \E v \in Versions : Start(v)
      \/ Rest /\ SameControls
      \/ Rest /\ hal = "add" /\ (Remove \/ Create)
  <2>1. CASE RegisterFails \/ AddFails \/ Map \/ Subscribe \/ Crash
    <3>1. Rest /\ UNCHANGED <<card, lastNumid>>
      BY <2>1 DEF RegisterFails, AddFails, Map, Subscribe, Crash, controlVars
    <3>2. QED
      BY <1>2, <3>1, NothingWritten
  <2>2. CASE Adding
    <3>1. Rest /\ hal = "add" /\ AddStep
      BY <2>2 DEF Adding
    <3>2. CASE Remove \/ Create
      BY <3>1, <3>2
    <3>3. CASE WriteDefault
      <4>1. /\ card' = [card EXCEPT ![add.num].value = Fill(<<Entry.value>>, Len(@))]
            /\ lastNumid' = lastNumid /\ add.at = "write"
        BY <3>3 DEF WriteDefault
      <4>2. Right(add.num, Entry) /\ Entry \in TableEntry
        BY <3>1, <4>1, NextEntry DEF IInv, AddOK, AddSoFar, HalTyped
      <4>3. <<Entry.value>> \in Seq(Int) /\ <<Entry.value>> # <<>>
        BY <4>2 DEF TableEntry
      <4>4. SameControls
        BY <1>2, <4>1, <4>2, <4>3, ValueWritten DEF Right
      <4>5. QED
        BY <3>1, <4>4
    <3>4. CASE Reuse \/ RemoveFails \/ NotThere \/ CreateFails \/ WriteDefaultFails \/ ReadBack
      <4>1. UNCHANGED <<card, lastNumid>>
        BY <3>4 DEF Reuse, RemoveFails, NotThere, CreateFails, WriteDefaultFails, ReadBack
      <4>2. QED
        BY <1>2, <3>1, <4>1, NothingWritten
    <3>5. QED
      BY <3>1, <3>2, <3>3, <3>4 DEF AddStep
  <2>3. ASSUME NEW t \in Callers,
               \/ \E tags \in TagQueries, p \in Percents : halSetCtls(t, tags, p)
               \/ \E tags \in TagQueries, p \in Percents : halSetCtlByTag(t, tags[1], p)
               \/ \E tags \in TagQueries : halGetCtls(t, tags)
               \/ \E q \in Queries, g \in 0 .. MaxNumid : Client(t, q, g)
               \/ Answer(t)
        PROVE  Rest /\ SameControls
    <3>1. Rest /\ UNCHANGED <<card, lastNumid>>
      BY <2>3 DEF halSetCtls, halSetCtlByTag, halGetCtls, Client, Answer, Return, Open
    <3>2. QED
      BY <1>2, <3>1, NothingWritten
  <2>4. ASSUME NEW t \in Callers, Serve(t) PROVE Rest /\ SameControls
    BY <2>4, ServeKeeps DEF Serve
  <2>5. CASE UNCHANGED vars \/ \E n \in 1 .. MaxNumid : halServiceEvent(n)
    <3>1. Rest /\ UNCHANGED <<card, lastNumid>>
      BY <2>5 DEF vars, controlVars, halServiceEvent
    <3>2. QED
      BY <1>2, <3>1, NothingWritten
  <2> HIDE DEF Rest
  <2>6. QED
    BY <2>1, <2>2, <2>3, <2>4, <2>5 DEF Next
<1>4. CASE \E v \in Versions : Start(v)
  BY <1>1, <1>4, StartKeepsBudget
<1>5. CASE Rest /\ SameControls
  <2>1. AddedAreUser' /\ Budget(A)' /\ OfHardware' = OfHardware
    BY <1>2, <1>5, ValuesKeepBudget DEF NumidInv
  <2>2. FirstStart'
    BY <1>5, <2>1 DEF NumidInv, FirstStart, SameControls
  <2>3. QED
    BY <2>1, <2>2 DEF NumidInv
<1>6. CASE Rest /\ hal = "add" /\ (Remove \/ Create)
  <2>1. AddedAreUser' /\ Budget(A)'
    BY <1>2, <1>6, RemoveKeepsBudget, CreateKeepsBudget DEF NumidInv
  <2>2. FirstStart'
    BY <1>6 DEF NumidInv, FirstStart
  <2>3. QED
    BY <2>1, <2>2 DEF NumidInv
<1>7. QED
  BY <1>3, <1>4, <1>5, <1>6

(* At the beginning the numids are those of the hardware. *)
LEMMA NumidInit ==
  ASSUME OwnNames, NEW A \in Nat, \A w \in Versions : Cardinality(Autos(w)) <= A, Init
  PROVE  NumidInv(A)
<1>1. IInv
  BY InitIInv
<1>2. PICK hw \in Hardware : card = [n \in DOMAIN hw |-> hw[n]] /\ lastNumid = Len(hw)
  BY DEF Init
<1>3. /\ hw \in Seq(ControlRecord) /\ \A n \in DOMAIN hw : ~hw[n].user
  BY HalAssumption DEF HardwareAssumption
<1>4. DOMAIN hw = 1 .. Len(hw) /\ Len(hw) \in Nat
  BY <1>3, LenProperties
<1>5. OfHardware = 1 .. lastNumid
  BY <1>2, <1>3, <1>4 DEF OfHardware
<1>6. Cardinality(OfHardware) = lastNumid
  <2>1. lastNumid \in Nat /\ lastNumid \in Int /\ 1 \in Int
    BY <1>2, <1>4
  <2>2. Cardinality(1 .. lastNumid) = IF 1 > lastNumid THEN 0 ELSE lastNumid - 1 + 1
    BY <2>1, FS_Interval
  <2>3. QED
    BY <1>5, <2>1, <2>2
<1>7. AddedAreUser
  BY <1>2 DEF AddedAreUser, OwnNames
<1>8. FirstStart
  BY <1>6 DEF FirstStart, Init
<1>9. Budget(A)
  <2>1. /\ Cardinality(Unsettled) \in Nat /\ Cardinality(Autos(version)) \in Nat
        /\ Cardinality(Unsettled) <= Cardinality(Autos(version)) /\ lastNumid \in Nat
        /\ version \in Versions
    BY <1>1, Counted DEF IInv, CardOK, HalTyped
  <2>2. Cardinality(Unsettled) <= A
    BY <2>1
  <2>3. upgrades = 0
    BY DEF Init
  <2> DEFINE U == Cardinality(Unsettled)
             H == Cardinality(OfHardware)
  <2>4. U \in Nat /\ U <= A /\ H = lastNumid
    BY <1>6, <2>1, <2>2
  <2> HIDE DEF U, H
  <2>5. lastNumid + U <= H + (1 + upgrades) * A
    BY <2>1, <2>3, <2>4
  <2>6. QED
    BY <2>5 DEF Budget, U, H
<1>10. QED
  BY <1>7, <1>8, <1>9 DEF NumidInv

(* Within the budget the numids given are bounded. *)
LEMMA NumidKept ==
  ASSUME NEW A \in Nat, IInv, NumidInv(A)
  PROVE  lastNumid <= Cardinality(OfHardware) + (1 + upgrades) * A
<1> DEFINE U == Cardinality(Unsettled)
           H == Cardinality(OfHardware)
           P == (1 + upgrades) * A
<1>1. U \in Nat /\ H \in Nat /\ lastNumid \in Nat /\ P \in Int
  BY Counted DEF IInv, CardOK, HalTyped
<1>2. lastNumid + U <= H + P
  BY DEF NumidInv, Budget
<1> HIDE DEF U, H, P
<1>3. lastNumid <= H + P
  BY <1>1, <1>2
<1>4. QED
  BY <1>3 DEF H, P

(* Starting again adds no control: if no version adds more than A controls,  *)
(* and the card has none under their names, at most A numids are given for   *)
(* each change of version, however often the binder stops and starts.        *)
THEOREM NumidsAreGivenOnce ==
  ASSUME OwnNames, NEW A \in Nat, \A v \in Versions : Cardinality(Autos(v)) <= A
  PROVE  Spec => [](lastNumid <= Cardinality(OfHardware) + (1 + upgrades) * A)
<1>1. Init => NumidInv(A)
  BY NumidInit
<1>2. IInv /\ NumidInv(A) /\ [Next]_vars => NumidInv(A)'
  BY NumidNext
<1>3. IInv /\ NumidInv(A) => lastNumid <= Cardinality(OfHardware) + (1 + upgrades) * A
  BY NumidKept
<1>4. QED
  BY <1>1, <1>2, <1>3, Invariant, PTL DEF Spec

(* NumidsBounded: the same where all versions add as many.                   *)
THEOREM NumidsAreBounded ==
  ASSUME OwnNames,
         \A v, w \in Versions : Cardinality(Autos(v)) = Cardinality(Autos(w))
  PROVE  Spec => []NumidsBounded
<1>1. CASE Versions = {}
  <2>1. ~Init
    BY <1>1 DEF Init
  <2>2. QED
    BY <2>1, PTL DEF Spec
<1>2. ASSUME NEW u \in Versions PROVE Spec => []NumidsBounded
  <2> DEFINE A == Cardinality(Autos(u))
  <2>1. A \in Nat /\ \A v \in Versions : Cardinality(Autos(v)) = A
    BY AutosCounted
  <2> HIDE DEF A
  <2>2. A \in Nat /\ \A v \in Versions : Cardinality(Autos(v)) <= A
    BY <2>1
  <2>3. Init => NumidInv(A)
    BY <2>2, NumidInit
  <2>4. IInv /\ NumidInv(A) /\ [Next]_vars => NumidInv(A)'
    BY <2>2, NumidNext
  <2>5. IInv /\ NumidInv(A) => NumidsBounded
    <3> SUFFICES ASSUME IInv, NumidInv(A) PROVE NumidsBounded
      OBVIOUS
    <3>1. lastNumid <= Cardinality(OfHardware) + (1 + upgrades) * A
      BY <2>1, NumidKept
    <3>2. Cardinality(Autos(version)) = A
      BY <2>1 DEF IInv, HalTyped
    <3>3. QED
      BY <3>1, <3>2 DEF NumidsBounded, OfHardware, Autos, halCtls
  <2>6. QED
    BY <2>3, <2>4, <2>5, Invariant, PTL DEF Spec
<1>3. QED
  BY <1>1, <1>2
=============================================================================
