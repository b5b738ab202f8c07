-------------------------- MODULE ServerCallsProofs --------------------------
(***************************************************************************)
(* What holds of the guest type cache for any guests, lookups, TTL and     *)
(* latency; ServerCalls implements it and ToolCalls, so that what is       *)
(* proved of them holds of it; and what "done" says of a command.          *)
(***************************************************************************)
EXTENDS ServerCalls, ToolCallsProofs

-----------------------------------------------------------------------------
(* The guest type cache. *)

\* An entry that is wrong and still good is no older than what made it wrong.
CacheInv ==
    \A g \in Guest : cache[g].type \in Kind \ {kind[g]} =>
        cache[g].age = Ttl \/ since[g] <= cache[g].age + Latency

\* So is a list that is under way.
ListInv ==
    \A x \in Looker : look[x].step = "read" =>
        \A g \in Guest : look[x].list[g] \in Kind \ {kind[g]} => since[g] <= look[x].wait

TypesInv == TypesOK /\ CacheInv /\ ListInv

LEMMA TypesInvInit == TypesInit => TypesInv
  BY TypesAssumption
  DEF TypesInit, TypesInv, TypesOK, CacheInv, ListInv, NotCached, CacheEntry, Look, Idle, Old, Kind

\* What a lookup is at each of its steps.
LEMMA LookCases ==
    ASSUME NEW r \in Look
    PROVE  /\ r.step = "asked" => r.guest \in Guest /\ r.wait \in 0..Latency
           /\ r.step = "read" => r.guest \in Guest /\ r.wait \in 0..Latency /\ r.list \in Listing
           /\ r.step \in {"idle", "asked", "read", "found"}
  BY DEF Look, Idle

\* A step that decides x's type leaves everything else of the lookups alone.
LEMMA FoundKeeps ==
    ASSUME TypesInv, NEW x \in Looker, NEW g \in Guest, NEW type \in Kind,
           NEW by \in {"cache", "list", "hint"}, Found(x, g, type, by), UNCHANGED <<kind, since>>
    PROVE  look' \in [Looker -> Look] /\ ListInv'
<1> DEFINE new == [step |-> "found", guest |-> g, type |-> type, by |-> by]
<1>1. new \in Look
  BY DEF Look
<1>2. look' = [look EXCEPT ![x] = new]
  BY DEF Found
<1>3. look \in [Looker -> Look]
  BY DEF TypesInv, TypesOK
<1>4. look' \in [Looker -> Look]
  <2> HIDE DEF new
  <2> QED BY <1>1, <1>2, <1>3
<1>5. \A y \in Looker : look'[y].step = "read" => look'[y] = look[y]
  BY <1>2, <1>3
<1>6. ListInv'
  BY <1>5 DEF TypesInv, ListInv
<1> QED BY <1>4, <1>6

LEMMA HitStep ==
    ASSUME TypesInv, NEW x \in Looker, NEW g \in Guest, CacheHit(x, g)
    PROVE  TypesInv'
<1>1. cache[g] \in CacheEntry
  BY DEF TypesInv, TypesOK
<1>2. cache[g].type \in Kind
  BY <1>1 DEF CacheHit, Fresh, CacheEntry, NotCached
<1>3. look' \in [Looker -> Look] /\ ListInv'
  BY <1>2, FoundKeeps DEF CacheHit
<1> QED BY <1>3 DEF TypesInv, TypesOK, CacheInv, CacheHit

LEMMA AskStep ==
    ASSUME TypesInv, NEW x \in Looker, NEW g \in Guest, Ask(x, g)
    PROVE  TypesInv'
<1> DEFINE new == [step |-> "asked", guest |-> g, wait |-> 0]
<1>1. new \in Look
  BY TypesAssumption DEF Look
<1>2. look' = [look EXCEPT ![x] = new]
  BY DEF Ask
<1>3. look \in [Looker -> Look]
  BY DEF TypesInv, TypesOK
<1>4. look' \in [Looker -> Look]
  <2> HIDE DEF new
  <2> QED BY <1>1, <1>2, <1>3
<1>5. \A y \in Looker : look'[y].step = "read" => look'[y] = look[y]
  BY <1>2, <1>3
<1>6. ListInv'
  BY <1>5 DEF TypesInv, ListInv, Ask
<1> QED BY <1>4, <1>6 DEF TypesInv, TypesOK, CacheInv, Ask

LEMMA ListStep ==
    ASSUME TypesInv, NEW x \in Looker, NEW present, PveLists(x, present)
    PROVE  TypesInv'
<1> DEFINE list == [g \in Guest |-> IF g \in present THEN kind[g] ELSE "none"]
           new == [step |-> "read", guest |-> look[x].guest, wait |-> look[x].wait, list |-> list]
<1>1. look \in [Looker -> Look]
  BY DEF TypesInv, TypesOK
<1>2. look[x].guest \in Guest /\ look[x].wait \in 0..Latency
  BY <1>1, LookCases DEF PveLists
<1>3. list \in Listing
  BY DEF Listing, TypesInv, TypesOK
<1>4. new \in Look
  <2> HIDE DEF list
  <2> QED BY <1>2, <1>3 DEF Look
<1>5. look' = [look EXCEPT ![x] = new]
  BY DEF PveLists
<1>6. look' \in [Looker -> Look]
  <2> HIDE DEF new
  <2> QED BY <1>1, <1>4, <1>5
<1>7. \A y \in Looker : y # x => look'[y] = look[y]
  BY <1>1, <1>5
<1>8. look'[x].list = list
  BY <1>1, <1>5
<1>9. \A g \in Guest : list[g] \notin Kind \ {kind[g]}
  BY DEF Kind
<1>10. ListInv'
  <2> SUFFICES ASSUME NEW y \in Looker, look'[y].step = "read", NEW g \in Guest,
                      look'[y].list[g] \in Kind \ {kind'[g]}
               PROVE  since'[g] <= look'[y].wait
    BY DEF ListInv
  <2>1. y # x
    <3> HIDE DEF list
    <3> QED BY <1>8, <1>9 DEF PveLists
  <2> QED BY <2>1, <1>7 DEF TypesInv, ListInv, PveLists
<1> QED BY <1>6, <1>10 DEF TypesInv, TypesOK, CacheInv, PveLists

LEMMA ReceiveStep ==
    ASSUME TypesInv, NEW x \in Looker, Receive(x)
    PROVE  TypesInv'
<1> DEFINE list == look[x].list
<1>1. look[x] \in Look /\ look[x].step = "read"
  BY DEF TypesInv, TypesOK, Receive
<1>2. look[x].guest \in Guest /\ look[x].wait \in 0..Latency /\ list \in Listing
  BY <1>1, LookCases
<1>3. cache' = [h \in Guest |-> IF list[h] = "none" THEN cache[h]
                                ELSE [type |-> list[h], age |-> 0]]
  BY DEF Receive
<1>4. \A h \in Guest : list[h] \in Kind \cup {"none"}
  BY <1>2 DEF Listing
<1>5. look' \in [Looker -> Look] /\ ListInv'
  <2>1. CASE list[look[x].guest] # "none" /\ Found(x, look[x].guest, list[look[x].guest], "list")
    <3>1. list[look[x].guest] \in Kind
      BY <2>1, <1>2, <1>4
    <3> HIDE DEF list
    <3> QED BY <2>1, <3>1, <1>2, FoundKeeps DEF Receive
  <2>2. CASE \E hint \in Kind : Found(x, look[x].guest, hint, "hint")
    BY <2>2, <1>2, FoundKeeps DEF Receive
  <2> QED BY <2>1, <2>2 DEF Receive
<1>6. \A h \in Guest : cache[h] \in CacheEntry
  BY DEF TypesInv, TypesOK
<1>7. \A h \in Guest : list[h] # "none" => [type |-> list[h], age |-> 0] \in CacheEntry
  BY <1>4, TypesAssumption DEF CacheEntry
<1>8. cache' \in [Guest -> CacheEntry]
  <2> HIDE DEF list
  <2> QED BY <1>3, <1>6, <1>7
<1>9. CacheInv'
  <2> SUFFICES ASSUME NEW h \in Guest, cache'[h].type \in Kind \ {kind[h]}
               PROVE  cache'[h].age = Ttl \/ since[h] <= cache'[h].age + Latency
    BY DEF CacheInv, Receive
  <2>1. CASE list[h] = "none"
    <3>1. cache'[h] = cache[h]
      BY <2>1, <1>3
    <3> QED BY <3>1 DEF TypesInv, CacheInv
  <2>2. CASE list[h] # "none"
    <3>1. cache'[h] = [type |-> list[h], age |-> 0]
      BY <2>2, <1>3
    <3>2. list[h] \in Kind \ {kind[h]} /\ cache'[h].age = 0
      BY <3>1
    <3>3. since[h] <= look[x].wait
      BY <3>2, <1>1 DEF TypesInv, ListInv
    <3>4. since[h] \in Nat
      BY TypesAssumption DEF TypesInv, TypesOK, Old
    <3> QED BY <3>2, <3>3, <3>4, <1>2, TypesAssumption
  <2> QED BY <2>1, <2>2
<1> QED BY <1>5, <1>8, <1>9 DEF TypesInv, TypesOK, Receive

LEMMA FailStep ==
    ASSUME TypesInv, NEW x \in Looker, LookupFails(x)
    PROVE  TypesInv'
<1>1. look[x].guest \in Guest
  BY LookCases DEF TypesInv, TypesOK, LookupFails
<1>2. look' \in [Looker -> Look] /\ ListInv'
  BY <1>1, FoundKeeps DEF LookupFails
<1> QED BY <1>2 DEF TypesInv, TypesOK, CacheInv, LookupFails

LEMMA ReturnStep ==
    ASSUME TypesInv, NEW x \in Looker, Return(x)
    PROVE  TypesInv'
<1>1. look' = [look EXCEPT ![x] = Idle] /\ look \in [Looker -> Look] /\ Idle \in Look
  BY DEF Return, TypesInv, TypesOK, Look
<1>2. \A y \in Looker : look'[y].step = "read" => look'[y] = look[y]
  BY <1>1 DEF Idle
<1>3. look' \in [Looker -> Look]
  BY <1>1
<1>4. ListInv'
  BY <1>2 DEF TypesInv, ListInv, Return
<1> QED BY <1>3, <1>4 DEF TypesInv, TypesOK, CacheInv, Return

LEMMA TickStep ==
    ASSUME TypesInv, Tick
    PROVE  TypesInv'
<1>1. since' \in [Guest -> 0..Old]
  BY TypesAssumption DEF Tick, TypesInv, TypesOK, Old
<1>2. ASSUME NEW g \in Guest
      PROVE  cache'[g] \in CacheEntry /\ cache'[g].type = cache[g].type
  <2>1. cache[g] \in CacheEntry
    BY DEF TypesInv, TypesOK
  <2>2. CASE cache[g].type # "none" /\ cache[g].age < Ttl
    <3>1. cache'[g] = [cache[g] EXCEPT !.age = cache[g].age + 1]
      BY <2>2 DEF Tick
    <3>2. cache[g].type \in Kind /\ cache[g].age \in 0..Ttl
      BY <2>1, <2>2 DEF CacheEntry, NotCached
    <3>3. cache[g] \in [type : Kind, age : 0..Ttl]
      BY <2>1, <2>2 DEF CacheEntry, NotCached
    <3>4. cache[g].age + 1 \in 0..Ttl
      BY <3>2, <2>2, TypesAssumption
    <3> QED BY <3>1, <3>3, <3>4 DEF CacheEntry
  <2>3. CASE ~(cache[g].type # "none" /\ cache[g].age < Ttl)
    BY <2>1, <2>3 DEF Tick
  <2> QED BY <2>2, <2>3
<1>3. cache' \in [Guest -> CacheEntry]
  BY <1>2 DEF Tick
<1>4. ASSUME NEW x \in Looker
      PROVE  /\ look'[x] \in Look /\ look'[x].step = look[x].step
             /\ look[x].step = "read" => /\ look'[x].list = look[x].list
                                         /\ look'[x].wait = look[x].wait + 1
  <2>1. look[x] \in Look
    BY DEF TypesInv, TypesOK
  <2>2. CASE look[x].step \in {"asked", "read"}
    <3>1. look'[x] = [look[x] EXCEPT !.wait = look[x].wait + 1]
      BY <2>2 DEF Tick
    <3>2. look[x].wait \in 0..Latency /\ look[x].wait < Latency
      BY <2>1, <2>2, LookCases DEF Tick
    <3>3. look[x].wait + 1 \in 0..Latency
      BY <3>2, TypesAssumption
    <3>4. CASE look[x].step = "asked"
      <4>1. look[x] \in [step : {"asked"}, guest : Guest, wait : 0..Latency]
        BY <2>1, <3>4 DEF Look, Idle
      <4> QED BY <4>1, <3>1, <3>3, <3>4 DEF Look
    <3>5. CASE look[x].step = "read"
      <4>1. look[x] \in [step : {"read"}, guest : Guest, wait : 0..Latency, list : Listing]
        BY <2>1, <3>5 DEF Look, Idle
      <4> QED BY <4>1, <3>1, <3>3, <3>5 DEF Look
    <3> QED BY <2>2, <3>4, <3>5
  <2>3. CASE look[x].step \notin {"asked", "read"}
    BY <2>1, <2>3 DEF Tick
  <2> QED BY <2>2, <2>3
<1>5. look' \in [Looker -> Look]
  BY <1>4 DEF Tick
<1>6. ASSUME NEW g \in Guest
      PROVE  /\ since[g] \in Nat /\ since'[g] \in Nat /\ since'[g] <= since[g] + 1
  BY TypesAssumption DEF Tick, TypesInv, TypesOK, Old
<1>7. CacheInv'
  <2> SUFFICES ASSUME NEW g \in Guest, cache'[g].type \in Kind \ {kind[g]}, cache'[g].age # Ttl
               PROVE  since'[g] <= cache'[g].age + Latency
    BY DEF CacheInv, Tick
  <2>1. cache[g].type \in Kind \ {kind[g]} /\ cache[g].type # "none" /\ cache[g] \in CacheEntry
    BY <1>2 DEF Kind, TypesInv, TypesOK
  <2>2. cache[g].age \in 0..Ttl
    BY <2>1 DEF CacheEntry, NotCached
  <2>3. CASE cache[g].age < Ttl
    <3>1. cache'[g].age = cache[g].age + 1
      <4>1. cache'[g] = [cache[g] EXCEPT !.age = cache[g].age + 1]
        BY <2>1, <2>3 DEF Tick
      <4>2. cache[g] \in [type : Kind, age : 0..Ttl]
        BY <2>1 DEF CacheEntry, NotCached
      <4> QED BY <4>1, <4>2
    <3>2. since[g] <= cache[g].age + Latency
      BY <2>1, <2>2, <2>3, TypesAssumption DEF TypesInv, CacheInv
    <3> QED BY <3>1, <3>2, <2>2, <1>6, TypesAssumption
  <2>4. CASE cache[g].age = Ttl
    BY <2>4, TypesAssumption DEF Tick
  <2> QED BY <2>2, <2>3, <2>4, TypesAssumption
<1>8. ListInv'
  <2> SUFFICES ASSUME NEW x \in Looker, look'[x].step = "read", NEW g \in Guest,
                      look'[x].list[g] \in Kind \ {kind[g]}
               PROVE  since'[g] <= look'[x].wait
    BY DEF ListInv, Tick
  <2>1. look[x].step = "read" /\ look'[x].list = look[x].list /\ look'[x].wait = look[x].wait + 1
    BY <1>4
  <2>2. since[g] <= look[x].wait
    BY <2>1 DEF TypesInv, ListInv
  <2>3. look[x].wait \in Nat
    BY <2>1, LookCases, TypesAssumption DEF TypesInv, TypesOK
  <2> QED BY <2>1, <2>2, <2>3, <1>6
<1> QED BY <1>1, <1>3, <1>5, <1>7, <1>8 DEF TypesInv, TypesOK, Tick

LEMMA RemadeStep ==
    ASSUME TypesInv, NEW g \in Guest, Remade(g)
    PROVE  TypesInv'
<1> DEFINE other == CHOOSE k \in Kind : k # kind[g]
<1>1. other \in Kind
  BY DEF Kind
<1>2. kind' = [kind EXCEPT ![g] = other] /\ since' = [since EXCEPT ![g] = 0]
  BY DEF Remade
<1>3. kind' \in [Guest -> Kind] /\ since' \in [Guest -> 0..Old]
  <2> HIDE DEF other
  <2> QED BY <1>1, <1>2, TypesAssumption DEF TypesInv, TypesOK, Old
<1>4. ASSUME NEW h \in Guest
      PROVE  since'[h] = 0 \/ (since'[h] = since[h] /\ kind'[h] = kind[h])
  <2> HIDE DEF other
  <2> QED BY <1>2 DEF TypesInv, TypesOK
<1>5. CacheInv'
  <2> SUFFICES ASSUME NEW h \in Guest, cache[h].type \in Kind \ {kind'[h]}
               PROVE  cache[h].age = Ttl \/ since'[h] <= cache[h].age + Latency
    BY DEF CacheInv, Remade
  <2>1. cache[h].age \in Nat
    BY TypesAssumption DEF TypesInv, TypesOK, CacheEntry, NotCached
  <2> QED BY <1>4, <2>1, TypesAssumption DEF TypesInv, CacheInv
<1>6. ListInv'
  <2> SUFFICES ASSUME NEW x \in Looker, look[x].step = "read", NEW h \in Guest,
                      look[x].list[h] \in Kind \ {kind'[h]}
               PROVE  since'[h] <= look[x].wait
    BY DEF ListInv, Remade
  <2>1. look[x].wait \in Nat
    BY LookCases, TypesAssumption DEF TypesInv, TypesOK
  <2> QED BY <1>4, <2>1 DEF TypesInv, ListInv
<1> QED BY <1>3, <1>5, <1>6 DEF TypesInv, TypesOK, Remade

LEMMA TypesInvStep == TypesInv /\ [TypesNext]_typeVars => TypesInv'
<1> SUFFICES ASSUME TypesInv, [TypesNext]_typeVars
             PROVE  TypesInv'
  OBVIOUS
<1>1. ASSUME NEW x \in Looker, NEW g \in Guest, NEW present \in SUBSET Guest, Lookup(x, g, present)
      PROVE  TypesInv'
  BY <1>1, HitStep, AskStep, ListStep, ReceiveStep, FailStep DEF Lookup
<1>2. ASSUME NEW x \in Looker, Return(x)
      PROVE  TypesInv'
  BY <1>2, ReturnStep
<1>3. CASE UNCHANGED typeVars
  BY <1>3 DEF typeVars, TypesInv, TypesOK, CacheInv, ListInv
<1> QED BY <1>1, <1>2, <1>3, TickStep, RemadeStep DEF TypesNext

\* What a step that ends a lookup decides, in a state of the invariant.
LEMMA DecidesRight ==
    ASSUME TypesInv, [TypesNext]_typeVars, NEW x \in Looker,
           look'[x].step = "found", look[x].step # "found", look'[x].by # "hint"
    PROVE  LET g == look'[x].guest
           IN  look'[x].type = kind[g] \/ since[g] < Ttl + Latency
<1> USE DEF TypesInv
<1>1. look \in [Looker -> Look]
  BY DEF TypesOK
<1>2. ASSUME NEW y \in Looker, NEW g \in Guest, NEW type, NEW by, Found(y, g, type, by)
      PROVE  y = x /\ look'[x].guest = g /\ look'[x].type = type /\ look'[x].by = by
  BY <1>1, <1>2 DEF Found
<1>3. ASSUME NEW y \in Looker, NEW g \in Guest, CacheHit(y, g)
      PROVE  look'[x].guest = g /\ (look'[x].type = kind[g] \/ since[g] < Ttl + Latency)
  <2>1. look'[x].guest = g /\ look'[x].type = cache[g].type
    BY <1>2, <1>3 DEF CacheHit
  <2>2. cache[g] \in CacheEntry /\ cache[g].type # "none" /\ cache[g].age < Ttl
    BY <1>3 DEF TypesOK, CacheHit, Fresh
  <2>3. cache[g].type \in Kind /\ cache[g].age \in Nat /\ cache[g].age # Ttl
    BY <2>2, TypesAssumption DEF CacheEntry, NotCached
  <2>4. since[g] \in Nat
    BY TypesAssumption DEF TypesOK, Old
  <2>5. cache[g].type # kind[g] => since[g] <= cache[g].age + Latency
    BY <2>3 DEF CacheInv
  <2> QED BY <2>1, <2>2, <2>3, <2>4, <2>5, TypesAssumption
<1>4. ASSUME NEW y \in Looker, Receive(y)
      PROVE  LET g == look'[x].guest
             IN  look'[x].type = kind[g] \/ since[g] < Ttl + Latency
  <2>1. look[y].step = "read" /\ look[y].guest \in Guest /\ look[y].wait \in 0..Latency /\ look[y].list \in Listing
    BY <1>1, <1>4, LookCases DEF Receive
  <2> DEFINE g == look[y].guest
  <2>2. ~\E hint \in Kind : Found(y, g, hint, "hint")
    BY <1>2, <2>1
  <2>3. look[y].list[g] # "none" /\ Found(y, g, look[y].list[g], "list")
    BY <1>4, <2>2 DEF Receive
  <2>4. look'[x].guest = g /\ look'[x].type = look[y].list[g]
    BY <1>2, <2>1, <2>3
  <2>5. look[y].list[g] \in Kind
    BY <2>1, <2>3 DEF Listing
  <2>6. look[y].list[g] # kind[g] => since[g] <= look[y].wait
    BY <2>1, <2>5 DEF ListInv
  <2>7. since[g] \in Nat
    BY <2>1, TypesAssumption DEF TypesOK, Old
  <2> HIDE DEF g
  <2> QED BY <2>1, <2>4, <2>6, <2>7, TypesAssumption
<1>5. ASSUME NEW y \in Looker, LookupFails(y)
      PROVE  FALSE
  <2>1. look[y].guest \in Guest
    BY <1>1, <1>5, LookCases DEF LookupFails
  <2> QED BY <1>2, <1>5, <2>1 DEF LookupFails
<1>6. ASSUME NEW y \in Looker, NEW g \in Guest, Ask(y, g)
      PROVE  FALSE
  BY <1>1, <1>6 DEF Ask
<1>7. ASSUME NEW y \in Looker, NEW present, PveLists(y, present)
      PROVE  FALSE
  BY <1>1, <1>7 DEF PveLists
<1>8. ASSUME NEW y \in Looker, Return(y)
      PROVE  FALSE
  BY <1>1, <1>8 DEF Return, Idle
<1>9. ~Tick
  <2> SUFFICES ASSUME Tick PROVE FALSE
    OBVIOUS
  <2>1. look'[x] = IF look[x].step \in {"asked", "read"} THEN [look[x] EXCEPT !.wait = @ + 1] ELSE look[x]
    BY DEF Tick
  <2>2. CASE look[x].step = "asked"
    <3>1. look[x] \in [step : {"asked"}, guest : Guest, wait : 0..Latency]
      BY <1>1, <2>2 DEF Look, Idle
    <3> QED BY <2>1, <2>2, <3>1
  <2>3. CASE look[x].step = "read"
    <3>1. look[x] \in [step : {"read"}, guest : Guest, wait : 0..Latency, list : Listing]
      BY <1>1, <2>3 DEF Look, Idle
    <3> QED BY <2>1, <2>3, <3>1
  <2> QED BY <2>1, <2>2, <2>3
<1>10. ASSUME NEW g \in Guest, Remade(g)
       PROVE  FALSE
  BY <1>10 DEF Remade
<1>11. ~UNCHANGED typeVars
  BY DEF typeVars
<1>12. ASSUME NEW y \in Looker, NEW g \in Guest, NEW present \in SUBSET Guest, Lookup(y, g, present)
       PROVE  LET h == look'[x].guest
              IN  look'[x].type = kind[h] \/ since[h] < Ttl + Latency
  BY <1>3, <1>4, <1>5, <1>6, <1>7, <1>12 DEF Lookup
<1> QED BY <1>8, <1>9, <1>10, <1>11, <1>12 DEF TypesNext

\* The cache, the lookups and the guests keep their types (_VM_TYPE_CACHE).
THEOREM TypesCorrect == TypesSpec => []TypesOK
<1>1. TypesInv => TypesOK
  BY DEF TypesInv
<1> QED BY <1>1, TypesInvInit, TypesInvStep, PTL DEF TypesSpec

\* However many calls share the cache, and in whatever order their lists arrive,
\* _resolve_vm_type is wrong only about a guest younger than the TTL and a lookup.
THEOREM WrongTypesAreYoung == TypesSpec => WrongTypeIsYoung
<1>1. TypesInv /\ [TypesNext]_typeVars =>
        \A x \in Looker :
          look'[x].step = "found" /\ look[x].step # "found" /\ look'[x].by # "hint" =>
            LET g == look'[x].guest
            IN  look'[x].type = kind[g] \/ since[g] < Ttl + Latency
  BY DecidesRight
<1>2. TypesInv /\ [TypesNext]_typeVars =>
        [\A x \in Looker :
          look'[x].step = "found" /\ look[x].step # "found" /\ look'[x].by # "hint" =>
            LET g == look'[x].guest
            IN  look'[x].type = kind[g] \/ since[g] < Ttl + Latency]_typeVars
  BY <1>1
<1> QED BY <1>2, TypesInvInit, TypesInvStep, PTL DEF TypesSpec, WrongTypeIsYoung

-----------------------------------------------------------------------------
(* Every step is a step of the parts. *)

LEMMA ToolCallsStep == [ServerNext]_serverVars => [Next]_vars
<1> SUFFICES ASSUME [ServerNext]_serverVars
             PROVE  [Next]_vars
  OBVIOUS
<1>1. ASSUME NEW c \in Call, Prepare(c) PROVE Next
  BY <1>1 DEF Prepare, Next, Step
<1>2. ASSUME NEW c \in Call, Send(c) PROVE Next
  BY <1>2 DEF Send, Next, Step
<1>3. ASSUME NEW c \in Call, StartCommand(c) \/ NotStarted(c) \/ Finish(c) PROVE Next
  BY <1>3 DEF StartCommand, NotStarted, Finish, Next, Step
<1>4. ASSUME NEW c \in Call, PollRound(c) \/ PollLost(c) PROVE Next
  BY <1>4 DEF PollRound, PollLost, Next, Step
<1>5. ASSUME NEW c \in Call, ApiTaskEnds(c) \/ SshTaskEnds(c) PROVE Next
  BY <1>5 DEF ApiTaskEnds, SshTaskEnds, Next
<1>6. ASSUME NEW t \in Thing, Others(t) PROVE Next
  BY <1>6 DEF Others, Next
<1>7. ASSUME NEW c \in Call, ResolveType(c) \/ LoseLink(c) PROVE UNCHANGED vars
  BY <1>7 DEF ResolveType, LoseLink
<1>8. ASSUME NEW r \in Reader, ReadStatus(r) PROVE UNCHANGED vars
  BY <1>8 DEF ReadStatus
<1>9. TimePasses => UNCHANGED vars
  BY DEF TimePasses
<1>10. UNCHANGED serverVars => UNCHANGED vars
  BY DEF serverVars
<1> QED BY <1>1, <1>2, <1>3, <1>4, <1>5, <1>6, <1>7, <1>8, <1>9, <1>10 DEF ServerNext

LEMMA GuestTypesStep == TypeOK /\ [ServerNext]_serverVars => [TypesNext]_typeVars
<1> SUFFICES ASSUME TypeOK, [ServerNext]_serverVars
             PROVE  [TypesNext]_typeVars
  OBVIOUS
<1> USE PartsAssumption
<1>1. Present \in SUBSET Guest
  BY DEF Present
<1>2. ASSUME NEW x \in Looker, NEW g \in Guest, Lookup(x, g, Present) PROVE TypesNext
  BY <1>1, <1>2 DEF TypesNext
<1>3. ASSUME NEW t \in Thing, Types(t) PROVE [TypesNext]_typeVars
  BY <1>3 DEF Types, TypesNext
<1>4. ASSUME NEW c \in Call PROVE thing[c] \in Thing
  BY DEF TypeOK
<1>5. ASSUME NEW c \in Call, ResolveType(c) PROVE TypesNext
  BY <1>2, <1>4, <1>5 DEF ResolveType
<1>6. ASSUME NEW r \in Reader, ReadStatus(r) PROVE TypesNext
  BY <1>2, <1>6 DEF ReadStatus, TypesNext
<1>7. TimePasses => TypesNext
  BY DEF TimePasses, TypesNext
<1>8. ASSUME NEW c \in Call, ApiTaskEnds(c) PROVE [TypesNext]_typeVars
  BY <1>3, <1>4, <1>8 DEF ApiTaskEnds
<1>9. ASSUME NEW t \in Thing, Others(t) PROVE [TypesNext]_typeVars
  BY <1>3, <1>9 DEF Others
<1>10. ASSUME NEW c \in Call,
              Prepare(c) \/ Send(c) \/ StartCommand(c) \/ NotStarted(c) \/ LoseLink(c)
                \/ Finish(c) \/ PollRound(c) \/ PollLost(c) \/ SshTaskEnds(c)
       PROVE  UNCHANGED typeVars
  BY <1>10 DEF Prepare, Send, StartCommand, NotStarted, LoseLink, Finish, PollRound, PollLost,
               SshTaskEnds
<1>11. UNCHANGED serverVars => UNCHANGED typeVars
  BY DEF serverVars
<1> QED BY <1>5, <1>6, <1>7, <1>8, <1>9, <1>10, <1>11 DEF ServerNext

\* With the resolver and the commands in detail, the server still does what
\* ToolCalls says, and so keeps every property proved of it.
THEOREM ImplementsToolCalls == ServerSpec => Spec
<1>1. ServerInit => Init
  BY DEF ServerInit
<1> QED BY <1>1, ToolCallsStep, PTL DEF ServerSpec, Spec

\* The power and status calls use the cache as GuestTypes says.
THEOREM ImplementsGuestTypes == ServerSpec => TypesSpec
<1>1. ServerInit => TypesInit
  BY DEF ServerInit
<1>2. ServerSpec => []TypeOK
  BY ImplementsToolCalls, TypeCorrect, PTL
<1> QED BY <1>1, <1>2, GuestTypesStep, PTL DEF ServerSpec, TypesSpec

\* Consent, true answers and single work, of the server with its parts.
THEOREM ServerKeepsGates == ServerSpec => [](NothingWithoutConsent /\ AnswerTrue) /\ WorkOnce
  BY ImplementsToolCalls, ConsentBeforeWork, AnswersTrue, StartsWorkOnce, PTL

\* And a power action's type is wrong for a young guest only.
THEOREM PowerIsRouted == ServerSpec => WrongTypeIsYoung
  BY ImplementsGuestTypes, WrongTypesAreYoung, PTL

-----------------------------------------------------------------------------
(* What "done" says. *)

\* A pipe's status is 0 if and only if every program's is.
LEMMA StatusIsAll ==
    ASSUME NEW n \in 1..2, NEW e \in [1..n -> {0, 1}]
    PROVE  Status(e) = 0 <=> \A i \in 1..n : e[i] = 0
<1> DEFINE failed == {i \in DOMAIN e : e[i] # 0}
           last == CHOOSE i \in failed : \A j \in failed : j <= i
<1>1. CASE failed = {}
  BY <1>1 DEF Status
<1>2. CASE failed # {}
  <2>1. \E i \in failed : \A j \in failed : j <= i
    <3>1. CASE 2 \in failed
      BY <3>1
    <3>2. CASE 2 \notin failed
      BY <1>2, <3>2
    <3> QED BY <3>1, <3>2
  <2>2. last \in failed
    BY <2>1
  <2>3. Status(e) = e[last]
    BY <1>2 DEF Status
  <2>4. e[last] # 0
    <3> HIDE DEF last
    <3> QED BY <2>2
  <2> QED BY <1>2, <2>3, <2>4
<1> QED BY <1>1, <1>2

LEMMA OneOrTwoPrograms ==
    ASSUME NEW a
    PROVE  \E n \in 1..2 : DOMAIN Programs(a) = 1..n
<1>1. CASE a.tool = "zfs_send"
  BY <1>1 DEF Programs
<1>2. CASE a.tool = "disk_prepare"
  BY <1>2 DEF Programs
<1>3. CASE a.tool \notin {"zfs_send", "disk_prepare"}
  BY <1>3 DEF Programs
<1> QED BY <1>1, <1>2, <1>3

\* What is known of a call's programs once they have ended.
ExitsTrue ==
    \A c \in Call : exits[c] # <<>> =>
        /\ way[c] = "ssh" /\ task[c] \in {"ok", "failed"}
        /\ Status(exits[c]) = 0 <=> task[c] = "ok"

CommandTypes == DOMAIN exits = Call /\ link \in [Call -> {"none", "up", "lost"}]

ServerInv == IInv /\ CommandTypes /\ ExitsTrue /\ DoneIsDone

LEMMA ServerInvInit == ServerInit => ServerInv
  BY IInvInit, PartsAssumption
  DEF ServerInit, Init, CommandsInit, ServerInv, CommandTypes, ExitsTrue, DoneIsDone

\* A step of ToolCalls alone that starts no task from an ended one, and gives no
\* "done".
LEMMA QuietStep ==
    ASSUME ServerInv, UNCHANGED commandVars,
           \A c \in Call : /\ task'[c] = task[c] \/ (task[c] \in {"none", "running"} /\ exits[c] = <<>>)
                           /\ way'[c] = way[c] \/ exits[c] = <<>>
                           /\ reply'[c] = reply[c] \/ reply'[c] # "done"
    PROVE  CommandTypes' /\ ExitsTrue' /\ DoneIsDone'
  BY DEF ServerInv, CommandTypes, ExitsTrue, DoneIsDone, commandVars

\* Before its work a call has run no program.
LEMMA NoExitsBefore ==
    ASSUME ServerInv, NEW c \in Call, task[c] \notin {"ok", "failed"}
    PROVE  exits[c] = <<>>
  BY DEF ServerInv, ExitsTrue

LEMMA ServerInvStep == ServerInv /\ [ServerNext]_serverVars => ServerInv'
<1> SUFFICES ASSUME ServerInv, [ServerNext]_serverVars
             PROVE  ServerInv'
  OBVIOUS
<1>a. IInv'
  BY ToolCallsStep, IInvStep DEF ServerInv
<1>b. TypeOK /\ PlaceInv
  BY DEF ServerInv, IInv
<1> DEFINE Goal == CommandTypes' /\ ExitsTrue' /\ DoneIsDone'
<1>1. ASSUME NEW c \in Call, Prepare(c) PROVE Goal
  <2>1. UNCHANGED commandVars /\ UNCHANGED <<task, way>>
    BY <1>1 DEF Prepare, Invoke, OperatorAnswers, Body
  <2>2. CASE Invoke(c) \/ OperatorAnswers(c)
    <3>1. reply' = reply
      BY <2>2 DEF Invoke, OperatorAnswers, GoTo
    <3> QED BY <2>1, <3>1, QuietStep
  <2>3. CASE Body(c)
    <3>1. PICK k \in Learned(c) :
            IF Gate(args[c], k) = "go"
            THEN GoTo(c, IF args[c].via = "ssh" THEN "ssh" ELSE "send")
            ELSE Answer(c, Gate(args[c], k))
      BY <2>3 DEF Body
    <3>2. Gate(args[c], k) \in Stopped \cup {"go"}
      BY <2>3, GatePasses DEF Body, ServerInv, IInv, Invoked
    <3>3. \A d \in Call : reply'[d] = reply[d] \/ reply'[d] # "done"
      BY <3>1, <3>2, <1>b DEF GoTo, Answer, TypeOK, Stopped
    <3> QED BY <2>1, <3>3, QuietStep
  <2> QED BY <1>1, <2>2, <2>3 DEF Prepare
<1>2. ASSUME NEW c \in Call, Send(c) PROVE Goal
  <2>1. UNCHANGED commandVars
    BY <1>2 DEF Send
  <2>2. phase[c] = "send" /\ task[c] = "none"
    BY <1>2, <1>b DEF Send, Accepted, AnswerLost, Refused, TokenRejected, PlaceInv
  <2>3. exits[c] = <<>>
    BY <2>2, NoExitsBefore
  <2>4. \A d \in Call : d # c => task'[d] = task[d] /\ way'[d] = way[d]
    BY <1>2, <1>b DEF Send, Accepted, AnswerLost, Refused, TokenRejected, Starts, TypeOK
  <2>5. \A d \in Call : reply'[d] = reply[d] \/ reply'[d] # "done"
    BY <1>2, <1>b DEF Send, Accepted, AnswerLost, Refused, TokenRejected, GoTo, Answer, TypeOK
  <2> QED BY <2>1, <2>2, <2>3, <2>4, <2>5, QuietStep
<1>3. ASSUME NEW c \in Call, NotStarted(c) \/ PollRound(c) \/ PollLost(c) PROVE Goal
  <2>1. UNCHANGED commandVars /\ UNCHANGED <<task, way>>
    BY <1>3 DEF NotStarted, PollRound, PollLost, ConnectFails, Poll, PollFails
  <2>2. \A d \in Call : reply'[d] = reply[d] \/ reply'[d] # "done"
    BY <1>3, <1>b DEF NotStarted, PollRound, PollLost, ConnectFails, Poll, PollFails, Answer, TypeOK
  <2> QED BY <2>1, <2>2, QuietStep
<1>4. ASSUME NEW c \in Call, StartCommand(c) PROVE Goal
  <2>1. phase[c] = "ssh" /\ task[c] = "none" /\ reply[c] = "none"
    BY <1>4, <1>b DEF StartCommand, RunCommand, PlaceInv
  <2>2. exits[c] = <<>>
    BY <2>1, NoExitsBefore
  <2>3. exits' = exits /\ reply' = reply /\ link' = [link EXCEPT ![c] = "up"]
    BY <1>4 DEF StartCommand, RunCommand, Connect, GoTo
  <2>4. \A d \in Call : d # c => task'[d] = task[d] /\ way'[d] = way[d]
    BY <1>4, <1>b DEF StartCommand, RunCommand, Starts, TypeOK
  <2> QED BY <2>1, <2>2, <2>3, <2>4 DEF ServerInv, CommandTypes, ExitsTrue, DoneIsDone
<1>5. ASSUME NEW c \in Call, LoseLink(c) PROVE Goal
  <2>1. UNCHANGED <<vars, exits>> /\ link' = [link EXCEPT ![c] = "lost"]
    BY <1>5 DEF LoseLink, LinkLost
  <2> QED BY <2>1 DEF ServerInv, CommandTypes, ExitsTrue, DoneIsDone, vars
<1>6. ASSUME NEW c \in Call, Finish(c) PROVE Goal
  <2>1. UNCHANGED <<task, way, exits, link>>
    BY <1>6 DEF Finish, CommandReturns, commandVars
  <2>2. reply'[c] = "done" => task[c] = "ok" \/ link[c] = "lost"
    <3>1. reply'[c] \in Result(c)
      BY <1>6 DEF Finish
    <3> QED BY <3>1 DEF Result, ServerInv, ExitsTrue
  <2>3. \A d \in Call : d # c => reply'[d] = reply[d]
    BY <1>6, <1>b DEF Finish, CommandReturns, Answer, TypeOK
  <2> QED BY <2>1, <2>2, <2>3 DEF ServerInv, CommandTypes, ExitsTrue, DoneIsDone
<1>7. ASSUME NEW c \in Call, ApiTaskEnds(c) PROVE Goal
  <2>1. UNCHANGED commandVars /\ UNCHANGED <<way, reply>>
    BY <1>7 DEF ApiTaskEnds, TaskEnds
  <2>2. task[c] = "running"
    BY <1>7 DEF ApiTaskEnds, TaskEnds
  <2>3. \A d \in Call : d # c => task'[d] = task[d]
    BY <1>7, <1>b DEF ApiTaskEnds, TaskEnds, TypeOK
  <2> QED BY <2>1, <2>2, <2>3, NoExitsBefore, QuietStep
<1>8. ASSUME NEW c \in Call, SshTaskEnds(c) PROVE Goal
  <2>1. way[c] = "ssh" /\ task[c] = "running" /\ UNCHANGED <<way, reply, link>>
    BY <1>8 DEF SshTaskEnds, TaskEnds, ProgramsEnd
  <2>2. \A d \in Call : d # c => task'[d] = task[d]
    BY <1>8, <1>b DEF SshTaskEnds, TaskEnds, TypeOK
  <2>3. task'[c] \in {"ok", "failed"}
    BY <1>8, <1>b DEF SshTaskEnds, TaskEnds, TypeOK
  <2>4. PICK n \in 1..2 : DOMAIN Programs(args[c]) = 1..n
    BY OneOrTwoPrograms
  <2>5. PICK e \in [1..n -> {0, 1}] :
            /\ (task'[c] = "ok") <=> \A i \in DOMAIN e : e[i] = 0
            /\ exits' = [exits EXCEPT ![c] = e]
    BY <1>8, <2>4 DEF SshTaskEnds, ProgramsEnd
  <2>6. Status(e) = 0 <=> task'[c] = "ok"
    BY <2>5, StatusIsAll
  <2>7. exits'[c] = e /\ \A d \in Call : d # c => exits'[d] = exits[d]
    BY <2>5 DEF ServerInv, CommandTypes
  <2>8. ExitsTrue'
    BY <2>1, <2>2, <2>3, <2>6, <2>7 DEF ServerInv, ExitsTrue
  <2>9. DoneIsDone'
    BY <2>1, <2>2 DEF ServerInv, DoneIsDone
  <2> QED BY <2>1, <2>5, <2>8, <2>9 DEF ServerInv, CommandTypes
<1>9. ASSUME UNCHANGED commandVars, UNCHANGED <<task, way, reply>> PROVE Goal
  BY <1>9, QuietStep
<1>10. ASSUME NEW c \in Call, ResolveType(c) PROVE Goal
  BY <1>9, <1>10 DEF ResolveType, vars
<1>11. ASSUME NEW r \in Reader, ReadStatus(r) PROVE Goal
  BY <1>9, <1>11 DEF ReadStatus, vars
<1>12. ASSUME NEW t \in Thing, Others(t) PROVE Goal
  BY <1>9, <1>12 DEF Others, Elsewhere
<1>13. TimePasses => Goal
  BY <1>9 DEF TimePasses, vars
<1>14. UNCHANGED serverVars => Goal
  BY <1>9 DEF serverVars, vars
<1>15. Goal
  <2> HIDE DEF Goal
  <2> QED BY <1>1, <1>2, <1>3, <1>4, <1>5, <1>6, <1>7, <1>8, <1>10, <1>11, <1>12, <1>13, <1>14
          DEF ServerNext
<1> QED BY <1>a, <1>15 DEF ServerInv

\* "done" is only ever wrong of a command whose connection was lost, for pipes of
\* either length, whatever ends in whatever order.
THEOREM DoneMeansDone == ServerSpec => []DoneIsDone
<1>1. ServerInv => DoneIsDone
  BY DEF ServerInv
<1> QED BY <1>1, ServerInvInit, ServerInvStep, PTL DEF ServerSpec
=============================================================================
