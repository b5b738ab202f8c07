------------------------------ MODULE GuestTypes ------------------------------
(***************************************************************************)
(* The guest type cache of tools/vms.py.  proxmox_vm_power and             *)
(* proxmox_get_vm_status ask _resolve_vm_type() whether a guest is a VM    *)
(* ("qemu") or a container ("lxc"), for that is part of the URL; it keeps  *)
(* what PVE lists for a while.  Meanwhile the guest may be removed and one *)
(* of the other type made under its id.                                    *)
(***************************************************************************)
EXTENDS Naturals

CONSTANTS
    Guest,      \* the guests' ids
    Looker,     \* the calls that ask for a type
    Ttl,        \* _VM_TYPE_TTL, in ticks of the clock
    Latency     \* bound: ticks from a lookup's request to its answer

ASSUME TypesAssumption == Ttl \in Nat \ {0} /\ Latency \in Nat

Kind == {"qemu", "lxc"}

\* Ages are counted up to this: older is no different.
Old == Ttl + Latency

VARIABLES
    kind,      \* kind[g]: the type of the guest with this id, or of the last one
    since,     \* since[g]: the age of that
    cache,     \* _VM_TYPE_CACHE
    look       \* look[x]: how far x's lookup is

typeVars == <<kind, since, cache, look>>

NotCached == [type |-> "none", age |-> 0]
CacheEntry == {NotCached} \cup [type : Kind, age : 0..Ttl]

\* step: "idle", "asked" (the request is on its way), "read" (PVE has made the
\* list), "found" (the type is decided, `by` the cache, the list or the hint).
Idle == [step |-> "idle"]
Listing == [Guest -> Kind \cup {"none"}]
Look == {Idle}
        \cup [step : {"asked"}, guest : Guest, wait : 0..Latency]
        \cup [step : {"read"}, guest : Guest, wait : 0..Latency, list : Listing]
        \cup [step : {"found"}, guest : Guest, type : Kind, by : {"cache", "list", "hint"}]

TypesOK ==
    /\ kind \in [Guest -> Kind]
    /\ since \in [Guest -> 0..Old]
    /\ cache \in [Guest -> CacheEntry]
    /\ look \in [Looker -> Look]

TypesInit ==
    /\ kind \in [Guest -> Kind]
    /\ since = [g \in Guest |-> Old]
    /\ cache = [g \in Guest |-> NotCached]
    /\ look = [x \in Looker |-> Idle]

Found(x, g, type, by) ==
    look' = [look EXCEPT ![x] = [step |-> "found", guest |-> g, type |-> type, by |-> by]]

Fresh(g) == cache[g].type # "none" /\ cache[g].age < Ttl

-----------------------------------------------------------------------------
\* Mutant: a hit renews the entry.
CacheHitRenews(x, g) ==
    /\ look[x].step = "idle"
    /\ Fresh(g)
    /\ Found(x, g, cache[g].type, "cache")
    /\ cache' = [cache EXCEPT ![g].age = 0]
    /\ UNCHANGED <<kind, since>>

CacheHit(x, g) ==
    /\ look[x].step = "idle"
    /\ Fresh(g)
    /\ Found(x, g, cache[g].type, "cache")
    /\ UNCHANGED <<kind, since, cache>>

Ask(x, g) ==
    /\ look[x].step = "idle"
    /\ ~Fresh(g)
    /\ look' = [look EXCEPT ![x] = [step |-> "asked", guest |-> g, wait |-> 0]]
    /\ UNCHANGED <<kind, since, cache>>

\* PVE makes the list of the guests there are.
PveLists(x, present) ==
    /\ look[x].step = "asked"
    /\ look' = [look EXCEPT ![x] =
                  [step |-> "read", guest |-> @.guest, wait |-> @.wait,
                   list |-> [g \in Guest |-> IF g \in present THEN kind[g] ELSE "none"]]]
    /\ UNCHANGED <<kind, since, cache>>

\* The list arrives: every guest on it goes into the cache, stamped now, but it
\* answers the call only if it has the guest on the node the call names.
Receive(x) ==
    /\ look[x].step = "read"
    /\ LET list == look[x].list
           g == look[x].guest
       IN  /\ cache' = [h \in Guest |-> IF list[h] = "none" THEN cache[h]
                                        ELSE [type |-> list[h], age |-> 0]]
           /\ \/ list[g] # "none" /\ Found(x, g, list[g], "list")
              \/ \E hint \in Kind : Found(x, g, hint, "hint")
    /\ UNCHANGED <<kind, since>>

\* Mutant: without the fallback the answer is None.
LookupFailsNone(x) ==
    /\ look[x].step \in {"asked", "read"}
    /\ Found(x, look[x].guest, "none", "hint")
    /\ UNCHANGED <<kind, since, cache>>

\* The request fails or times out: the caller's vm_type is as good as any.
LookupFails(x) ==
    /\ look[x].step \in {"asked", "read"}
    /\ \E hint \in Kind : Found(x, look[x].guest, hint, "hint")
    /\ UNCHANGED <<kind, since, cache>>

\* The call is over and another may follow.
Return(x) ==
    /\ look[x].step = "found"
    /\ look' = [look EXCEPT ![x] = Idle]
    /\ UNCHANGED <<kind, since, cache>>

Lookup(x, g, present) ==
    CacheHit(x, g) \/ Ask(x, g) \/ PveLists(x, present) \/ Receive(x) \/ LookupFails(x)

\* Time passes; no lookup is under way for longer than Latency.
Tick ==
    /\ \A x \in Looker : look[x].step \in {"asked", "read"} => look[x].wait < Latency
    /\ since' = [g \in Guest |-> IF since[g] < Old THEN since[g] + 1 ELSE Old]
    /\ cache' = [g \in Guest |-> IF cache[g].type # "none" /\ cache[g].age < Ttl
                                 THEN [cache[g] EXCEPT !.age = @ + 1] ELSE cache[g]]
    /\ look' = [x \in Looker |-> IF look[x].step \in {"asked", "read"}
                                 THEN [look[x] EXCEPT !.wait = @ + 1] ELSE look[x]]
    /\ UNCHANGED kind

\* A guest of the other type is made under a free id.
Remade(g) ==
    /\ kind' = [kind EXCEPT ![g] = CHOOSE k \in Kind : k # @]
    /\ since' = [since EXCEPT ![g] = 0]
    /\ UNCHANGED <<cache, look>>

TypesNext ==
    \/ \E x \in Looker, g \in Guest, present \in SUBSET Guest : Lookup(x, g, present)
    \/ \E x \in Looker : Return(x)
    \/ Tick
    \/ \E g \in Guest : Remade(g)

TypesSpec == TypesInit /\ [][TypesNext]_typeVars

-----------------------------------------------------------------------------
\* A request goes to the endpoint of a type the guest does not have only if PVE
\* told nothing of the guest and the caller's own vm_type is wrong, or if the
\* guest was made less than _VM_TYPE_TTL and one lookup ago.  (_resolve_vm_type;
\* its docstring promises more: "never worse than the caller-supplied type".)
WrongTypeIsYoung ==
    [][\A x \in Looker :
         look'[x].step = "found" /\ look[x].step # "found" /\ look'[x].by # "hint" =>
            LET g == look'[x].guest
            IN  look'[x].type = kind[g] \/ since[g] < Ttl + Latency]_typeVars
=============================================================================
