----------------------------- MODULE MultiRoutes -----------------------------
(***************************************************************************)
(* The server's internal routing table (multi.c, multi.h, mroute.c): which *)
(* client instance a virtual address belongs to.  Host routes, the iroute  *)
(* networks of the clients and the cached host routes derived from them    *)
(* share one hash table, vhash.  A route holds a reference on its          *)
(* instance; a closed instance is freed by the reaper, when the last of    *)
(* its routes is gone.                                                     *)
(*                                                                         *)
(* Addresses are Width bits wide; a key of vhash is <<netbits, address>>,  *)
(* with netbits -1 for a host.  A cached route carries the generation of   *)
(* the cache it was made in: only equality with the current generation is  *)
(* ever tested, so the model keeps the truth of that test (fresh).  Times  *)
(* of last reference are kept as ages.                                     *)
(***************************************************************************)
EXTENDS Integers, FiniteSets, FiniteSetsExt

CONSTANTS
    Instances,    \* memory for multi_instance objects
    None,         \* the null pointer
    Width,        \* bits of an address
    Local,        \* the server's own virtual address
    Vaddrs,       \* host addresses given to clients
    IrouteSets,   \* sets of iroute networks a client may come with
    Refusable,    \* keys that the learn-address script may refuse
    Buckets,      \* buckets of vhash; the reaper visits one per pass
    Configs       \* [dev, quota, ageing, c2c, script]

VARIABLES
    cfg,          \* options of the server
    m             \* the struct multi_context: inst, vhash, net_len, base

vars == <<cfg, m>>

Ttl == 0          \* MULTI_CACHE_ROUTE_TTL, in ticks
MaxAge == 1       \* bound: older routes are all alike

Hosts == 0..(2^Width - 1)
HostKey(a) == <<-1, a>>
mroute_addr_mask_host_bits(a, n) == <<n, (a \div 2^(Width - n)) * 2^(Width - n)>>
Networks == UNION {{mroute_addr_mask_host_bits(a, n) : a \in Hosts} : n \in 0..Width}
Keys == {HostKey(a) : a \in Hosts} \cup Networks

Free == [st |-> "free", refcount |-> 0, route_count |-> 0, vaddr |-> None,
         iroutes |-> {}]
Allocated == [Free EXCEPT !.st = "new", !.refcount = 1]

NewContext(inst) ==
    [inst |-> inst, vhash |-> [k \in {} |-> None],
     net_len |-> [n \in 0..Width |-> 0], base |-> 0]

halt(c, i) == c.inst[i].st = "closed"
live(i) == m.inst[i].st \in {"new", "up"}

-----------------------------------------------------------------------------
(* Routes and reference counts *)

multi_route_defined(c, r) ==
    /\ ~halt(c, r.instance)
    /\ r.cache => r.fresh /\ r.age <= Ttl

DefinedAt(c, k) == k \in DOMAIN c.vhash /\ multi_route_defined(c, c.vhash[k])

OwnerAt(c, k) == IF DefinedAt(c, k) THEN c.vhash[k].instance ELSE None

multi_instance_dec_refcount(c, i) ==
    [c EXCEPT !.inst[i] = IF @.refcount = 1 THEN Free
                                            ELSE [@ EXCEPT !.refcount = @ - 1]]

multi_route_del(c, k) ==
    LET i == c.vhash[k].instance
    IN  multi_instance_dec_refcount(
            [c EXCEPT !.inst[i].route_count = @ - 1,
                      !.vhash = [x \in DOMAIN @ \ {k} |-> @[x]]], i)

DelRoutes(c, ks) == FoldSet(LAMBDA k, d : multi_route_del(d, k), c, ks)

route_quota_test(c, i) == c.inst[i].route_count < cfg.quota

\* Mutant: the route that is replaced keeps its reference.
AddRoute_NoDel(c, i, k, cache) ==
    LET new == [instance |-> i, cache |-> cache, fresh |-> TRUE, age |-> 0]
    IN  [c EXCEPT !.inst[i].refcount = @ + 1, !.inst[i].route_count = @ + 1,
                  !.vhash = [x \in DOMAIN @ \cup {k} |-> IF x = k THEN new ELSE @[x]]]

\* The new route takes its reference before the old one gives up its own.
AddRoute(c, i, k, cache) ==
    LET new == [instance |-> i, cache |-> cache, fresh |-> TRUE, age |-> 0]
        d == [c EXCEPT !.inst[i].refcount = @ + 1, !.inst[i].route_count = @ + 1]
        e == IF k \in DOMAIN d.vhash THEN multi_route_del(d, k) ELSE d
    IN  [e EXCEPT !.vhash = [x \in DOMAIN @ \cup {k} |->
                                IF x = k THEN new ELSE @[x]]]

\* refused: the keys for which the learn-address script fails in this step.
multi_learn_addr(c, i, k, cache, refused) ==
    IF \/ OwnerAt(c, k) = i
       \/ k = HostKey(Local)
       \/ ~route_quota_test(c, i)
       \/ k \in refused
    THEN c
    ELSE AddRoute(c, i, k, cache)

-----------------------------------------------------------------------------
(* The lengths of iroute networks in use; each change starts a new cache   *)
(* generation.                                                             *)

NewGeneration(c) ==
    [c EXCEPT !.vhash = [k \in DOMAIN @ |->
                            [@[k] EXCEPT !.fresh = @ /\ ~c.vhash[k].cache]]]

\* Mutant: the cached routes stay valid.
mroute_helper_add_iroute46_SameGeneration(c, n) == [c EXCEPT !.net_len[n] = @ + 1]

mroute_helper_add_iroute46(c, n) == [NewGeneration(c) EXCEPT !.net_len[n] = @ + 1]
mroute_helper_del_iroute46(c, n) == [NewGeneration(c) EXCEPT !.net_len[n] = @ - 1]

\* mroute_helper_regenerate lists the lengths in use, longest first.
net_lens(c) == {n \in 0..Width : c.net_len[n] > 0}

multi_add_iroutes(c, i, refused) ==
    FoldSet(LAMBDA k, d : multi_learn_addr(mroute_helper_add_iroute46(d, k[1]),
                                           i, k, FALSE, refused),
            c, c.inst[i].iroutes)

multi_del_iroutes(c, i) ==
    FoldSet(LAMBDA k, d : mroute_helper_del_iroute46(d, k[1]), c, c.inst[i].iroutes)

-----------------------------------------------------------------------------
(* Lookup *)

Matching(c, a) == {n \in net_lens(c) : DefinedAt(c, mroute_addr_mask_host_bits(a, n))}

CidrOwner(c, a) ==
    IF Matching(c, a) = {} THEN None
    ELSE OwnerAt(c, mroute_addr_mask_host_bits(a, Max(Matching(c, a))))

\* multi_get_instance_by_virtual_addr: the instance found ...
Lookup(c, a, cidr) ==
    IF a = Local THEN None
    ELSE IF DefinedAt(c, HostKey(a)) THEN OwnerAt(c, HostKey(a))
    ELSE IF cidr THEN CidrOwner(c, a)
    ELSE None

\* ... and what the lookup leaves behind: a host route has been referenced,
\* a network has put a host route into the cache.
AfterLookup(c, a, cidr, refused) ==
    IF Lookup(c, a, cidr) = None THEN c
    ELSE IF DefinedAt(c, HostKey(a)) THEN [c EXCEPT !.vhash[HostKey(a)].age = 0]
    ELSE multi_learn_addr(c, CidrOwner(c, a), HostKey(a), TRUE, refused)

-----------------------------------------------------------------------------
(* Reaping *)

Bucket(k) == (k[1] + 1 + k[2]) % Buckets

multi_reap_range(c, bs) ==
    DelRoutes(c, {k \in DOMAIN c.vhash :
                    Bucket(k) \in bs /\ ~multi_route_defined(c, c.vhash[k])})

multi_reap_process_dowork(c) ==
    LET base == IF c.base >= Buckets THEN 0 ELSE c.base
    IN  [multi_reap_range(c, {base}) EXCEPT !.base = base + 1]

check_stale_routes(c) ==
    DelRoutes(c, {k \in DOMAIN c.vhash : DefinedAt(c, k) /\ c.vhash[k].age >= cfg.ageing})

Aged(c) ==
    [c EXCEPT !.vhash = [k \in DOMAIN @ |->
        IF @[k].cache \/ cfg.ageing > 0
        THEN [@[k] EXCEPT !.age = IF @ < MaxAge THEN @ + 1 ELSE @] ELSE @[k]]]

-----------------------------------------------------------------------------
Init ==
    /\ cfg \in Configs
    /\ m = NewContext([i \in Instances |-> Free])

multi_create_instance(i) ==
    /\ m.inst[i] = Free
    /\ m' = [m EXCEPT !.inst[i] = Allocated]
    /\ UNCHANGED cfg

\* The end of a client's connection set-up, in tun mode: its own address
\* first, then its iroutes.
multi_client_connect_late_setup(i, v, irs, refused) ==
    /\ cfg.dev = "tun"
    /\ m.inst[i].st = "new"
    /\ m' = multi_add_iroutes(
                multi_learn_addr(
                    [m EXCEPT !.inst[i].st = "up", !.inst[i].vaddr = v,
                              !.inst[i].iroutes = irs],
                    i, HostKey(v), FALSE, refused),
                i, refused)
    /\ UNCHANGED cfg

\* A packet from client i.  The tun server only takes it when it routes the
\* source address to i, the tap server when i can learn it.
multi_process_incoming_link(i, src, dest, refused) ==
    LET tun == cfg.dev = "tun"
        c == IF tun THEN AfterLookup(m, src, TRUE, refused)
                    ELSE multi_learn_addr(m, i, HostKey(src), FALSE, refused)
        mine == IF tun THEN Lookup(m, src, TRUE) = i ELSE OwnerAt(c, HostKey(src)) = i
    IN  /\ live(i)
        /\ m' = IF mine /\ cfg.c2c THEN AfterLookup(c, dest, tun, refused) ELSE c
        /\ UNCHANGED cfg

multi_process_incoming_tun(dest, refused) ==
    /\ m' = AfterLookup(m, dest, cfg.dev = "tun", refused)
    /\ UNCHANGED cfg

\* --push-update gives a connected client another address.
multi_unlearn_addr(c, i, k) ==
    IF k \in DOMAIN c.vhash /\ c.vhash[k].instance = i THEN multi_route_del(c, k) ELSE c

update_vhash(i, v, refused) ==
    LET c == IF m.inst[i].vaddr = None THEN m
             ELSE multi_unlearn_addr(m, i, HostKey(m.inst[i].vaddr))
        d == multi_learn_addr(c, i, HostKey(v), FALSE, refused)
    IN  /\ m.inst[i].st = "up"
        /\ m' = [d EXCEPT !.inst[i].vaddr =
                    IF OwnerAt(d, HostKey(v)) # None THEN v ELSE None]
        /\ UNCHANGED cfg

HaltInstance(c, i) == [c EXCEPT !.inst[i].st = "closed"]

multi_close_instance(i) ==
    /\ live(i)
    /\ m' = multi_instance_dec_refcount(multi_del_iroutes(HaltInstance(m, i), i), i)
    /\ UNCHANGED cfg

\* Once a second, before any I/O of that second is handled.
multi_process_per_second_timers(stale) ==
    /\ stale => cfg.ageing > 0
    /\ m' = IF stale THEN check_stale_routes(multi_reap_process_dowork(Aged(m)))
                     ELSE multi_reap_process_dowork(Aged(m))
    /\ UNCHANGED cfg

\* Shutdown or restart: close everyone, reap everything, drop the tables.
CloseAll(c) ==
    FoldSet(LAMBDA i, d : multi_instance_dec_refcount(HaltInstance(d, i), i),
            c, {i \in Instances : c.inst[i].st \in {"new", "up"}})

multi_uninit ==
    /\ m' = NewContext(multi_reap_range(CloseAll(m), 0..(Buckets - 1)).inst)
    /\ UNCHANGED cfg

Next ==
    \/ multi_uninit
    \/ \E stale \in BOOLEAN : multi_process_per_second_timers(stale)
    \/ \E i \in Instances : multi_create_instance(i) \/ multi_close_instance(i)
    \/ \E refused \in IF cfg.script THEN SUBSET Refusable ELSE {{}} :
        \/ \E dest \in Hosts : multi_process_incoming_tun(dest, refused)
        \/ \E i \in Instances :
            \/ \E v \in Vaddrs : \/ update_vhash(i, v, refused)
                                 \/ \E irs \in IrouteSets :
                                        multi_client_connect_late_setup(i, v, irs, refused)
            \/ \E src, dest \in Hosts : multi_process_incoming_link(i, src, dest, refused)

Spec == Init /\ [][Next]_vars

-----------------------------------------------------------------------------
Route == [instance : Instances, cache : BOOLEAN, fresh : BOOLEAN, age : 0..MaxAge]

TypeOK ==
    /\ cfg \in Configs
    /\ m.inst \in [Instances ->
                    [st : {"free", "new", "up", "closed"}, refcount : 0..Cardinality(Keys) + 1,
                     route_count : 0..Cardinality(Keys), vaddr : Hosts \cup {None},
                     iroutes : SUBSET Networks]]
    /\ DOMAIN m.vhash \subseteq Keys
    /\ \A k \in DOMAIN m.vhash : m.vhash[k] \in Route
    /\ m.net_len \in [0..Width -> 0..Cardinality(Instances) * Cardinality(Networks)]
    /\ m.base \in 0..Buckets

\* No route outlives its instance and no instance is forgotten: the reference
\* count is the number of routes, plus one while the instance is open, and
\* the memory is given back exactly when it drops to nothing.
RefcountsAreExact ==
    \A i \in Instances :
        LET routes == {k \in DOMAIN m.vhash : m.vhash[k].instance = i}
        IN  /\ m.inst[i].route_count = Cardinality(routes)
            /\ m.inst[i].refcount = Cardinality(routes) + (IF live(i) THEN 1 ELSE 0)
            /\ m.inst[i].st = "free" <=> m.inst[i].refcount = 0

\* --max-routes-per-client holds for every client, cached routes included.
QuotaHolds == \A i \in Instances : m.inst[i].route_count <= cfg.quota

\* A client is routed to, and may send from, only its own address and the
\* networks of its iroutes, whatever was cached for whom before.
Mine(i, a) ==
    \/ m.inst[i].vaddr = a
    \/ \E k \in m.inst[i].iroutes : mroute_addr_mask_host_bits(a, k[1]) = k

OnlyOwnAddresses ==
    cfg.dev = "tun" =>
        \A a \in Hosts : LET i == Lookup(m, a, TRUE) IN i # None => Mine(i, a)

\* The cache changes nothing: an address without a route of its own goes to
\* the owner of the longest network in the table that holds it, cached or
\* not.  (With --stale-routes-check networks are removed behind the cache.)
Longest(a) ==
    LET nets == {n \in 0..Width : DefinedAt(m, mroute_addr_mask_host_bits(a, n))}
    IN  IF nets = {} THEN None
        ELSE OwnerAt(m, mroute_addr_mask_host_bits(a, Max(nets)))

LongestPrefixWins ==
    cfg.dev = "tun" /\ cfg.ageing = 0 =>
        \A a \in Hosts \ {Local} :
            \/ DefinedAt(m, HostKey(a)) /\ ~m.vhash[HostKey(a)].cache
            \/ Lookup(m, a, TRUE) = Longest(a)
=============================================================================
