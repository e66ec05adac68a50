-------------------------------- MODULE Pool --------------------------------
(***************************************************************************)
(* The server's pool of virtual addresses (pool.c): clients take and       *)
(* return addresses, --ifconfig-pool-persist writes the association of     *)
(* names and addresses to a file, and the server stops, crashes and starts *)
(* again, perhaps with another address range.                              *)
(***************************************************************************)
EXTENDS Integers, FiniteSets, Sequences, SequencesExt

CONSTANTS
    Instances,   \* client instances (struct multi_instance)
    Names,       \* common names of the clients
    NoName,      \* a NULL common_name
    Garbage,     \* what is left of a name when a line of the file is torn
    Configs,     \* the pools the server may be configured with
    MaxNow       \* bound: the clock stops here

VARIABLES
    cfg,         \* the configuration in force
    list,        \* pool->list, a function on 0..pool->size - 1
    mi,          \* instance -> whether it is open, its common name, whether --ifconfig-push
                 \* gave it an address, and its vaddr_handle
    file,        \* lines of the persist file
    now,
    crashed      \* history: has the server crashed? (bound: once)

vars == <<cfg, list, mi, file, now, crashed>>

NoHandle == -1       \* no handle, and the empty address field of a line
Closed == [open |-> FALSE, cn |-> NoName, static |-> FALSE, handle |-> NoHandle]
Open == {i \in Instances : mi[i].open}

-----------------------------------------------------------------------------
(* The geometry of a pool.  A configuration is a record: ipv4, type (30NET *)
(* or INDIV), start and end; ipv6, the network net, host (the last 32 bits *)
(* of the first address) and hostbits; dup for --duplicate-cn and fixed    *)
(* for a persist file that is only read.  An IPv4 address is a number, an  *)
(* IPv6 address its network and the number its last 32 bits hold.          *)

ipv4_base(c) == IF c.type = "30NET" THEN c.start - (c.start % 4) ELSE c.start

ipv4_size(c) ==
    IF c.type = "30NET"
    THEN ((c.end - (c.end % 4) + 4) - ipv4_base(c)) \div 4
    ELSE c.end - c.start + 1

\* The host part, and 1 more if it is the anycast address.
host_part(c) == IF c.hostbits < 32 THEN c.host % 2^c.hostbits ELSE c.host
anycast(c) == IF host_part(c) = 0 THEN 1 ELSE 0

ipv6_base(c) == c.host + anycast(c)

ipv6_size(c) ==
    IF c.hostbits <= 16 THEN 2^c.hostbits - (host_part(c) + anycast(c)) ELSE 65536

pool_size(c) ==
    IF c.ipv4 /\ c.ipv6
    THEN IF ipv6_size(c) < ipv4_size(c) THEN ipv6_size(c) ELSE ipv4_size(c)
    ELSE IF c.ipv4 THEN ipv4_size(c) ELSE ipv6_size(c)

Handles(c) == 0..(pool_size(c) - 1)

\* ifconfig_pool_init refuses a pool of fewer than two addresses.
Usable(c) ==
    /\ c.ipv4 \/ c.ipv6
    /\ c.ipv4 => ipv4_size(c) >= 2
    /\ c.ipv6 => ipv6_size(c) >= 2

ifconfig_pool_handle_to_ip_base(c, h) ==
    IF c.ipv4 THEN ipv4_base(c) + (IF c.type = "30NET" THEN 4 * h ELSE h) ELSE NoHandle

ifconfig_pool_handle_to_ipv6_base(c, h) ==
    IF c.ipv6 THEN ipv6_base(c) + h ELSE NoHandle

\* A pool without IPv4 has type and base zero: any address is far outside.
ifconfig_pool_ip_base_to_handle(c, addr) ==
    LET off == addr - ipv4_base(c)
        ret == IF c.type = "30NET" THEN off \div 4 ELSE off
    IN  IF c.ipv4 /\ ret \in Handles(c) THEN ret ELSE NoHandle

ifconfig_pool_ipv6_base_to_handle(c, net, addr) ==
    LET ret == addr - ipv6_base(c)
    IN  IF c.ipv6 /\ net = c.net /\ ret \in Handles(c) THEN ret ELSE NoHandle

-----------------------------------------------------------------------------
(* Entries of the pool.                                                    *)

Unused == [in_use |-> FALSE, cn |-> NoName, last_release |-> 0, fixed |-> FALSE]

ifconfig_pool_entry_free(ipe, hard) ==
    [ipe EXCEPT !.in_use = FALSE,
                !.cn = IF hard THEN NoName ELSE @,
                !.last_release = IF hard THEN 0 ELSE now]

Free(l) == {i \in DOMAIN l : ~l[i].in_use}

First(S) == CHOOSE i \in S : \A j \in S : i <= j

\* An address this name had before, else the one released earliest; with
\* --duplicate-cn simply the first.
ifconfig_pool_find(l, cn) ==
    LET previous == {i \in Free(l) : cn # NoName /\ l[i].cn = cn}
        open     == {i \in Free(l) : ~l[i].fixed}
        earliest == {i \in open : \A j \in open : l[i].last_release <= l[j].last_release}
    IN  IF cfg.dup THEN (IF Free(l) = {} THEN NoHandle ELSE First(Free(l)))
        ELSE IF previous # {} THEN First(previous)
        ELSE IF open # {} THEN First(earliest)
        ELSE NoHandle

ifconfig_pool_acquire(l, i, cn) ==
    [l EXCEPT ![i] = [ifconfig_pool_entry_free(@, TRUE) EXCEPT !.in_use = TRUE, !.cn = cn]]

ifconfig_pool_release(l, h, hard) ==
    IF h \in DOMAIN l THEN [l EXCEPT ![h] = ifconfig_pool_entry_free(@, hard)] ELSE l

-----------------------------------------------------------------------------
(* The persist file.                                                       *)

Line(c, cn, h) == [cn |-> cn, ip |-> ifconfig_pool_handle_to_ip_base(c, h),
                   net |-> c.net, ip6 |-> ifconfig_pool_handle_to_ipv6_base(c, h)]

\* Mutant: only the addresses in use are written.
ifconfig_pool_list_InUse(c, l) ==
    LET named == SetToSortSeq({h \in DOMAIN l : l[h].in_use /\ l[h].cn # NoName}, <)
    IN  [k \in 1..Len(named) |-> Line(c, l[named[k]].cn, named[k])]

ifconfig_pool_list(c, l) ==
    LET named == SetToSortSeq({h \in DOMAIN l : l[h].cn # NoName}, <)
    IN  [k \in 1..Len(named) |-> Line(c, l[named[k]].cn, named[k])]

\* The handle a line stands for: by its IPv4 address, else by its IPv6 one.
LineHandle(c, line) ==
    LET h  == IF line.ip = NoHandle THEN NoHandle ELSE ifconfig_pool_ip_base_to_handle(c, line.ip)
        h6 == IF line.ip6 = NoHandle THEN NoHandle
              ELSE ifconfig_pool_ipv6_base_to_handle(c, line.net, line.ip6)
    IN  IF h # NoHandle THEN h ELSE h6

ifconfig_pool_set(c, l, cn, h) ==
    [l EXCEPT ![h] = [in_use |-> FALSE, cn |-> cn, last_release |-> now, fixed |-> c.fixed]]

\* ifconfig_pool_init and then ifconfig_pool_read of the lines from the file
\* offset on.
ifconfig_pool_read(c, lines) ==
    FoldLeft(LAMBDA l, line : LET h == LineHandle(c, line)
                              IN  IF h = NoHandle THEN l ELSE ifconfig_pool_set(c, l, line.cn, h),
             [h \in Handles(c) |-> Unused], lines)

-----------------------------------------------------------------------------
\* A server starts without a file; one that only reads it finds the file
\* its administrator wrote, with the first address for one of the names.
Init ==
    /\ cfg \in {c \in Configs : Usable(c)}
    /\ file \in IF cfg.fixed
                THEN {<<Line(cfg, n, 0)>> : n \in Names}
                ELSE {<<>>}
    /\ now = 1
    /\ list = ifconfig_pool_read(cfg, file)
    /\ mi = [i \in Instances |-> Closed]
    /\ crashed = FALSE

Tick ==
    /\ now < MaxNow
    /\ now' = now + 1
    /\ UNCHANGED <<cfg, list, mi, file, crashed>>

\* multi_delete_dup: the other instances of the name, which are closed.
multi_delete_dup(i, cn) ==
    IF cfg.dup \/ cn = NoName THEN {} ELSE {j \in Open \ {i} : mi[j].cn = cn}

ReleaseAll(l, S) ==
    FoldLeft(LAMBDA k, j : ifconfig_pool_release(k, mi[j].handle, FALSE), l, SetToSeq(S))

\* multi_select_virtual_addr: the address --ifconfig-push gives, and the
\* dynamic one goes back; else an address of the pool if there is none yet.
Select(l, m, i) ==
    LET key == IF cfg.dup THEN NoName ELSE m[i].cn
        h   == ifconfig_pool_find(l, key)
    IN  IF m[i].static
        THEN /\ list' = ifconfig_pool_release(l, m[i].handle, TRUE)
             /\ mi' = [m EXCEPT ![i].handle = NoHandle]
        ELSE IF m[i].handle = NoHandle
        THEN /\ list' = IF h = NoHandle THEN l ELSE ifconfig_pool_acquire(l, h, key)
             /\ mi' = [m EXCEPT ![i].handle = h]
        ELSE list' = l /\ mi' = m

\* multi_client_connect_early_setup: drop the name's other instances, then
\* choose an address.
multi_client_connect_early_setup(i, cn) ==
    LET dup == multi_delete_dup(i, cn)
    IN  /\ ~mi[i].open
        /\ Select(ReleaseAll(list, dup),
                  [j \in Instances |->
                    IF j = i THEN [Closed EXCEPT !.open = TRUE, !.cn = cn]
                    ELSE IF j \in dup THEN Closed ELSE mi[j]], i)
        /\ UNCHANGED <<cfg, file, now, crashed>>

\* A client-connect handler imported options, --ifconfig-push perhaps among
\* them (multi_client_connect_source_ccd and _post, _post_plugin, _mda).
multi_client_connect_post(i) ==
    /\ mi[i].open
    /\ \E push \in BOOLEAN :
        Select(list, [mi EXCEPT ![i].static = @ \/ push], i)
    /\ UNCHANGED <<cfg, file, now, crashed>>

\* Mutant: the address is forgotten.
multi_close_instance_NoRelease(i) ==
    /\ i \in Open
    /\ mi' = [mi EXCEPT ![i] = Closed]
    /\ UNCHANGED <<cfg, list, file, now, crashed>>

multi_close_instance(i) ==
    /\ i \in Open
    /\ list' = ifconfig_pool_release(list, mi[i].handle, FALSE)
    /\ mi' = [mi EXCEPT ![i] = Closed]
    /\ UNCHANGED <<cfg, file, now, crashed>>

\* ifconfig_pool_write: rewind, write the list, cut the file off behind it.
ifconfig_pool_write == IF cfg.fixed THEN file ELSE ifconfig_pool_list(cfg, list)

multi_ifconfig_pool_persist ==
    /\ file' = ifconfig_pool_write
    /\ UNCHANGED <<cfg, list, mi, now, crashed>>

\* What a crash in the middle of a write leaves: the first k lines of the new
\* list and the old file behind them, from the middle of line j on.  What is
\* left of line j may be too short to parse.
Torn(old, new, k, j) ==
    LET rest == SubSeq(new, 1, k)
    IN  {rest \o SubSeq(old, j + 1, Len(old)),
         rest \o <<[old[j] EXCEPT !.cn = Garbage]>> \o SubSeq(old, j + 1, Len(old))}

\* multi_init: a new pool, filled from the lines that can be read.
multi_init(c, f, lines) ==
    /\ cfg' = c
    /\ file' = f
    /\ list' = ifconfig_pool_read(c, lines)
    /\ mi' = [i \in Instances |-> Closed]
    /\ UNCHANGED now

\* SIGHUP, or an exit and a new process: the pool is saved, the file closed
\* and opened again, and the configuration read anew.
Restart ==
    \E c \in Configs :
        /\ Usable(c)
        /\ multi_init(c, ifconfig_pool_write, ifconfig_pool_write)
        /\ UNCHANGED crashed

\* SIGUSR1: do_close_ifconfig_pool_persist leaves the file open, with the
\* offset behind its last line since it was written or read.
SoftRestart == multi_init(cfg, ifconfig_pool_write, <<>>) /\ UNCHANGED crashed

Crash ==
    /\ ~crashed /\ crashed' = TRUE
    /\ \E f \in {file} \cup UNION {Torn(file, ifconfig_pool_write, k, j) :
                                   k \in 0..Len(ifconfig_pool_write), j \in 1..Len(file)} :
          /\ cfg.fixed => f = file
          /\ multi_init(cfg, f, f)

Next ==
    \/ Tick \/ multi_ifconfig_pool_persist \/ Restart \/ SoftRestart \/ Crash
    \/ \E i \in Instances :
        \/ \E cn \in Names \cup {NoName} : multi_client_connect_early_setup(i, cn)
        \/ multi_client_connect_post(i)
        \/ multi_close_instance(i)

Spec == Init /\ [][Next]_vars

-----------------------------------------------------------------------------
TypeOK ==
    /\ cfg \in Configs
    /\ list \in [Handles(cfg) -> [in_use : BOOLEAN, cn : Names \cup {NoName, Garbage},
                                  last_release : 0..MaxNow, fixed : BOOLEAN]]
    /\ mi \in [Instances -> [open : BOOLEAN, cn : Names \cup {NoName},
                              static : BOOLEAN, handle : Handles(cfg) \cup {NoHandle}]]
    /\ now \in 1..MaxNow
    /\ crashed \in BOOLEAN

\* An address belongs to one client: the addresses in use are exactly those
\* the instances hold, each held by one, whatever was dropped as a duplicate,
\* overridden by --ifconfig-push or closed in between (no leak, no sharing).
AddressesAreExclusive ==
    /\ \A i \in Open : mi[i].handle # NoHandle => list[mi[i].handle].in_use
    /\ \A h \in DOMAIN list : list[h].in_use =>
          Cardinality({i \in Open : mi[i].handle = h}) = 1

\* An entry the administrator wrote into a read-only persist file is never
\* given to another name.
FixedIsReserved ==
    cfg.fixed /\ ~cfg.dup =>
        \A i \in Open : mi[i].handle # NoHandle /\ list[mi[i].handle].fixed =>
            \E k \in 1..Len(file) :
                file[k].cn = mi[i].cn /\ LineHandle(cfg, file[k]) = mi[i].handle

\* Two entries never remember the same name, so a client has one address to
\* come back to, through reconnects and reconfigured restarts; only a crash
\* while the file is written can leave it with two.
NamesAreUnique ==
    \/ crashed
    \/ \A g, h \in DOMAIN list : g # h /\ list[g].cn # NoName => list[g].cn # list[h].cn

Ip(c, h) == ifconfig_pool_handle_to_ip_base(c, h)
Ip6(c, h) == <<c.net, ifconfig_pool_handle_to_ipv6_base(c, h)>>

SameAddress(c, h, d, k) ==
    \/ c.ipv4 /\ d.ipv4 /\ Ip(c, h) \div 4 = Ip(d, k) \div 4
    \/ c.ipv6 /\ d.ipv6 /\ Ip6(c, h) = Ip6(d, k)

\* A restart that opens the file again remembers every name under an address
\* it had before, and with the same pool forgets none.
RestartKeepsAddresses ==
    ~cfg.fixed /\ Restart =>
        /\ \A k \in DOMAIN list' : list'[k].cn # NoName =>
              \E h \in DOMAIN list :
                 list[h].cn = list'[k].cn /\ SameAddress(cfg, h, cfg', k)
        /\ cfg' = cfg => \A h \in DOMAIN list : list'[h].cn = list[h].cn

\* Every restart of the server with the same pool, SIGUSR1 too, remembers
\* the names it knew: "reload pool data from file" (multi_init).
RestartReloads ==
    ~cfg.fixed /\ (Restart \/ SoftRestart) /\ cfg' = cfg =>
        \A h \in DOMAIN list : list'[h].cn = list[h].cn

NamesSurviveRestarts == [][RestartReloads]_vars
=============================================================================
