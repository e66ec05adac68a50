------------------------------ MODULE MCServer -------------------------------
(***************************************************************************)
(* The parts of a server for TLC: the address pool, the internal routing   *)
(* table, the chain of client-connect handlers, the event loop with its    *)
(* table of clients, the verification of peers, plug-ins, port sharing,    *)
(* the event set and the tree of timers.  part says which one a behaviour  *)
(* is about; the variables of the others are idle.  The last five parts    *)
(* share the variables y1 to y11.                                          *)
(***************************************************************************)
EXTENDS Integers, TLC

CONSTANTS
    Slots,      \* memory for client instances
    Addrs,      \* transport addresses
    Certs,      \* common names
    None,       \* null pointers
    Garbage,    \* a torn name in the pool's persist file
    Timers      \* entries of the tree of timers

VARIABLES
    part,
    pcfg, list, pmi, file, now, crashed,   \* Pool
    rcfg, rm,                              \* MultiRoutes
    setup, cmi, n_clients, last,           \* ClientConnect
    ecfg, em, io,                          \* MultiClients
    y1, y2, y3, y4, y5, y6, y7, y8, y9, y10, y11

pool == <<pcfg, list, pmi, file, now, crashed>>
routes == <<rcfg, rm>>
connect == <<setup, cmi, n_clients, last>>
clients == <<ecfg, em, io>>
others == <<y1, y2, y3, y4, y5, y6, y7, y8, y9, y10, y11>>

-----------------------------------------------------------------------------
Dual == [ipv4 |-> TRUE, type |-> "INDIV", start |-> 7, end |-> 8,
         ipv6 |-> TRUE, net |-> "a", host |-> 4, hostbits |-> 2,
         dup |-> FALSE, fixed |-> FALSE]
Net30 == [Dual EXCEPT !.type = "30NET", !.start = 5, !.end = 10, !.ipv6 = FALSE, !.dup = TRUE]
OnlyV6 == [Dual EXCEPT !.ipv4 = FALSE, !.host = 6, !.fixed = TRUE]

Pool == INSTANCE Pool WITH
    Instances <- Slots, Names <- Certs, NoName <- None, MaxNow <- 2,
    Configs <- {Dual, Net30, OnlyV6}, cfg <- pcfg, mi <- pmi

-----------------------------------------------------------------------------
RouteConfig(dev, quota, ageing, c2c, script) ==
    [dev |-> dev, quota |-> quota, ageing |-> ageing, c2c |-> c2c, script |-> script]

Routes == INSTANCE MultiRoutes WITH
    Instances <- Slots, Width <- 2, Local <- 3, Vaddrs <- {0, 2}, Buckets <- 2,
    IrouteSets <- {{}, {<<1, 0>>}, {<<0, 0>>, <<2, 1>>}}, Refusable <- {<<-1, 0>>},
    Configs <- {RouteConfig("tun", 3, 0, FALSE, TRUE), RouteConfig("tun", 4, 1, TRUE, FALSE),
                RouteConfig("tap", 1, 1, TRUE, FALSE)},
    cfg <- rcfg, m <- rm

-----------------------------------------------------------------------------
Connect == INSTANCE ClientConnect WITH
    Setups <- {{"ccd", "v1", "script"}, {"v2", "v2defer", "script"}, {"v2"}}, mi <- cmi

-----------------------------------------------------------------------------
ServerConfig(udp, tcp, dup, async, addrs) ==
    [udp |-> udp, tcp |-> tcp, dup |-> dup, async |-> async, addrs |-> addrs]

Clients == INSTANCE MultiClients WITH
    MaxClients <- 2, Capacity <- 1, QueueLimit <- 0, MaxBatch <- 2,
    Configs <- {ServerConfig(TRUE, FALSE, FALSE, FALSE, Addrs),
                ServerConfig(FALSE, TRUE, FALSE, FALSE, Addrs)}
               \cup {ServerConfig(TRUE, TRUE, FALSE, FALSE, {a}) : a \in Addrs}
               \cup {ServerConfig(TRUE, FALSE, TRUE, TRUE, {a}) : a \in Addrs},
    cfg <- ecfg, m <- em

-----------------------------------------------------------------------------
Certificate(name, cn, usage, revoked) ==
    [name |-> name, cn |-> cn, trusted |-> TRUE, usage |-> usage, revoked |-> revoked]
VerifyBase == [man |-> FALSE, plugin |-> FALSE, script |-> TRUE, token |-> "no", as_cn |-> FALSE, ccd |-> FALSE,
               ccdfiles |-> {}, override |-> "none", pending |-> FALSE, final |-> FALSE, no_ca |-> FALSE,
               hashes |-> {}, refuses |-> {}, crl |-> "none", certs |-> {"k1"}, users |-> {"u1"},
               seconds |-> 2, keys |-> 2]
VerifyConfigs == {
    [VerifyBase EXCEPT !.token = "internal", !.users = {"u1", "u2"}, !.seconds = 3],
    [VerifyBase EXCEPT !.token = "external", !.override = "ov", !.script = FALSE, !.plugin = TRUE],
    [VerifyBase EXCEPT !.man = TRUE, !.pending = TRUE, !.script = FALSE],
    [VerifyBase EXCEPT !.plugin = TRUE, !.as_cn = TRUE, !.ccd = TRUE, !.ccdfiles = {"u1"}, !.users = {"u1", "u2"},
                       !.seconds = 1],
    [VerifyBase EXCEPT !.no_ca = TRUE, !.hashes = {"k1", "k2"}, !.crl = "dir", !.final = TRUE,
                       !.certs = {"k1", "k2"}, !.seconds = 0],
    [VerifyBase EXCEPT !.certs = {"k1", "k2", "k3"}, !.refuses = {"k2"}, !.seconds = 0],
    [VerifyBase EXCEPT !.seconds = 1, !.keys = 3],
    [VerifyBase EXCEPT !.script = FALSE, !.crl = "file", !.certs = {"k1", "k2", "k4"}, !.seconds = 0],
    [VerifyBase EXCEPT !.script = FALSE, !.no_ca = TRUE, !.hashes = {"k1", "k2"}, !.crl = "file",
                       !.certs = {"k1", "k2"}, !.seconds = 0],
    [VerifyBase EXCEPT !.script = FALSE, !.crl = "other", !.certs = {"k1", "k2"}, !.seconds = 0],
    [VerifyBase EXCEPT !.token = "internal", !.users = {"", "u1"}, !.seconds = 1],
    [VerifyBase EXCEPT !.token = "external", !.users = {"", "u1"}, !.seconds = 1],
    [VerifyBase EXCEPT !.token = "internal", !.man = TRUE, !.script = FALSE, !.seconds = 0]}
Verification == INSTANCE Verify WITH
    Certs <- {Certificate("k1", "c1", TRUE, FALSE), Certificate("k2", "c2", TRUE, TRUE),
              Certificate("k3", "c1", TRUE, FALSE), Certificate("k4", "c1", FALSE, FALSE)},
    CacheIntervals <- <<0, 1>>, HandWindow <- 2, HalfReneg <- 1, Renewal <- 1, Lifetime <- 2,
    Configs <- VerifyConfigs,
    cfg <- y1, multi <- y2, keys <- y3, session <- y4, files <- y5, answers <- y6, now <- y7, ctoken <- y8,
    approved <- y9, logins <- y10, nkeys <- y11

-----------------------------------------------------------------------------
PluginOf(point, mask, constructs) == [point |-> point, mask |-> mask, constructs |-> constructs, aborts |-> TRUE]
PluginConfigs == {
    [plugins |-> <<PluginOf(2, {"up", "auth"}, TRUE), PluginOf(2, {"auth", "connect"}, FALSE)>>, server |-> TRUE],
    [plugins |-> <<PluginOf(4, {"up", "auth"}, TRUE), PluginOf(1, {"auth"}, TRUE)>>, server |-> TRUE],
    [plugins |-> <<PluginOf(3, {"up"}, TRUE)>>, server |-> FALSE]}
PlugIns == INSTANCE Plugins WITH
    Instances <- {"c1", "c2"}, MaxRestarts <- 1, MaxContexts <- 6, Configs <- PluginConfigs,
    cfg <- y1, phase <- y2, plug <- y3, lists <- y4, ctx <- y5, live <- y6, made <- y7, verdict <- y8,
    aborted <- y9, restarts <- y10

-----------------------------------------------------------------------------
Proxied(conns, client, server, closers) ==
    [conns |-> conns, bytes |-> [e \in {"c", "s"} |-> IF e = "c" THEN client ELSE server], closers |-> closers]
ShareConfigs == {Proxied({1}, 4, 1, {}), Proxied({1}, 2, 2, {"close"}), Proxied({1}, 1, 0, {"abort", "killed"}),
                 Proxied({1, 2}, 1, 0, {})}
Share == INSTANCE PortShare WITH
    BufSize <- 2, MaxTransfer <- 3, Room <- 1, QueueLen <- 2, Configs <- ShareConfigs,
    cfg <- y1, foreground <- y2, background <- y3, control <- y4, pair <- y5, rwflags <- y6, buf <- y7, net <- y8,
    esr <- y9, journal <- y10

-----------------------------------------------------------------------------
Method(method, fast, want, limit) == [method |-> method, fast |-> fast, want |-> want, limit |-> limit]
EventConfigs == {
    Method("we", TRUE, 4, 8), Method("we", FALSE, 4, 8), Method("we", FALSE, 3, 3), Method("po", TRUE, 4, 0),
    Method("po", FALSE, 4, 0), Method("po", FALSE, 1, 0), Method("ep", FALSE, 4, 0), Method("ep", FALSE, 1, 0),
    Method("se", TRUE, 4, 4), Method("se", FALSE, 4, 4), Method("se", FALSE, 4, 1)}
Events == INSTANCE EventSet WITH
    Fds <- {0, 1}, Rooms <- {1, 4}, Configs <- EventConfigs,
    Entries <- Timers, Null <- None, MaxTime <- 3, MaxPri <- 3, Sigma <- 1,
    cfg <- y1, list <- y2, rfds <- y3, wfds <- y4, args <- y5, maxfd <- y6, asked <- y7, owner <- y8, phase <- y9,
    t <- y10, earliest <- y11

-----------------------------------------------------------------------------
Idle == "idle"
PoolIdle == pcfg = Idle /\ list = Idle /\ pmi = Idle /\ file = Idle /\ now = Idle /\ crashed = Idle
RoutesIdle == rcfg = Idle /\ rm = Idle
ConnectIdle == setup = Idle /\ cmi = Idle /\ n_clients = Idle /\ last = Idle
ClientsIdle == ecfg = Idle /\ em = Idle /\ io = Idle
Idle11 == y11 = Idle
Idle10 == y10 = Idle /\ Idle11
Idle1 == /\ y1 = Idle /\ y2 = Idle /\ y3 = Idle /\ y4 = Idle /\ y5 = Idle /\ y6 = Idle
         /\ y7 = Idle /\ y8 = Idle /\ y9 = Idle
OthersIdle == Idle1 /\ Idle10
TablesIdle == PoolIdle /\ RoutesIdle /\ ConnectIdle /\ ClientsIdle

tables == <<pool, routes, connect, clients>>
Same10 == UNCHANGED <<tables, y10, y11>>
Same1 == UNCHANGED <<tables, y1, y2, y3, y4, y5, y6, y7, y8, y9>>

MCInit ==
    \/ part = "pool" /\ Pool!Init /\ RoutesIdle /\ ConnectIdle /\ ClientsIdle /\ OthersIdle
    \/ part = "routes" /\ Routes!Init /\ PoolIdle /\ ConnectIdle /\ ClientsIdle /\ OthersIdle
    \/ part = "connect" /\ Connect!Init /\ PoolIdle /\ RoutesIdle /\ ClientsIdle /\ OthersIdle
    \/ part = "clients" /\ Clients!Init /\ PoolIdle /\ RoutesIdle /\ ConnectIdle /\ OthersIdle
    \/ part = "verify" /\ Verification!Init /\ TablesIdle
    \/ part = "plugins" /\ PlugIns!Init /\ TablesIdle /\ Idle11
    \/ part = "share" /\ Share!Init /\ TablesIdle /\ Idle11
    \/ part = "events" /\ Events!Init /\ TablesIdle /\ Idle10
    \/ part = "timers" /\ Events!TimersInit /\ TablesIdle /\ Idle1

MCNext ==
    /\ UNCHANGED part
    /\ \/ part = "pool" /\ Pool!Next /\ UNCHANGED <<routes, connect, clients, others>>
       \/ part = "routes" /\ Routes!Next /\ UNCHANGED <<pool, connect, clients, others>>
       \/ part = "connect" /\ Connect!Next /\ UNCHANGED <<pool, routes, clients, others>>
       \/ part = "clients" /\ Clients!Next /\ UNCHANGED <<pool, routes, connect, others>>
       \/ part = "verify" /\ Verification!Next /\ UNCHANGED tables
       \/ part = "plugins" /\ PlugIns!Next /\ UNCHANGED <<tables, y11>>
       \/ part = "share" /\ Share!Next /\ UNCHANGED <<tables, y11>>
       \/ part = "events" /\ Events!Next /\ Same10
       \/ part = "timers" /\ Events!TimersNext /\ Same1

MCSpec == MCInit /\ [][MCNext]_<<part, tables, others>>

Symmetry == Permutations(Slots) \cup Permutations(Addrs) \cup Permutations(Certs)

-----------------------------------------------------------------------------
\* Every part's state has its type: handles stay within the pool, the reaper
\* within its table, the queue of packets within --bcast-buffers, and n_clients
\* counts the decided clients.
ServerTypeOK ==
    CASE part = "pool" -> Pool!TypeOK
      [] part = "routes" -> Routes!TypeOK
      [] part = "connect" -> Connect!TypeOK
      [] part = "clients" -> Clients!TypeOK
      [] part = "verify" -> Verification!TypeOK
      [] part = "plugins" -> PlugIns!TypeOK
      [] part = "share" -> Share!TypeOK
      [] part = "events" -> Events!TypeOK
      [] part = "timers" -> Events!TimersTypeOK

\* Each address in use belongs to exactly one open client
\* (ifconfig_pool_acquire, ifconfig_pool_release and their callers), a fixed
\* entry of a read-only persist file goes to nobody else, without a crash no
\* two entries remember one name, and a restart that opens the persist file
\* again keeps every association.
AddressesAreExclusive ==
    /\ [](part = "pool" => Pool!AddressesAreExclusive /\ Pool!FixedIsReserved /\ Pool!NamesAreUnique)
    /\ [][part = "pool" => Pool!RestartKeepsAddresses]_<<part, pool>>

\* The reference counts of instances are the routes that hold them
\* (multi_learn_addr, multi_route_del, multi_close_instance, the reaper), no
\* client has more of them than --max-routes-per-client allows or is routed
\* to by an address other than its own and its iroutes, and, as long as
\* --stale-routes-check does not age networks out behind it, the cache of host
\* routes never changes where a packet goes.
RoutesAreExact ==
    part = "routes" =>
        Routes!RefcountsAreExact /\ Routes!QuotaHolds /\ Routes!LongestPrefixWins /\ Routes!OnlyOwnAddresses

\* A client is connected only after each handler has accepted or passed, on a
\* verdict of its own: the files of a deferred handler go when it is done.
\* The client-disconnect script runs once for a connected client, at most
\* once for any; it is missed for one that is closed while its new session
\* waits to be set up (CAS_RECONNECT_PENDING).
ConnectedByAll ==
    part = "connect" => Connect!ConnectedByAll /\ Connect!FilesBelongToDeferral /\ Connect!OneDisconnect

\* The tables by address, by peer-id and by client id agree, and without
\* --duplicate-cn no two clients of one name are up; the event loop keeps no
\* pointer to a closed instance, and none of its assertions fails, but for the
\* one of mbuf_add_item.
TablesAgree ==
    part = "clients" =>
        Clients!TablesAgree /\ Clients!OneClientPerName /\ Clients!NoDanglingPointers /\ Clients!AssertsHold

\* No output is forgotten when the event loop goes to sleep, and no packet is
\* dropped because another client had output.
NothingLeftBehind == part = "clients" => Clients!NothingLeftBehind

\* A key is trusted only when each method has approved its user and its
\* certificate, for this key, with the name the session is locked to; files of a
\* deferred verdict belong to a key that waits for it, an auth-token is accepted
\* only within its lifetime and renewal time and for the user it was made for
\* (verify_user_pass, verify_cert, verify_auth_token); a certificate revoked in a
\* CRL file is refused if the file has a list of its issuer and --ca is in use,
\* because verify_callback ignores the library's finding otherwise. No veto of a plug-in is lost, and no plug-in is called
\* with a context that is closed (plugin_call_ssl).
PeersAreApproved ==
    /\ [](part = "verify" => Verification!TrustedIsApproved /\ Verification!FilesHaveOwners)
    /\ [][part = "verify" => Verification!TokenInTime]_<<part, others>>
    /\ [](part = "plugins" => PlugIns!ContextsAreLive /\ PlugIns!NoVetoIsLost)

\* What the port-share proxy forwards arrives whole and in order in both
\* directions, no event is handled for an entry that was freed, and no side sleeps
\* on data it could move (proxy_entry_dispatch and its event set).
ForwardedIntact == part = "share" => Share!StreamsIntact /\ Share!EntriesAreLive /\ Share!NoLostWakeup

\* The event loop waits for exactly what it was asked to wait for: every method of
\* event.c returns the events that are ready of the descriptors asked for, with
\* the argument of their owner, and the timer that schedule_get_earliest_wakeup
\* caches is the earliest of a search tree whose priorities are a heap.
WakeupsAreExact ==
    /\ part = "events" => Events!InterestIsAsked /\ Events!WaitIsExact
    /\ part = "timers" => Events!TreeIsTreap /\ Events!EarliestIsFirst

-----------------------------------------------------------------------------
\* "reload pool data from file": also a SIGUSR1 restart remembers the names.
NamesSurviveRestarts == [][part = "pool" => Pool!RestartReloads]_<<part, pool>>

\* --client-disconnect runs only after a client-connect function succeeded.
DisconnectAfterConnect == part = "connect" => Connect!DisconnectAfterConnect

\* A full queue has an item mbuf_add_item can drop.
MbufHasRoom == part = "clients" => Clients!MbufHasRoom
=============================================================================
