----------------------------- MODULE HostRoutes -----------------------------
(***************************************************************************)
(* The routes OpenVPN puts into the host's routing table (route.c): the    *)
(* list made from --route and --redirect-gateway when the tunnel opens, its *)
(* installation, and its removal when the tunnel closes.  With             *)
(* --persist-tun a restart, also one that goes to another server, leaves   *)
(* the tunnel and the list alone.                                          *)
(*                                                                         *)
(* The kernel's table maps a prefix to the gateway of its route.  Prefixes *)
(* are names; Covers gives the ones that contain an address, the most      *)
(* specific first.                                                         *)
(***************************************************************************)
EXTENDS Naturals, Sequences

CONSTANTS
    Configs,     \* [platform, v6, flags, endpoint, routes, persist_tun, servers, table,
                 \*  other_family: the server has an address of the other family]
    MaxChanges,  \* bound: changes other programs make to the table
    MaxTunnels   \* bound: openings of the tunnel and reconnections

VARIABLES
    cfg,
    table,       \* the kernel's routing table
    users,       \* what the table would be without OpenVPN
    server,      \* address of the server in use
    tun,         \* the tunnel is open
    rl,          \* route_list or route_ipv6_list
    ok,          \* result of the last add_routes
    clash,       \* prefixes that existed when OpenVPN wanted them for itself
    changes, tunnels

vars == <<cfg, table, users, server, tun, rl, ok, clash, changes, tunnels>>

Servers == {"A", "B", "L"}     \* L is in the subnet of the host
Prefixes == Servers \cup {"default", "low", "high", "lan", "lanlow", "lanhigh", "gw", "net"}

Covers(a) ==
    CASE a \in {"A", "B"} -> <<a, "low", "default">>
      [] a = "L" -> <<a, "lanhigh", "lan", "low", "default">>
      [] a = "gw" -> <<a, "lanlow", "lan", "low", "default">>
      [] a = "far" -> <<"high", "default">>
      [] a = "any" -> <<"default">>

\* The gateway packets to an address go to; "link" is the local interface.
Lookup(t, a) ==
    LET routes == SelectSeq(Covers(a), LAMBDA p : t[p] # "none")
    IN  IF routes = <<>> THEN "none" ELSE t[Head(routes)]

-----------------------------------------------------------------------------
(* The route list.                                                         *)

\* get_default_gateway, get_default_gateway_ipv6
get_default_gateway(t, dest) ==
    [addr |-> Lookup(t, dest), defined |-> Lookup(t, dest) # "none",
     on_link |-> Lookup(t, dest) = "link", netmask |-> Lookup(t, dest) = "gw"]

NoGateway == [addr |-> "none", defined |-> FALSE, on_link |-> FALSE, netmask |-> FALSE]

clear_route_list ==
    [flags |-> {}, endpoint |-> FALSE, remote |-> "none", rgi |-> NoGateway, bypass |-> {},
     routes |-> <<>>, installed |-> {}, routes_added |-> FALSE, did_local |-> FALSE,
     did_redirect |-> FALSE]

\* The names a --route may give its gateway, and the gateway of a route; "none" if
\* it is not known, and then there is no route.
get_special_addr(name, ngi, remote) ==
    CASE name = "vpn_gateway" -> IF cfg.endpoint THEN "vpn" ELSE "none"
      [] name = "net_gateway" -> ngi.addr
      [] name = "remote_host" -> remote

init_route(gateway, ngi, remote) ==
    IF gateway = "default" THEN IF cfg.endpoint THEN "vpn" ELSE "none"
    ELSE get_special_addr(gateway, ngi, remote)

\* block_local_needed: the server is reached through a gateway of known subnet
block_local_needed(rgi) ==
    "block_local" \in cfg.flags /\ rgi.defined /\ rgi.netmask /\ cfg.endpoint

BlockLocal == << [dst |-> "lanhigh", gw |-> "vpn"], [dst |-> "lanlow", gw |-> "vpn"] >>

\* init_route_list: every route is put before the ones already there.
init_route_list(t, remote) ==
    LET rgi == get_default_gateway(t, IF remote = "none" THEN "any" ELSE remote)
        ngi == get_default_gateway(t, "any")
        blocked == "enable" \in cfg.flags /\ block_local_needed(rgi)
        wanted == [i \in DOMAIN cfg.routes |->
                      [dst |-> cfg.routes[i].dst,
                       gw |-> init_route(cfg.routes[i].gw, ngi, remote)]]
        parsed == SelectSeq(wanted, LAMBDA r : r.gw # "none")
    IN  [clear_route_list EXCEPT
            !.flags = cfg.flags, !.endpoint = cfg.endpoint, !.remote = remote, !.rgi = rgi,
            !.bypass = IF blocked THEN {"gw"} ELSE {},
            !.routes = parsed \o (IF blocked THEN BlockLocal ELSE <<>>)]

\* init_route_ipv6_list: a host route to the server comes first if one of the
\* routes contains the server and the way to it is known.  The redirection of the gateway
\* is made of routes (do_init_route_ipv6_list): low stands for the prefixes of global
\* addresses, high for the one of local addresses.
Overlaps(r, remote) ==
    remote # "none" /\ \E i \in DOMAIN Covers(remote) : r.dst = Covers(remote)[i]

init_route_ipv6_list(t, remote) ==
    LET rgi == get_default_gateway(t, IF remote = "none" THEN "any" ELSE remote)
        vpn == [i \in DOMAIN cfg.routes |-> [dst |-> cfg.routes[i].dst, gw |-> "vpn"]]
        redirected == IF "reroute" \in cfg.flags
                      THEN << [dst |-> "low", gw |-> "vpn"], [dst |-> "high", gw |-> "vpn"] >>
                      ELSE <<>>
        all == redirected \o vpn
        host == IF (\E i \in DOMAIN all : Overlaps(all[i], remote)) /\ rgi.defined
                THEN << [dst |-> remote, gw |-> rgi.addr] >> ELSE <<>>
    IN  [clear_route_list EXCEPT !.flags = cfg.flags, !.endpoint = cfg.endpoint, !.remote = remote,
                                 !.rgi = rgi, !.routes = host \o all]

-----------------------------------------------------------------------------
(* One route.                                                              *)

\* What each system says of a route that exists: netlink, the IP helper API and the
\* interactive service tell it from an error; the route command of the other systems,
\* and route.exe, do not.  Where Windows is adaptive, route.exe has a second try.
Taken(t, r) == t[r.dst] # "none"

sitnl_route_add(t, r) == IF Taken(t, r) THEN "eexist" ELSE "success"
add_route_ipapi(t, r) == IF Taken(t, r) THEN "eexist" ELSE "success"
route_ipv6_ipapi(t, r) == IF Taken(t, r) THEN "eexist" ELSE "success"
do_route_service(t, r) == IF Taken(t, r) THEN "eexist" ELSE "success"
route_command(t, r) == IF Taken(t, r) THEN "error" ELSE "success"
route6_command(t, r) == IF Taken(t, r) THEN "error" ELSE "success"

add_route_status(t, r, fails) ==
    CASE r.dst \in fails -> "error"
      [] r.dst \notin fails /\ cfg.platform = "netlink" -> sitnl_route_add(t, r)
      [] r.dst \notin fails /\ cfg.platform = "ipapi" ->
            IF cfg.v6 THEN route_ipv6_ipapi(t, r) ELSE add_route_ipapi(t, r)
      [] r.dst \notin fails /\ cfg.platform = "service" -> do_route_service(t, r)
      [] OTHER -> IF cfg.v6 THEN route6_command(t, r) ELSE route_command(t, r)

\* delete_route takes the route only with the gateway it names; a gateway of 0.0.0.0,
\* which is what the on-link gateway is, names every gateway.
delete_route_ipv4(t, r) ==
    IF t[r.dst] = r.gw \/ r.gw = "link" THEN [t EXCEPT ![r.dst] = "none"] ELSE t

delete_route_ipv6(t, r) == IF t[r.dst] = r.gw THEN [t EXCEPT ![r.dst] = "none"] ELSE t

delete_route(t, r) == IF cfg.v6 THEN delete_route_ipv6(t, r) ELSE delete_route_ipv4(t, r)

RECURSIVE deletes(_, _)
deletes(t, rs) == IF rs = <<>> THEN t ELSE deletes(delete_route(t, Head(rs)), Tail(rs))

\* add_route for a sequence of routes: what comes out is the table, the routes that
\* were added (RT_ADDED), the prefixes that existed and whether all went well.
\* A route that exists is no error.
Outcome(t) == [t |-> t, added |-> {}, exists |-> {}, ret |-> TRUE]

add_route(o, r, fails) ==
    LET status == add_route_status(o.t, r, fails)
    IN  [t |-> IF status = "success" THEN [o.t EXCEPT ![r.dst] = r.gw] ELSE o.t,
         added |-> IF status = "success" THEN o.added \cup {r} ELSE o.added \ {r},
         exists |-> IF status = "eexist" THEN o.exists \cup {r.dst} ELSE o.exists,
         ret |-> o.ret /\ status # "error"]

RECURSIVE adds(_, _, _)
adds(o, rs, fails) ==
    IF rs = <<>> THEN o ELSE adds(add_route(o, Head(rs), fails), Tail(rs), fails)

-----------------------------------------------------------------------------
(* --redirect-gateway.                                                     *)

Host(l) == [dst |-> l.remote, gw |-> l.rgi.addr]
Bypass(l) == IF l.bypass = {} THEN <<>> ELSE << [dst |-> "gw", gw |-> l.rgi.addr] >>
Halves == << [dst |-> "low", gw |-> "vpn"], [dst |-> "high", gw |-> "vpn"] >>
OldDefault(l) == [dst |-> "default", gw |-> l.rgi.addr]
NewDefault == [dst |-> "default", gw |-> "vpn"]

\* A server of the other family needs no default gateway here.
CannotRedirect(l) ==
    \/ ~l.endpoint /\ "reroute" \in l.flags
    \/ ~l.rgi.defined /\ "local" \notin l.flags /\ l.remote # "none"

\* Mutant: the first half is enough.
Reroute_Half(o, l, fails) ==
    IF "reroute" \notin l.flags THEN o
    ELSE IF "def1" \in l.flags THEN add_route(o, Halves[1], fails)
    ELSE adds([o EXCEPT !.t = IF l.rgi.defined THEN delete_route(@, OldDefault(l)) ELSE @],
              <<NewDefault>>, fails)

\* The default route itself is replaced, or overridden by two halves (def1).
Reroute(o, l, fails) ==
    IF "reroute" \notin l.flags THEN o
    ELSE IF "def1" \in l.flags THEN adds(o, Halves, fails)
    ELSE adds([o EXCEPT !.t = IF l.rgi.defined THEN delete_route(@, OldDefault(l)) ELSE @],
              <<NewDefault>>, fails)

\* The server is in the host's own subnet: the user says so, or with autolocal
\* test_local_addr does, which is there on Windows only.
Local(l) ==
    IF "autolocal" \in l.flags /\ cfg.platform \in {"ipapi", "service"} /\ l.remote # "none"
    THEN l.remote = "L" ELSE "local" \in l.flags

\* The host route to the server; a route that exists counts, as it does everywhere.
NeedsHostRoute(l) == ~Local(l) /\ l.remote # "none"

HostRoute(o, l, fails) == IF NeedsHostRoute(l) THEN add_route(o, Host(l), fails) ELSE o

redirect_default_route_to_vpn(o, l, fails) ==
    IF "enable" \notin l.flags THEN <<o, l>>
    ELSE IF CannotRedirect(l) THEN <<[o EXCEPT !.ret = FALSE], l>>
    ELSE LET host == HostRoute(o, l, fails)
         IN  << Reroute(adds(host, Bypass(l), fails), l, fails),
                [l EXCEPT !.did_local = @ \/ (NeedsHostRoute(l) /\ host.ret),
                          !.did_redirect = TRUE] >>

\* Mutant: the host route to the server stays.
undo_redirect_default_route_to_vpn_KeepsHost(t, l) ==
    IF ~l.did_redirect \/ "reroute" \notin l.flags THEN t
    ELSE IF "def1" \in l.flags THEN deletes(deletes(t, Bypass(l)), Halves)
    ELSE LET t3 == delete_route(deletes(t, Bypass(l)), NewDefault)
         IN  IF l.rgi.defined THEN add_route(Outcome(t3), OldDefault(l), {}).t ELSE t3

undo_redirect_default_route_to_vpn(t, l) ==
    IF ~l.did_redirect THEN t
    ELSE LET t1 == IF l.did_local THEN delete_route(t, Host(l)) ELSE t
             t2 == deletes(t1, Bypass(l))
         IN  IF "reroute" \notin l.flags THEN t2
             ELSE IF "def1" \in l.flags THEN deletes(t2, Halves)
             ELSE LET t3 == delete_route(t2, NewDefault)
                  IN  IF l.rgi.defined
                      THEN add_route(Outcome(t3), OldDefault(l), {}).t ELSE t3

\* add_routes: the list is installed once, the redirection whenever it is called.
add_routes(t, l, fails) ==
    LET r == redirect_default_route_to_vpn(Outcome(t), l, fails)
        o == adds([r[1] EXCEPT !.added = {}, !.exists = {}], l.routes, fails)
    IN  IF l.routes_added THEN r
        ELSE << [o EXCEPT !.exists = r[1].exists],
                [r[2] EXCEPT !.routes_added = TRUE, !.installed = o.added] >>

\* delete_routes_v4, delete_routes_v6: the routes that were added, in the order of
\* the list, then the redirection.
delete_routes(t, l) ==
    LET mine == SelectSeq(l.routes, LAMBDA r : r \in l.installed)
        t1 == IF l.routes_added THEN deletes(t, mine) ELSE t
    IN  undo_redirect_default_route_to_vpn(t1, l)

-----------------------------------------------------------------------------

Init ==
    /\ cfg \in Configs
    /\ table = [p \in Prefixes |-> IF p \in DOMAIN cfg.table THEN cfg.table[p] ELSE "none"]
    /\ users = table
    /\ server \in cfg.servers
    /\ tun = FALSE
    /\ rl = clear_route_list
    /\ ok = TRUE
    /\ clash = {}
    /\ changes = 0 /\ tunnels = 0

\* do_open_tun with do_init_route_list or do_init_route_ipv6_list, and do_route.
open_tun(fails) ==
    /\ ~tun /\ tunnels < MaxTunnels
    /\ LET remote == IF cfg.other_family THEN "none" ELSE server
           l == IF cfg.v6 THEN init_route_ipv6_list(table, remote)
                ELSE init_route_list(table, remote)
           a == add_routes(table, l, fails)
       IN  /\ table' = a[1].t
           /\ rl' = a[2]
           /\ ok' = a[1].ret
           /\ clash' = clash \cup a[1].exists
    /\ tun' = TRUE
    /\ tunnels' = tunnels + 1
    /\ UNCHANGED <<cfg, users, server, changes>>

\* do_close_tun
close_tun ==
    /\ tun
    /\ table' = delete_routes(table, rl)
    /\ rl' = clear_route_list
    /\ tun' = FALSE /\ ok' = TRUE
    /\ UNCHANGED <<cfg, users, server, clash, changes, tunnels>>

\* The next connection entry or address after a restart.
Reconnect(s) ==
    /\ tun => cfg.persist_tun
    /\ s # server /\ tunnels < MaxTunnels
    /\ server' = s
    /\ tunnels' = tunnels + 1
    /\ UNCHANGED <<cfg, table, users, tun, rl, ok, clash, changes>>

\* Another program changes the default route, as when the host moves.
Roam ==
    /\ changes < MaxChanges /\ users["default"] = "gw"
    /\ users' = [users EXCEPT !["default"] = "gw2"]
    /\ table' = [table EXCEPT !["default"] = "gw2"]
    /\ changes' = changes + 1
    /\ UNCHANGED <<cfg, server, tun, rl, ok, clash, tunnels>>

Next ==
    \/ \E fails \in SUBSET {"default", "low", "gw", "lanlow", "net", server} : open_tun(fails)
    \/ close_tun
    \/ \E s \in cfg.servers : Reconnect(s)
    \/ Roam

Spec == Init /\ [][Next]_vars

-----------------------------------------------------------------------------

TypeOK ==
    /\ cfg \in Configs
    /\ \A p \in Prefixes : table[p] \in {"none", "gw", "gw2", "link", "vpn"} \cup Servers
    /\ server \in cfg.servers /\ tun \in BOOLEAN /\ ok \in BOOLEAN
    /\ clash \subseteq Prefixes
    /\ rl.installed \subseteq {rl.routes[i] : i \in DOMAIN rl.routes}

ReplacedForLocal ==
    "L" \in cfg.servers /\ "reroute" \in cfg.flags /\ "def1" \notin cfg.flags /\ ~cfg.v6

\* --redirect-gateway: "When the tunnel is torn down, all of the above steps are
\* reversed so that the original default route is restored."  With the tunnel closed
\* the table is what the user made it, and nothing leads into the tunnel, with two
\* exceptions.  A route that was there when OpenVPN wanted it is not told from its own, and
\* may be gone.  A default route replaced for a server in the host's own subnet comes back
\* without its gateway.
RoutesRestored ==
    ~tun => \A p \in Prefixes :
        \/ table[p] = users[p]
        \/ p \in clash /\ table[p] = "none"
        \/ p = "default" /\ ReplacedForLocal /\ table[p] = "link"

\* If adding the routes succeeded, the packets of the tunnel itself do not go into
\* the tunnel; the one exception is a tunnel with the default route redirected that a
\* restart kept for another server.  --redirect-gateway block-local leaves the gateway
\* reachable.
NoRoutingLoop ==
    tun /\ ok /\ ~cfg.other_family =>
        /\ Lookup(table, server) # "vpn" \/ (server # rl.remote /\ "reroute" \in rl.flags)
        /\ rl.bypass # {} => Lookup(table, "gw") # "vpn"

\* With --redirect-gateway, everything else does go into the tunnel, in both halves of the
\* addresses and for both families (of IPv6, what the prefixes cover), as long as
\* no other program takes over the default route that was replaced.
EverythingRedirected ==
    (tun /\ ok /\ "reroute" \in rl.flags /\ (changes = 0 \/ "def1" \in rl.flags \/ cfg.v6)) =>
        \A p \in {"A", "B", "far"} \ {rl.remote} :
            Lookup([q \in Prefixes |-> IF q = p THEN "none" ELSE table[q]], p) = "vpn"
=============================================================================
