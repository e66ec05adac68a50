----------------------------- MODULE LinkSocket -----------------------------
(***************************************************************************)
(* How the link socket comes to be, for every connection attempt: the      *)
(* names are resolved (phase 1, and again in phase 2), the descriptors are *)
(* created, set up and bound, a TCP client connects, and a proxy is asked  *)
(* to pass the stream through (link_socket_init_phase1 and _phase2,        *)
(* openvpn_getaddrinfo, proxy.c, socks.c), or the driver of dco-win makes  *)
(* the connection and the handle of its device stands for the socket       *)
(* (create_socket_dco_win).                                                *)
(*                                                                         *)
(* Descriptors and address lists are numbered; what getaddrinfo, connect   *)
(* and the proxy answer is chosen freely.  A signal may arrive wherever    *)
(* the code looks for one.                                                 *)
(***************************************************************************)
EXTENDS Naturals, Sequences

CONSTANTS
    Configs,      \* [proto, mode, af, proxy, remote, bind, mark, resolve_retry, preresolve,
                  \*  persist, auth, auth_retry, dco : "no", or on Windows "p2p" or "server"]
    MaxAttempts,  \* bound: connection attempts
    MaxRetries,   \* bound: proxy retries before --connect-timeout
    MaxTries      \* bound: lookups of one name, --resolv-retry in steps of 5 seconds

VARIABLES
    cfg,
    pc,           \* where the connection attempt is
    back,         \* where a lookup returns to
    tries,        \* resolve_retries of openvpn_getaddrinfo
    sock,         \* sd and ctrl_sd with their settings; tun: the handle of c1.tuntap (dco-win)
    open,         \* descriptors that are open; 1 is the listener of a TCP server's child
    made,         \* number of descriptors made so far
    lsa,          \* link_socket_addr: remote_list, bind_local, actual;
                  \* kept: remote_list is from the attempt before
    cache,        \* dns_cache: the lists held for the server and for the proxy, or 0
    lists,        \* every address list made: whose it is, and how often it was freed
    sig,          \* c->sig; a SIGUSR1 of the program itself is SOFT
    saved,        \* sig_save
    hp,           \* http_proxy_info: auth_method, proxy_authenticate, credentials sent, retries
    attempts

vars == <<cfg, pc, back, tries, sock, open, made, lsa, cache, lists, sig, saved, hp, attempts>>
conn == <<sock, open, made>>
addrs == <<lsa, cache, lists>>
env == <<cfg, attempts>>

Undefined == [fd |-> 0, marked |-> FALSE, bound |-> FALSE, nonblock |-> FALSE]
NoAddrs == [remote_list |-> 0, bind_local |-> 0, actual |-> FALSE, kept |-> FALSE]
NoCache == [server |-> 0, proxy |-> 0]
http_proxy_new == [auth_method |-> cfg.auth, challenge |-> FALSE, sent |-> {}, retries |-> 0]

Child == cfg.mode = "accept_from"
SocksUdp == cfg.proto = "udp" /\ cfg.proxy = "socks"
\* A TCP server always binds, except the child that takes a connection over.
bind_local == IF cfg.proto = "tcp-server" THEN ~Child ELSE cfg.bind

link_socket_new ==
    [sd |-> IF Child THEN [Undefined EXCEPT !.fd = 1] ELSE Undefined, ctrl |-> Undefined, tun |-> 0]

Init ==
    /\ cfg \in Configs
    /\ pc = "preresolve" /\ back = "none" /\ tries = 0
    /\ sock = link_socket_new
    /\ open = IF Child THEN {1} ELSE {}
    /\ made = 1
    /\ lsa = NoAddrs /\ cache = NoCache /\ lists = <<>>
    /\ sig = "none" /\ saved = "none"
    /\ hp = http_proxy_new
    /\ attempts = 1

\* register_signal, throw_signal: a signal gives way to one that matters more.
Priority(s) == CASE s = "TERM" -> 3 [] s = "HUP" -> 2 [] s \in {"USR1", "SOFT"} -> 1 [] OTHER -> 0
register_signal(s, t) == IF Priority(t) >= Priority(s) THEN t ELSE s

-----------------------------------------------------------------------------
(* Names.                                                                  *)

NewList == Len(lists) + 1
ListOf(name) == [of |-> name, frees |-> 0]
Freed(ls) == [l \in DOMAIN lists |-> IF l \in ls THEN [lists[l] EXCEPT !.frees = @ + 1] ELSE lists[l]]

\* remote_host: the proxy, until a SOCKS proxy has answered a UDP client.
remote_host ==
    IF cfg.proxy = "none" \/ pc = "resolve3" \/ (pc = "lookup" /\ back = "flags")
    THEN "server" ELSE "proxy"

\* do_preresolve: before the first attempt, and again after SIGHUP.  The server is looked up
\* unless an HTTP proxy does so, and a proxy as well.
Preresolved ==
    CASE cfg.proxy = "none" -> <<"server">> [] cfg.proxy = "http" -> <<"proxy">>
      [] OTHER -> <<"server", "proxy">>

do_preresolve(ok) ==
    /\ pc = "preresolve"
    /\ pc' = IF cfg.preresolve /\ ~ok THEN "running" ELSE "phase1"
    /\ sig' = IF cfg.preresolve /\ ~ok THEN register_signal(sig, "HUP") ELSE sig
    /\ IF cfg.preresolve /\ ok
       THEN /\ lists' = lists \o [i \in DOMAIN Preresolved |-> ListOf(Preresolved[i])]
            /\ cache' = [name \in {"server", "proxy"} |->
                           IF \E i \in DOMAIN Preresolved : Preresolved[i] = name
                           THEN Len(lists) + CHOOSE i \in DOMAIN Preresolved : Preresolved[i] = name
                           ELSE 0]
       ELSE UNCHANGED <<cache, lists>>
    /\ UNCHANGED <<env, back, tries, conn, lsa, saved, hp>>

\* resolve_bind_local: a local address that does not resolve ends the program.
resolve_bind_local ==
    /\ pc = "phase1"
    /\ IF bind_local /\ lsa.bind_local = 0
       THEN /\ lists' = Append(lists, ListOf("local"))
            /\ lsa' = [lsa EXCEPT !.bind_local = NewList]
       ELSE UNCHANGED <<lists, lsa>>
    /\ pc' = IF Child THEN "phase2" ELSE "resolve1"
    /\ UNCHANGED <<env, back, tries, conn, cache, sig, saved, hp>>

\* An entry of the cache has no address family: it serves lookups without one.
get_cached_dns_entry == IF cfg.af = "unspec" THEN cache[remote_host] ELSE 0

\* The actual address is kept if there is one.
SetActual(l) == [l EXCEPT !.actual = @ \/ l.remote_list # 0]

\* Lookups: how often openvpn_getaddrinfo asks.  Phase 1 asks once and, unless
\* --resolv-retry is 0, lets phase 2 ask again.
resolve_retries(phase) ==
    CASE phase = 1 -> 0
      [] phase = 2 /\ cfg.resolve_retry = "infinite" -> 1
      [] OTHER -> MaxTries

resolve_remote(phase, next) ==
    /\ IF lsa.remote_list = 0 /\ cfg.remote
       THEN IF get_cached_dns_entry # 0
            THEN /\ lsa' = SetActual([lsa EXCEPT !.remote_list = get_cached_dns_entry])
                 /\ pc' = next /\ UNCHANGED <<tries, back>>
            ELSE /\ tries' = resolve_retries(phase)
                 /\ pc' = "lookup" /\ back' = next
                 /\ UNCHANGED lsa
       ELSE lsa' = SetActual(lsa) /\ pc' = next /\ UNCHANGED <<tries, back>>
    /\ UNCHANGED <<env, conn, cache, lists, sig, saved, hp>>

Resolve ==
    \/ pc = "resolve1" /\ resolve_remote(1, "phase2")
    \/ pc = "resolve2" /\ resolve_remote(2, "create")
    \/ pc = "resolve3" /\ resolve_remote(1, "flags")

\* Phase 1 proper passes no signal_info.  Where there is one, SIGUSR1 is ignored
\* during a lookup and any other signal turns its success into failure.  A name
\* that fails is fatal in phase 1 without --resolv-retry, otherwise SIGUSR1.
sees_signals == back # "phase2"
Interrupted == sees_signals /\ sig \in {"HUP", "TERM"}
AfterUsr1 == IF sees_signals /\ sig \in {"USR1", "SOFT"} THEN "none" ELSE sig

openvpn_getaddrinfo(ok) ==
    /\ pc = "lookup"
    /\ CASE Interrupted ->
            pc' = back /\ UNCHANGED <<lists, lsa, tries, sig>>
         [] ok /\ ~Interrupted ->
            /\ lists' = Append(lists, ListOf(remote_host))
            /\ lsa' = SetActual([lsa EXCEPT !.remote_list = NewList])
            /\ sig' = AfterUsr1
            /\ pc' = back /\ UNCHANGED tries
         [] ~ok /\ ~Interrupted /\ tries > 1 ->
            tries' = tries - 1 /\ sig' = AfterUsr1 /\ UNCHANGED <<pc, lists, lsa>>
         [] OTHER ->
            /\ pc' = IF tries = 0 /\ cfg.resolve_retry = "0" THEN "exit" ELSE back
            /\ sig' = IF sees_signals THEN "SOFT" ELSE sig
            /\ UNCHANGED <<lists, lsa, tries>>
    /\ UNCHANGED <<env, back, conn, cache, saved, hp>>

-----------------------------------------------------------------------------
(* link_socket_init_phase2.                                                *)

\* A pending signal is put aside.
link_socket_init_phase2 ==
    /\ pc = "phase2"
    /\ saved' = sig /\ sig' = "none"
    /\ pc' = "resolve2"
    /\ UNCHANGED <<env, back, tries, conn, addrs, hp>>

\* create_socket with mark and local address.  A UDP socket behind a SOCKS proxy
\* has a control connection; it is the one that is bound, and only sd is marked.
create_socket ==
    /\ pc = "create" /\ cfg.dco = "no"
    /\ IF lsa.remote_list # 0 \/ (sock.sd.fd = 0 /\ bind_local /\ ~cfg.remote)
       THEN /\ sock' = [sd |-> [fd |-> made + 1, marked |-> cfg.mark,
                                bound |-> bind_local /\ ~SocksUdp, nonblock |-> FALSE],
                        ctrl |-> IF SocksUdp
                                 THEN [Undefined EXCEPT !.fd = made + 2, !.bound = bind_local]
                                 ELSE Undefined,
                        tun |-> 0]
            /\ made' = made + (IF SocksUdp THEN 2 ELSE 1)
            /\ open' = open \cup (made + 1 .. made')
            /\ sig' = sig
       ELSE /\ sig' = IF sock.sd.fd = 0 THEN register_signal(sig, "SOFT") ELSE sig
            /\ UNCHANGED conn
    /\ pc' = IF sig' # "none" THEN "done" ELSE "connect"
    /\ UNCHANGED <<env, back, tries, addrs, saved, hp>>

\* create_socket_dco_win: the device is opened unless it is there from the attempt before,
\* the driver binds (a server) or connects to the remote (a client needs one), and the
\* handle of the device becomes the socket.  A client waits for the driver until it fails
\* or a signal comes.
create_socket_dco_win(ok) ==
    /\ pc = "create" /\ cfg.dco # "no"
    /\ IF cfg.dco = "p2p" /\ lsa.remote_list = 0 THEN UNCHANGED <<conn, sig>>
       ELSE LET tun == IF sock.tun = 0 THEN made + 1 ELSE sock.tun IN
            /\ made' = IF sock.tun = 0 THEN made + 1 ELSE made
            /\ open' = open \cup {tun}
            /\ sig' = IF cfg.dco = "p2p" /\ ~ok /\ sig = "none" THEN "SOFT" ELSE sig
            /\ sock' = [sock EXCEPT !.tun = tun, !.sd.fd = IF sig' = "none" THEN tun ELSE @]
    /\ pc' = "done"
    /\ UNCHANGED <<env, back, tries, addrs, saved, hp>>

\* phase2_tcp_server.  The accepted connection takes the place of the listening
\* socket, which only a child leaves open: it belongs to the parent.
NewConnection(closes) ==
    /\ made' = made + 1
    /\ open' = (open \cup {made + 1}) \ closes
    /\ sock' = [sock EXCEPT !.sd = [@ EXCEPT !.fd = made + 1, !.nonblock = FALSE]]

phase2_tcp_server(ok) ==
    /\ pc = "connect" /\ cfg.proto = "tcp-server"
    /\ \/ /\ cfg.mode = "default"
          /\ IF sig # "none" THEN pc' = "flags" /\ UNCHANGED conn
             ELSE ok /\ NewConnection({sock.sd.fd}) /\ pc' = "flags"
          /\ UNCHANGED sig
       \/ cfg.mode = "listen" /\ pc' = "flags" /\ UNCHANGED <<conn, sig>>
       \/ /\ Child
          /\ IF ok THEN NewConnection({}) /\ UNCHANGED sig
             ELSE /\ sock' = [sock EXCEPT !.sd = Undefined]
                  /\ sig' = register_signal(sig, "TERM")
                  /\ UNCHANGED <<open, made>>
          /\ pc' = "flags"
    /\ UNCHANGED <<env, back, tries, addrs, saved, hp>>

NoConnection ==
    /\ pc = "connect" /\ cfg.proto = "udp" /\ cfg.proxy = "none"
    /\ pc' = "flags"
    /\ UNCHANGED <<env, back, tries, conn, addrs, sig, saved, hp>>

\* socket_connect: the descriptor of a failed connection is closed, that of an
\* interrupted one is left to link_socket_close.
socket_connect(ok) ==
    /\ pc = "connect" /\ (cfg.proto = "tcp-client" \/ SocksUdp)
    /\ IF ok \/ sig # "none" THEN UNCHANGED <<conn, sig>>
       ELSE /\ IF SocksUdp
               THEN open' = open \ {sock.ctrl.fd} /\ sock' = [sock EXCEPT !.ctrl = Undefined]
               ELSE open' = open \ {sock.sd.fd} /\ sock' = [sock EXCEPT !.sd = Undefined]
            /\ sig' = "SOFT"
            /\ UNCHANGED made
    /\ pc' = IF sig' = "none" /\ cfg.proxy # "none" THEN "proxy" ELSE "flags"
    /\ UNCHANGED <<env, back, tries, addrs, saved, hp>>

ProxyError == sig' = register_signal(sig, "SOFT") /\ pc' = "flags"

\* Mutant: the connection on which the proxy asked for credentials stays open.
ProxyRetry_Leaks ==
    /\ made' = made + 1
    /\ open' = open \cup {made + 1}
    /\ sock' = [sock EXCEPT !.sd = [Undefined EXCEPT !.fd = made + 1]]
    /\ pc' = "connect"

\* The end of the loop of phase2_tcp_client: a new connection for a new method.
\* It is made by create_socket_tcp alone.
ProxyRetry ==
    /\ made' = made + 1
    /\ open' = (open \cup {made + 1}) \ {sock.sd.fd}
    /\ sock' = [sock EXCEPT !.sd = [Undefined EXCEPT !.fd = made + 1]]
    /\ pc' = "connect"

\* What a request carries.  Digest is used once the proxy has sent a challenge.
Credentials == IF hp.auth_method = "none" THEN {} ELSE {hp.auth_method}

\* Whether the method the proxy asks for is tried: --http-proxy with auto or
\* auto-nct, the latter never with the password in the clear.
RetryWith(method) ==
    /\ cfg.auth_retry # "no"
    /\ method # "none"
    /\ ~(cfg.auth_retry = "nct" /\ method = "basic")

\* establish_http_proxy_passthru: the proxy answers 200, 407 or something else, or
\* not in time, and with 407 names a method.
establish_http_proxy_passthru(status, method) ==
    /\ pc = "proxy" /\ cfg.proxy = "http"
    /\ CASE sig = "none" /\ status = "200" ->
            /\ pc' = "flags"
            /\ hp' = [hp EXCEPT !.sent = @ \cup Credentials]
            /\ UNCHANGED <<sig, conn>>
         [] sig = "none" /\ status = "407" /\ RetryWith(method) /\ hp.retries < MaxRetries ->
            /\ hp' = [hp EXCEPT !.sent = @ \cup Credentials, !.auth_method = method,
                                !.challenge = TRUE, !.retries = @ + 1]
            /\ ProxyRetry /\ UNCHANGED sig
         [] OTHER ->
            /\ ProxyError
            /\ hp' = [hp EXCEPT !.sent = @ \cup Credentials]
            /\ UNCHANGED conn
    /\ UNCHANGED <<env, back, tries, addrs, saved>>

\* establish_socks_proxy_passthru, or phase2_socks_client with
\* establish_socks_proxy_udpassoc: the name of the server takes the place of the
\* name of the proxy.  The list of the proxy is freed, also one of the cache.
establish_socks_proxy(ok) ==
    /\ pc = "proxy" /\ cfg.proxy = "socks"
    /\ IF ~ok \/ sig # "none" THEN ProxyError /\ UNCHANGED <<lsa, lists>>
       ELSE IF SocksUdp
       THEN /\ lists' = Freed({lsa.remote_list})
            /\ lsa' = [lsa EXCEPT !.remote_list = 0, !.actual = FALSE, !.kept = FALSE]
            /\ pc' = "resolve3" /\ UNCHANGED sig
       ELSE pc' = "flags" /\ UNCHANGED <<lsa, lists, sig>>
    /\ UNCHANGED <<env, back, tries, conn, cache, saved, hp>>

\* phase2_set_socket_flags, unless a signal came; the signal put aside is back.
RestoreSignal == IF saved # "none" THEN register_signal(sig, saved) ELSE sig

phase2_set_socket_flags ==
    /\ pc \in {"flags", "done"}
    /\ sock' = IF pc = "flags" /\ sig = "none"
               THEN [sock EXCEPT !.sd.nonblock = TRUE] ELSE sock
    /\ sig' = RestoreSignal /\ saved' = "none"
    /\ pc' = "running"
    /\ UNCHANGED <<env, back, tries, open, made, addrs, hp>>

-----------------------------------------------------------------------------
(* The end of an attempt, and signals.                                     *)

\* A child has a signal_info of its own, which no handler writes to.
Signal(s) ==
    /\ ~Child
    /\ Priority(s) > Priority(sig) /\ pc \notin {"exit", "end"}
    /\ sig' = s
    /\ UNCHANGED <<env, pc, back, tries, conn, addrs, saved, hp>>

\* The resolved remote is kept for another attempt on SIGUSR1 with --persist-remote-ip, or
\* when the program itself restarts and has more addresses to try (or must not advance).
KeepsRemote(more) ==
    /\ lsa.remote_list # 0 /\ sig \in {"USR1", "SOFT"}
    /\ cfg.persist \/ (sig = "SOFT" /\ more)
KeepsActual == sig \in {"USR1", "SOFT"} /\ cfg.persist

\* The lists that are freed: those of the socket, except with --preresolve, and those of the
\* cache with the context, before the next do_preresolve.
FreedLists(more) ==
    (IF cfg.preresolve THEN {}
     ELSE (IF KeepsRemote(more) THEN {} ELSE {lsa.remote_list})
          \cup (IF KeepsActual THEN {} ELSE {lsa.bind_local}))
    \cup (IF sig \in {"HUP", "TERM"} THEN {cache.server, cache.proxy} ELSE {})

\* do_close_link_socket, then do_close_tun for the handle of dco-win, which --persist-tun
\* keeps over SIGUSR1 once the tunnel was up.
do_close_link_socket(more, up) ==
    /\ pc = "running" /\ sig # "none" /\ ~Child
    /\ sig = "TERM" \/ attempts < MaxAttempts
    /\ LET keeps == cfg.persist /\ up /\ sock.sd.fd # 0 /\ sig \in {"USR1", "SOFT"}
           tun == IF keeps THEN sock.tun ELSE 0 IN
       /\ open' = open \ ({sock.sd.fd, sock.ctrl.fd, sock.tun} \ {tun})
       /\ sock' = [link_socket_new EXCEPT !.tun = tun]
    /\ lists' = Freed(FreedLists(more))
    /\ lsa' = [remote_list |-> IF KeepsRemote(more) THEN lsa.remote_list ELSE 0,
               bind_local |-> IF KeepsActual THEN lsa.bind_local ELSE 0,
               actual |-> KeepsActual /\ lsa.actual, kept |-> KeepsRemote(more)]
    /\ cache' = IF sig \in {"HUP", "TERM"} THEN NoCache ELSE cache
    /\ hp' = http_proxy_new
    /\ sig' = "none"
    /\ attempts' = IF sig = "TERM" THEN attempts ELSE attempts + 1
    /\ pc' = CASE sig = "TERM" -> "end" [] sig = "HUP" -> "preresolve" [] OTHER -> "phase1"
    /\ UNCHANGED <<cfg, back, tries, made, saved>>

\* A child is closed with its client; its listener is the parent's.
CloseChild ==
    /\ pc = "running" /\ Child /\ attempts < MaxAttempts
    /\ open' = open \ {sock.sd.fd}
    /\ sock' = link_socket_new
    /\ sig' = "none" /\ pc' = "phase1" /\ attempts' = attempts + 1
    /\ UNCHANGED <<cfg, back, tries, made, addrs, saved, hp>>

Next ==
    \/ \E ok \in BOOLEAN :
        \/ do_preresolve(ok) \/ openvpn_getaddrinfo(ok) \/ phase2_tcp_server(ok)
        \/ socket_connect(ok) \/ establish_socks_proxy(ok) \/ create_socket_dco_win(ok)
    \/ resolve_bind_local \/ Resolve \/ link_socket_init_phase2 \/ create_socket \/ NoConnection
    \/ \E status \in {"200", "407", "other"}, method \in {"none", "basic", "digest"} :
        establish_http_proxy_passthru(status, method)
    \/ phase2_set_socket_flags
    \/ \E s \in {"USR1", "HUP", "TERM"} : Signal(s)
    \/ \E more, up \in BOOLEAN : do_close_link_socket(more, up)
    \/ CloseChild

Spec == Init /\ [][Next]_vars

-----------------------------------------------------------------------------

TypeOK ==
    /\ cfg \in Configs
    /\ pc \in {"preresolve", "phase1", "resolve1", "lookup", "phase2", "resolve2", "create",
               "connect", "proxy", "resolve3", "flags", "running", "exit", "end"} \cup {"done"}
    /\ tries \in 0..MaxTries
    /\ open \subseteq 1..made
    /\ \A l \in {lsa.remote_list, lsa.bind_local, cache.server, cache.proxy} : l \in 0..Len(lists)
    /\ {sig, saved} \subseteq {"none", "USR1", "SOFT", "HUP", "TERM"}
    /\ attempts \in 1..MaxAttempts

\* Every open descriptor is one of the socket's, so that link_socket_close gets
\* it, or the handle of the device; the socket never refers to a closed one; and the
\* listener of a TCP server outlives every child, also one whose accept failed.
DescriptorsHeld ==
    /\ open \ {1} = {sock.sd.fd, sock.ctrl.fd, sock.tun} \ {0, 1}
    /\ Child => 1 \in open

\* A UDP association through a SOCKS proxy frees the list of the proxy, which with
\* --preresolve is the one of the cache.
CachedListFreed == SocksUdp /\ cfg.preresolve

\* The addresses the socket is about to use are live, and no list is freed twice.  The one
\* exception is the list of the proxy that CachedListFreed is about.
AddressesAreLive ==
    \A l \in DOMAIN lists : ~(CachedListFreed /\ lists[l].of = "proxy") =>
        /\ l \in {lsa.remote_list, lsa.bind_local, cache.server, cache.proxy} => lists[l].frees = 0
        /\ lists[l].frees <= 1

\* Without --preresolve, a list nobody refers to has been freed.
NoListLost ==
    ~cfg.preresolve =>
        \A l \in DOMAIN lists \ {lsa.remote_list, lsa.bind_local} : lists[l].frees > 0

\* Where a proxy is set, the connection goes to an address of the proxy, except after a
\* restart that keeps the addresses a UDP client has got through a SOCKS proxy: these are the
\* server's.
ThroughTheProxy ==
    pc = "connect" /\ cfg.proxy # "none" =>
        lists[lsa.remote_list].of = "proxy" \/ (SocksUdp /\ lsa.kept)

\* A SIGTERM that arrives during a connection attempt is still there at its end.
SigtermKept ==
    sig = "TERM" \/ saved = "TERM" =>
        sig' = "TERM" \/ saved' = "TERM" \/ pc' \in {"end", "exit"} \/ Child

\* --http-proxy auto-nct: a password never goes to the proxy in the clear, unless
\* the user asked for the Basic method.
NoCleartext ==
    "basic" \in hp.sent => cfg.auth = "basic" \/ cfg.auth_retry = "all"

=============================================================================
