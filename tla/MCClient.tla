------------------------------ MODULE MCClient -------------------------------
(***************************************************************************)
(* The parts of a client, and of what surrounds it on its host, for TLC:   *)
(* the life cycle of the process, its event loop and timers, its list of   *)
(* remotes, the options that are read, pushed and checked, the sockets and *)
(* the streams over TCP, the tun device, the host's routes and name        *)
(* servers, overlapped I/O and the interactive service on Windows, the     *)
(* helpers plug-ins fork and the management interface.  part says which    *)
(* one a behaviour is about.  The parts share the variables cfg and x1 to  *)
(* x13: each uses the first ones, and the others are idle.                 *)
(***************************************************************************)
EXTENDS Integers, Sequences

CONSTANT Undef   \* an option that is not given

VARIABLES part, cfg, x1, x2, x3, x4, x5, x6, x7, x8, x9, x10, x11, x12, x13

Idle == "idle"

-----------------------------------------------------------------------------
LifeBase == [server |-> FALSE, pull |-> TRUE, up_delay |-> FALSE, persist_tun |-> TRUE,
             up_restart |-> FALSE, route_delay |-> FALSE, exit_notify |-> FALSE,
             remap |-> "none", stdin |-> FALSE]
LifeConfigs ==
    {LifeBase,
    [LifeBase EXCEPT !.exit_notify = TRUE, !.persist_tun = FALSE, !.remap = "SIGHUP", !.route_delay = TRUE],
    [LifeBase EXCEPT !.pull = FALSE, !.up_delay = TRUE, !.up_restart = TRUE, !.stdin = TRUE, !.remap = "SIGTERM"],
    [LifeBase EXCEPT !.pull = FALSE, !.route_delay = TRUE],
    [LifeBase EXCEPT !.server = TRUE, !.pull = FALSE],
    [LifeBase EXCEPT !.server = TRUE, !.pull = FALSE, !.exit_notify = TRUE]}
Life == INSTANCE Lifecycle WITH
    Pulled <- {"a", "b"},
    Configs <- LifeConfigs,
    pc <- x1, sig <- x2, sig_save <- x3, mode <- x4, c1 <- x5, c2 <- x6, up <- x7, ending <- x8

-----------------------------------------------------------------------------
RemotesBase == [len |-> 3, disabled |-> {1}, persist_remote_ip |-> FALSE, query |-> FALSE, retry_max |-> 0]
RemotesConfigs ==
    {RemotesBase,
    [RemotesBase EXCEPT !.disabled = {}, !.retry_max = 1],
    [RemotesBase EXCEPT !.len = 2, !.disabled = {}, !.query = TRUE],
    [RemotesBase EXCEPT !.persist_remote_ip = TRUE],
    [RemotesBase EXCEPT !.retry_max = 2]}
Remotes == INSTANCE ConnectionList WITH
    Addresses <- 2, MaxSkip <- 2,
    Configs <- RemotesConfigs,
    pc <- x1, o <- x2, lsa <- x3, sig <- x4, n_cycles <- x5, owner <- x6, tries <- x7

-----------------------------------------------------------------------------
Opt(flag, type, value, len) == [flag |-> flag, type |-> type, value |-> value, len |-> len]
Accept == [t \in {"route", "dns", "redirect", "mtu", "cipher"} |-> "accept"]
PullConfigs ==
    {
    [common |-> <<Opt("", "route", 1, 2), Opt("", "route", 2, 2), Opt("", "dns", 1, 3)>>,
     client |-> <<Opt("", "mtu", 1, 2), Opt("", "cipher", 1, 2)>>,
     updates |-> {<<Opt("", "route", 3, 3), Opt("", "dns", 2, 2), Opt("", "route", 4, 3)>>,
                  <<Opt("-", "route", 0, 2), Opt("", "mtu", 2, 2), Opt("", "route", 1, 2), Opt("", "dns", 3, 2)>>,
                  <<Opt("", "cipher", 2, 2)>>},
     pull_filter |-> Accept, request_push |-> FALSE],
    [common |-> <<Opt("", "redirect", 1, 2), Opt("", "dns", 1, 2)>>,
     client |-> <<Opt("", "mtu", 1, 2)>>,
     updates |-> {<<Opt("?", "mtu", 2, 2), Opt("", "route", 3, 2)>>,
                  <<Opt("?", "dns", 2, 2), Opt("?", "cipher", 2, 2), Opt("", "redirect", 2, 2)>>,
                  <<Opt("", "redirect", 3, 3), Opt("", "route", 3, 3), Opt("", "route", 4, 3)>>,
                  <<Opt("-", "redirect", 0, 2)>>},
     pull_filter |-> [Accept EXCEPT !["dns"] = "ignore"], request_push |-> TRUE],
    [common |-> <<>>,
     client |-> <<>>,
     updates |-> {<<Opt("", "route", 3, 2), Opt("?", "dns", 1, 2), Opt("", "mtu", 1, 2)>>,
                  <<Opt("", "redirect", 1, 3), Opt("", "route", 3, 3)>>,
                  <<Opt("", "dns", 2, 3)>>},
     pull_filter |-> [Accept EXCEPT !["dns"] = "reject"], request_push |-> TRUE]}
Pull == INSTANCE PushPull WITH
    SafeCap <- 8, MaxRequests <- 1, MaxReplies <- 1, MaxUpdates <- 2, MaxRestarts <- 1,
    Configs <- PullConfigs,
    server <- x1, requests <- x2, replies <- x3, client <- x4, restart <- x5, n <- x6, want <- x7

-----------------------------------------------------------------------------
Opts == INSTANCE Options WITH
    MaxConnections <- 2, MaxUpdates <- 1,
    opt <- cfg, nopull <- x1, phase <- x2, conn <- x3, field <- x4, pre_connect <- x5, found <- x6, updates <- x7, own <- x8

-----------------------------------------------------------------------------
Entry == [remote |-> Undef, proto |-> "udp", lport |-> FALSE, bind |-> FALSE, bind_local |-> TRUE,
          socks |-> FALSE, http |-> FALSE, fragment |-> FALSE, disabled |-> FALSE, ipv4only |-> FALSE,
          tun_mtu |-> FALSE, link_mtu |-> FALSE, keys |-> {}, exit_notify |-> TRUE,
          port |-> "1194", local_port |-> "1194"]
Block == [Entry EXCEPT !.remote = "h3", !.proto = "tcp", !.keys = {"auth"}]
Comp(alg, flags) == [alg |-> alg, flags |-> flags]
CheckBase == [platform |-> "linux", dev |-> "tun", mode |-> "p2p", topology |-> "undef", opts |-> {"dco"},
              server |-> Undef, bridge |-> Undef, keepalive |-> [ping |-> 0, timeout |-> 0], ping |-> Undef,
              pushed_ping |-> Undef, local |-> Undef, peer |-> Undef, pool |-> Undef, usage |-> FALSE,
              compat |-> 0, tlsmin |-> 0, tlsmax |-> 0, cipher |-> Undef, ciphers |-> {}, comp |-> Comp("undef", {}),
              blocks |-> <<>>, remotes |-> <<>>, ce |-> Entry, locals |-> <<>>, conns |-> <<>>, keys |-> {},
              proto_force |-> Undef, missing |-> {}, ifconfig |-> Undef, ifconfig_peer |-> Undef]
ClientConfig == [CheckBase EXCEPT !.opts = {"dco", "client", "ca", "cert", "key"}, !.keys = {"crypt"},
    !.remotes = <<[remote |-> "h1", proto |-> Undef], [remote |-> "h2", proto |-> "tcp-client"]>>]
ServerConfig == [CheckBase EXCEPT !.opts = {"dco", "ca", "cert", "key"},
    !.server = [network |-> 64, netbits |-> 28], !.keepalive = [ping |-> 10, timeout |-> 60]]
BridgeConfig == [CheckBase EXCEPT !.dev = "tap", !.opts = {"pkcs12"},
    !.bridge = [ip |-> 4, netbits |-> 24, start |-> 128, end |-> 254, dhcp |-> FALSE]]
StaticConfig == [CheckBase EXCEPT !.opts = {"secret", "allow_static"}, !.ifconfig = "a1", !.ifconfig_peer = "a2"]

Flags == {"client", "pull", "secret", "tls_client", "tls_server", "nopool", "pool", "server6", "auth_user_pass",
          "cert", "key", "pkcs12", "pkcs11", "ext_key", "ext_cert", "management", "client_cert_none", "script",
          "ccd_exclusive", "gen_token", "no_reneg", "port_share", "lladdr", "fingerprint", "proxy_override",
          "route_delay", "afunix", "vlan", "connect_freq", "crl_verify", "dh", "short_reneg", "nocomp", "ip_win32"}
Values ==
    {<<"dev", d>> : d \in {"tap", "null"}} \cup {<<"topology", t>> : t \in {"net30", "p2p"}}
    \cup {<<"platform", p>> : p \in {"windows", "freebsd"}}
    \cup {<<"mode", "server">>, <<"cipher", "cbc">>, <<"ciphers", {"gcm", "cbc"}>>,
          <<"ciphers", {"gcm", "odd"}>>, <<"proto_force", "udp">>, <<"keys", {"auth", "crypt"}>>,
          <<"keys", {"crypt", "v2"}>>, <<"missing", {"crypt"}>>, <<"missing", {"key"}>>, <<"tlsmax", 11>>,
          <<"compat", 20300>>, <<"keepalive", [ping |-> 10, timeout |-> 19]>>,
          <<"locals", <<[addr |-> "a3", port |-> Undef, proto |-> Undef],
                        [addr |-> "a4", port |-> Undef, proto |-> "tcp"]>> >>,
          <<"remotes", <<>> >>, <<"remotes", <<[remote |-> "h4", proto |-> "tcp"]>> >>,
          <<"blocks", <<Block, [Block EXCEPT !.proto = "udp", !.fragment = TRUE]>> >>}
    \cup {<<"comp", c>> : c \in {Comp("lzo", {}), Comp("stub", {}), Comp("lzo", {"stub_only", "advertise_stubs"}),
                                 Comp("stub-v2", {"advertise_stubs"}), Comp("undef", {"asym"})}}
    \cup {<<"locals", <<[addr |-> "h1", port |-> n, proto |-> Undef]>> >> : n \in {Undef, "1195"}}
    \cup {<<"ce", e>> : e \in {[Entry EXCEPT !.proto = "tcp"], [Entry EXCEPT !.bind_local = FALSE],
                               [Entry EXCEPT !.socks = TRUE]}}
    \cup {<<"server", s>> : s \in {[network |-> 64, netbits |-> 29], [network |-> 64, netbits |-> 30],
                                   [network |-> 65, netbits |-> 28], [network |-> 0, netbits |-> 16]}}
    \cup {<<"bridge", [ip |-> 4, netbits |-> 24, start |-> 200, end |-> 300, dhcp |-> FALSE]>>,
          <<"bridge", [ip |-> 4, netbits |-> 24, start |-> 1, end |-> 0, dhcp |-> TRUE]>>}
Given(c, v) == [k \in DOMAIN c |-> IF k = v[1] THEN v[2] ELSE c[k]]
OneChange(c) ==
    {c} \cup {[c EXCEPT !.opts = @ \cup {f}] : f \in Flags}
        \cup {[c EXCEPT !.opts = @ \ {f}] : f \in {"cert", "ca", "allow_static"}}
        \cup {Given(c, v) : v \in Values}

CheckConfigs ==
    UNION {OneChange(d) : d \in OneChange(ClientConfig) \cup OneChange(ServerConfig)}
           \cup OneChange(BridgeConfig) \cup OneChange(StaticConfig)
Checks == INSTANCE OptionsVerify WITH
    DcoCiphers <- {"gcm", "chacha"}, PoolMax <- 65536,
    Configs <- CheckConfigs,
    o <- cfg, pc <- x1

-----------------------------------------------------------------------------
DnsServer(prio, src, plain) == [prio |-> prio, src |-> src, plain |-> plain]
Reply(servers, dhcp, bad) == [servers |-> servers, dhcp |-> dhcp, bad |-> bad]
DnsBase == [win |-> FALSE, up |-> FALSE, runner |-> FALSE, persist |-> FALSE, cmd |-> "default", static |-> <<>>,
            updates |-> {},
            replies |-> {Reply(<<DnsServer(1, "a", TRUE)>>, <<>>, FALSE), Reply(<<>>, <<"h", "i">>, FALSE),
                         Reply(<<DnsServer(2, "b", FALSE), DnsServer(0, "c", TRUE)>>, <<"h">>, FALSE),
                         Reply(<<>>, <<>>, FALSE), Reply(<<DnsServer(1, "a", TRUE)>>, <<>>, TRUE)}]
DnsUpdates == {[option |-> "dns", servers |-> <<DnsServer(1, "u", TRUE)>>, dhcp |-> <<>>],
               [option |-> "dns", servers |-> <<>>, dhcp |-> <<>>],
               [option |-> "dhcp", servers |-> <<>>, dhcp |-> <<"n">>]}
DnsConfigs ==
    {[DnsBase EXCEPT !.cmd = c, !.up = u, !.persist = p, !.static = s, !.runner = r] :
                c \in {"none", "default", "user", "forced"}, u \in BOOLEAN, p \in BOOLEAN, r \in BOOLEAN,
                s \in {<<>>, <<DnsServer(1, "s", TRUE), DnsServer(3, "t", FALSE)>>}}
           \cup {[DnsBase EXCEPT !.win = TRUE, !.cmd = "none", !.persist = p, !.static = s,
                !.updates = DnsUpdates] : p \in BOOLEAN, s \in {<<>>, <<DnsServer(2, "s", TRUE)>>}}
           \cup {[DnsBase EXCEPT !.cmd = c, !.up = u, !.persist = TRUE, !.static = s, !.updates = DnsUpdates] :
                c \in {"default", "user"}, u \in BOOLEAN, s \in {<<>>, <<DnsServer(2, "s", TRUE)>>}}
NameServers == INSTANCE Dns WITH
    MaxConnections <- 3, MaxUpdates <- 1,
    Configs <- DnsConfigs,
    st <- x1, dns <- x2, env <- x3, idx <- x4, tun <- x5, runner <- x6, host <- x7, last <- x8, wanted <- x9,
    conns <- x10, upds <- x11, updated <- x12, orphan <- x13

-----------------------------------------------------------------------------
LinkBase == [proto |-> "udp", mode |-> "default", af |-> "unspec", proxy |-> "none", remote |-> TRUE,
             bind |-> FALSE, mark |-> TRUE, resolve_retry |-> "infinite", preresolve |-> FALSE,
             persist |-> FALSE, auth |-> "none", auth_retry |-> "no", dco |-> "no"]
TcpClient == [LinkBase EXCEPT !.proto = "tcp-client"]
TcpServer == [LinkBase EXCEPT !.proto = "tcp-server", !.remote = FALSE]
LinkConfigs ==
    {
    [LinkBase EXCEPT !.bind = TRUE, !.preresolve = TRUE],
    [LinkBase EXCEPT !.proxy = "socks", !.bind = TRUE, !.persist = TRUE],
    [LinkBase EXCEPT !.proxy = "socks", !.preresolve = TRUE],
    [LinkBase EXCEPT !.dco = "p2p", !.persist = TRUE],
    [LinkBase EXCEPT !.dco = "server", !.remote = FALSE, !.bind = TRUE],
    [TcpClient EXCEPT !.proxy = "http", !.auth_retry = "nct"],
    [TcpClient EXCEPT !.proxy = "http", !.auth = "basic", !.auth_retry = "all", !.resolve_retry = "seconds"],
    [TcpClient EXCEPT !.proxy = "socks", !.resolve_retry = "0", !.af = "inet", !.preresolve = TRUE],
    TcpServer,
    [TcpServer EXCEPT !.mode = "listen"],
    [TcpServer EXCEPT !.mode = "accept_from"]}
Link == INSTANCE LinkSocket WITH
    MaxAttempts <- 2, MaxRetries <- 1, MaxTries <- 2,
    Configs <- LinkConfigs,
    pc <- x1, back <- x2, tries <- x3, sock <- x4, open <- x5, made <- x6, lsa <- x7, cache <- x8, lists <- x9,
    sig <- x10, saved <- x11, hp <- x12, attempts <- x13

-----------------------------------------------------------------------------
RoutesBase == [platform |-> "netlink", v6 |-> FALSE, flags |-> {}, endpoint |-> TRUE,
               routes |-> <<[dst |-> "net", gw |-> "default"]>>, persist_tun |-> FALSE, servers |-> {"A"},
               other_family |-> FALSE, table |-> [default |-> "gw", lan |-> "link"]]
Redirect == {"enable", "reroute"}
RoutesConfigs ==
    {
    [RoutesBase EXCEPT !.flags = Redirect \cup {"def1"}, !.persist_tun = TRUE, !.servers = {"A", "B"}],
    [RoutesBase EXCEPT !.flags = Redirect, !.servers = {"A", "L"}],
    [RoutesBase EXCEPT !.flags = Redirect \cup {"def1", "block_local"}, !.servers = {"A", "L"}],
    [RoutesBase EXCEPT !.flags = Redirect \cup {"def1", "local"}, !.servers = {"L"}],
    [RoutesBase EXCEPT !.flags = {"enable"}, !.platform = "command",
        !.routes = <<[dst |-> "net", gw |-> "net_gateway"], [dst |-> "high", gw |-> "vpn_gateway"]>>],
    [RoutesBase EXCEPT !.flags = Redirect \cup {"def1"}, !.table = [default |-> "gw", lan |-> "link", A |-> "gw"]],
    [RoutesBase EXCEPT !.flags = Redirect, !.table = [lan |-> "link"], !.servers = {"L"}],
    [RoutesBase EXCEPT !.flags = Redirect, !.endpoint = FALSE],
    [RoutesBase EXCEPT !.flags = Redirect \cup {"def1", "autolocal"}, !.platform = "ipapi", !.servers = {"A", "L"}],
    [RoutesBase EXCEPT !.flags = Redirect, !.other_family = TRUE, !.table = [lan |-> "link"]],
    [RoutesBase EXCEPT !.v6 = TRUE, !.flags = {"reroute"}, !.servers = {"A", "L"}],
    [RoutesBase EXCEPT !.v6 = TRUE, !.table = [default |-> "gw", lan |-> "link", A |-> "gw"],
        !.routes = <<[dst |-> "low", gw |-> "default"], [dst |-> "net", gw |-> "default"]>>]}
Routes == INSTANCE HostRoutes WITH
    MaxChanges <- 1, MaxTunnels <- 3,
    Configs <- RoutesConfigs,
    table <- x1, users <- x2, server <- x3, tun <- x4, rl <- x5, ok <- x6, clash <- x7, changes <- x8, tunnels <- x9

-----------------------------------------------------------------------------
TunBase == [os |-> "linux", driver |-> "tun", type |-> "tun", topology |-> "subnet", v4 |-> TRUE, v6 |-> TRUE,
            noexec |-> FALSE, dev |-> "dynamic", exists |-> {}, busy |-> {}, adapters |-> <<>>, service |-> FALSE,
            ip_win32 |-> "none", services |-> {}, persist_tun |-> FALSE]
Unix == {[TunBase EXCEPT !.os = os, !.type = t, !.dev = d, !.exists = e, !.topology = top] :
            os \in {"linux", "freebsd", "openbsd", "netbsd", "dragonfly", "darwin", "aix", "solaris"},
            t \in {"tun", "tap"}, d \in {"dynamic", "tun0"}, e \in {{}, {"tun0"}}, top \in {"subnet", "net30"}}
OtherTuns ==
    {[TunBase EXCEPT !.os = os, !.driver = "dco", !.dev = d, !.exists = e] :
        os \in {"linux", "freebsd"}, d \in {"dynamic", "tun0"}, e \in {{}, {"tun0"}}}
    \cup {[TunBase EXCEPT !.os = "android", !.persist_tun = p] : p \in BOOLEAN}
    \cup {[TunBase EXCEPT !.driver = d, !.persist_tun = p] : d \in {"afunix", "null"}, p \in BOOLEAN}
    \cup {[TunBase EXCEPT !.noexec = TRUE], [TunBase EXCEPT !.busy = {"tun0"}, !.exists = {"tun0"}, !.dev = "tun0"]}
Adapter(driver, busy) == [driver |-> driver, busy |-> busy]
Windows ==
    {[TunBase EXCEPT !.os = "windows", !.driver = "tap", !.ip_win32 = w, !.service = s, !.v4 = v4, !.v6 = v6,
                     !.adapters = <<Adapter("dco", FALSE), Adapter("tap", TRUE), Adapter("tap", FALSE)>>,
                     !.services = {"dns4", "dns6", "wins", "domain"}] :
        w \in {"manual", "netsh", "ipapi", "dhcp", "adaptive"}, s \in BOOLEAN, v4 \in BOOLEAN, v6 \in BOOLEAN}
    \cup {[TunBase EXCEPT !.os = "windows", !.driver = "tap", !.ip_win32 = "netsh", !.service = s,
                          !.adapters = <<Adapter("dco", FALSE), Adapter("tap", TRUE)>>] : s \in BOOLEAN}
TunConfigs ==
    Unix \cup OtherTuns \cup Windows
Device == INSTANCE Tun WITH
    MaxOpens <- 2, TryNetsh <- 2, MaxCreate <- 2, Configs <- TunConfigs,
    pc <- x1, tt <- x2, ifs <- x3, net <- x4, open <- x5, children <- x6, adapters <- x7, opens <- x8

-----------------------------------------------------------------------------
WinIo == INSTANCE WinIo WITH
    Kinds <- {"socket", "tun", "dco", "socket out", "tun out"}, MaxPackets <- 3, MaxErrors <- 2,
    kind <- cfg, io <- x1, os <- x2, done <- x3, n <- x4

-----------------------------------------------------------------------------
Pipes == {"t1", "t2", "t3"}
Message(type) == [type |-> type]
About(type, what) == [type |-> type, what |-> what]
DnsMessage(type, family, addrs, domains) == [type |-> type, family |-> family, addrs |-> addrs, domains |-> domains]
Nrpt(type, split, domains) == [type |-> type, split |-> split, domains |-> domains]
Users == [service : BOOLEAN, token : {{}, {"Users"}, {"Administrators"}}, member : {{}, {"OpenVPN Administrators"}}]
User == [user |-> [service |-> FALSE, token |-> {}, member |-> {}], argv |-> <<"--verb", "--config", "inside">>]
Interface(connected, domains, v4, v6) == [connected |-> connected, domains |-> domains, v4 |-> v4, v6 |-> v6]
Lans == <<Interface(TRUE, "some", TRUE, "none"), Interface(FALSE, "some", TRUE, "none"),
          Interface(TRUE, "pushed", TRUE, "static"), Interface(TRUE, "some", FALSE, "dhcp"),
          Interface(TRUE, "some", FALSE, "static"), Interface(TRUE, "none", TRUE, "none")>>
ServiceBase == [threads |-> {"t1"}, list |-> "system", original |-> <<"c">>,
                domains |-> [t \in Pipes |-> IF t = "t1" THEN <<"a", "b">> ELSE <<"d", "e", "f", "g">>],
                msgs |-> {}, itfs |-> <<>>, startups |-> {User}]
SearchLists == {[ServiceBase EXCEPT !.list = l, !.original = IF l = "itf" THEN <<>> ELSE <<"c">>] :
                   l \in {"gpol", "system", "itf"}}
ServiceConfigs ==
    {[ServiceBase EXCEPT !.msgs = {About(t, "x") : t \in {"add_address", "del_address", "add_route", "del_route"}}
                                  \cup {Message("register_dns")}],
     [ServiceBase EXCEPT !.msgs = {Message("add_wfp_block"), Message("del_wfp_block"),
                                   Message("add_wins_cfg"), Message("del_wins_cfg")}],
     [ServiceBase EXCEPT !.startups = {[user |-> u, argv |-> a] : u \in Users,
         a \in {<<>>, <<"inside">>, <<"outside">>, <<"--config", "inside">>, <<"--config", "outside">>,
                <<"--verb", "3", "--plugin", "x">>, <<"--log", "x", "--config", "outside">>}}],
     [ServiceBase EXCEPT !.threads = Pipes],
     [ServiceBase EXCEPT !.threads = {"t1", "t2"},
                         !.msgs = {DnsMessage("add_dns_cfg", "dns4", FALSE, TRUE)}]}
    \cup {[b EXCEPT !.msgs = {DnsMessage("add_dns_cfg", "dns4", a, d) : a \in BOOLEAN, d \in BOOLEAN}
                             \cup {DnsMessage("del_dns_cfg", "dns4", FALSE, d) : d \in BOOLEAN}
                             \cup {DnsMessage("add_dns_cfg", "dns6", TRUE, FALSE)}] : b \in SearchLists}
    \cup {[b EXCEPT !.itfs = Lans,
                    !.msgs = {Nrpt("add_nrpt_cfg", s, d) : s \in BOOLEAN, d \in BOOLEAN}
                             \cup {Nrpt("del_nrpt_cfg", FALSE, FALSE)}] : b \in {c \in SearchLists : c.list # "system"}}
Service == INSTANCE WinService WITH
    MAXIMUM_WAIT_OBJECTS <- 3, MaxExcludes <- 2, MaxMessages <- 3, MaxClients <- 3, MaxCrashes <- 1,
    Configs <- ServiceConfigs,
    svc <- x1, thr <- x2, undo <- x3, host <- x4, reg <- x5, n <- x6

-----------------------------------------------------------------------------
HelperBase == [kind |-> "pam", deferred |-> FALSE, kill |-> FALSE, daemon |-> FALSE, calls |-> 3]
HelperConfigs ==
    {HelperBase, [HelperBase EXCEPT !.kill = TRUE, !.calls = 2],
            [HelperBase EXCEPT !.deferred = TRUE, !.daemon = TRUE, !.calls = 2],
            [HelperBase EXCEPT !.kind = "down"], [HelperBase EXCEPT !.kind = "down", !.kill = TRUE, !.daemon = TRUE]}
Helpers == INSTANCE PluginHelpers WITH
    MaxCalls <- 3,
    Configs <- HelperConfigs,
    fg <- x1, bg <- x2, toBg <- x3, toFg <- x4, children <- x5, files <- x6, approved <- x7, ran <- x8, calls <- x9

-----------------------------------------------------------------------------
StreamBase == [http_proxy |-> FALSE, port_share |-> FALSE, foreign |-> "no", noise |-> 0]
StreamConfigs ==
    {StreamBase, [StreamBase EXCEPT !.http_proxy = TRUE, !.noise = 6], [StreamBase EXCEPT !.noise = 2]}
    \cup {[StreamBase EXCEPT !.port_share = TRUE, !.foreign = f] : f \in {"no", "near", "far"}}
Stream == INSTANCE StreamBuf WITH
    Sizes <- {1, 3, 6}, MaxLen <- 5, Tailroom <- 2, MaxPackets <- 3, MaxLines <- 2,
    Configs <- StreamConfigs,
    sent <- x1, wire <- x2, sb <- x3, delivered <- x4, proxy <- x5, lines <- x6, cut <- x7

-----------------------------------------------------------------------------
ManagementBase == [password |-> TRUE, hold |-> FALSE, on_disconnect |-> FALSE, connect_as_client |-> FALSE,
                   remap |-> "USR1", asks |-> {"multiline"}]
ManagementConfigs ==
    {ManagementBase,
     [ManagementBase EXCEPT !.on_disconnect = TRUE, !.password = FALSE, !.remap = "HUP", !.asks = {"USER_PASS"}],
     [ManagementBase EXCEPT !.hold = TRUE, !.asks = {"sleep"}],
     [ManagementBase EXCEPT !.connect_as_client = TRUE, !.password = FALSE, !.asks = {"PASS", "NEED_OK"}]}
Manager == INSTANCE Management WITH
    Types <- {"Auth", "Private Key"}, MaxQueries <- 2, MaxClients <- 2, MaxRestarts <- 1,
    Configs <- ManagementConfigs,
    prog <- x1, call <- x2, mc <- x3, persist <- x4, sig <- x5, reading <- x6, serial <- x7, clients <- x8,
    restarts <- x9

-----------------------------------------------------------------------------
LoopBase == [tls |-> FALSE, tcp |-> FALSE, remote |-> TRUE, timer_remote |-> FALSE, ping |-> 2, rec |-> 3,
             inactive |-> 0, poll |-> 0, occ |-> FALSE, mtu_test |-> FALSE, frag |-> 1, up_delay |-> FALSE,
             route_delay |-> 0, late |-> FALSE, packets |-> 2, arrive |-> {"data"}, routed |-> {"data"}, outcomes |-> {"sent"}]
LoopConfigs ==
    {[LoopBase EXCEPT !.frag = 2, !.occ = TRUE, !.arrive = {"REQUEST", "REPLY", "bad"}],
     [LoopBase EXCEPT !.tcp = TRUE, !.ping = 3, !.rec = 0, !.arrive = {"data", "ping", "EXIT", "bad"}],
     [LoopBase EXCEPT !.tls = TRUE, !.poll = 2, !.inactive = 4, !.outcomes = {"sent", "unreachable"},
                      !.arrive = {"control", "data"}, !.up_delay = TRUE, !.route_delay = 2],
     [LoopBase EXCEPT !.tls = TRUE, !.remote = FALSE, !.timer_remote = TRUE, !.arrive = {"control", "newsession"},
                      !.late = TRUE],
     [LoopBase EXCEPT !.mtu_test = TRUE, !.rec = 0, !.outcomes = {"sent", "failed"},
                      !.arrive = {"MTU_REQUEST", "MTU_LOAD_REQUEST", "MTU_REPLY", "MTU_LOAD"}],
     [LoopBase EXCEPT !.up_delay = TRUE, !.packets = 3, !.ping = 0, !.routed = {"data", "ipv6", "recursive"}]}
Loop == INSTANCE Forward WITH
    Configs <- LoopConfigs,
    Start <- 20, MaxTime <- 24, BigTimeout <- 60, Horizon <- 2, Refresh <- 4, Rto <- 2, RemoteRetry <- 2,
    OccInterval <- 1, LoadInterval <- 1, OccTries <- 3, LoadSequence <- <<"MTU_LOAD_REQUEST", "MTU_REQUEST">>,
    now <- x1, pc <- x2, c <- x3, q <- x4, hist <- x5

-----------------------------------------------------------------------------
(* The variables from the n-th on are idle, or stay so.                    *)
Idle12 == x12 = Idle /\ x13 = Idle
Idle10 == x10 = Idle /\ x11 = Idle /\ Idle12
Idle9 == x9 = Idle /\ Idle10
Idle8 == x8 = Idle /\ Idle9
Idle7 == x7 = Idle /\ Idle8
Idle6 == x6 = Idle /\ Idle7
Idle5 == x5 = Idle /\ Idle6
Idle2 == x2 = Idle /\ x3 = Idle /\ x4 = Idle /\ Idle5
Same12 == UNCHANGED <<x12, x13>>
Same10 == UNCHANGED <<x10, x11>> /\ Same12
Same9 == UNCHANGED x9 /\ Same10
Same8 == UNCHANGED x8 /\ Same9
Same7 == UNCHANGED x7 /\ Same8
Same6 == UNCHANGED x6 /\ Same7
Same5 == UNCHANGED x5 /\ Same6
Same2 == UNCHANGED <<x2, x3, x4>> /\ Same5

MCInit ==
    \/ part = "life" /\ Life!Init /\ Idle9
    \/ part = "remotes" /\ Remotes!Init /\ Idle8
    \/ part = "pull" /\ Pull!Init /\ Idle8
    \/ part = "options" /\ Opts!Init /\ Idle9
    \/ part = "checks" /\ Checks!Init /\ Idle2
    \/ part = "dns" /\ NameServers!Init
    \/ part = "link" /\ Link!Init
    \/ part = "routes" /\ Routes!Init /\ Idle10
    \/ part = "tun" /\ Device!Init /\ Idle9
    \/ part = "winio" /\ WinIo!Init /\ Idle5
    \/ part = "service" /\ Service!Init /\ Idle7
    \/ part = "helpers" /\ Helpers!Init /\ Idle10
    \/ part = "stream" /\ Stream!Init /\ Idle8
    \/ part = "management" /\ Manager!Init /\ Idle10
    \/ part = "loop" /\ Loop!Init /\ Idle6

MCNext ==
    /\ UNCHANGED part
    /\ \/ part = "life" /\ Life!Next /\ Same9
       \/ part = "remotes" /\ Remotes!Next /\ Same8
       \/ part = "pull" /\ Pull!Next /\ Same8
       \/ part = "options" /\ Opts!Next /\ Same9
       \/ part = "checks" /\ Checks!Next /\ Same2
       \/ part = "dns" /\ NameServers!Next
       \/ part = "link" /\ Link!Next
       \/ part = "routes" /\ Routes!Next /\ Same10
       \/ part = "tun" /\ Device!Next /\ Same9
       \/ part = "winio" /\ WinIo!Next /\ Same5
       \/ part = "service" /\ Service!Next /\ Same7
       \/ part = "helpers" /\ Helpers!Next /\ Same10
       \/ part = "stream" /\ Stream!Next /\ Same8
       \/ part = "management" /\ Manager!Next /\ Same10
       \/ part = "loop" /\ Loop!Next /\ Same6

(* The main thread keeps running: each of its waits ends, in a timeout or   *)
(* because it looks for signals once a second.  An attempt to connect does *)
(* not last for ever: --connect-timeout, --hand-window and --ping-restart  *)
(* end it.  When options are pulled, the timers fire, both sides read what *)
(* has arrived, and client-connect scripts come back.  The event loop      *)
(* calls the readers again and again, the helper of a plug-in runs         *)
(* whenever it can, and a call in progress goes on.                        *)
(* Each line is one condition of weak fairness for every part it names,    *)
(* since a behaviour never changes its part.                               *)
vars == <<cfg, x1, x2, x3, x4, x5, x6, x7, x8, x9, x10, x11, x12, x13>>
LifeGoesOn == part = "life" /\ Life!MainThread /\ Same9
ServerReads == part = "pull" /\ Pull!ReceiveRequest /\ Same8
EntryIsTried == part = "remotes" /\ Remotes!Try /\ Same8
Arms == part = "winio" /\ WinIo!Arm /\ Same5
HelperRuns == part = "helpers" /\ Helpers!pam_server /\ Same10
ConnectScriptEnds == part = "pull" /\ (Pull!multi_client_connect_late_setup \/ Pull!ConnectFails) /\ Same8
AttemptEnds == part = "remotes" /\ Remotes!SoftRestart /\ Same8
Reads == part = "winio" /\ WinIo!ReadReady /\ Same5
CallGoesOn == part = "helpers" /\ (Helpers!Opened \/ Helpers!SendNext \/ Helpers!RecvAnswer \/ Helpers!Waited) /\ Same10
TimerFires == part = "pull" /\ Pull!Expire /\ Same8
Completes == part = "winio" /\ WinIo!Complete /\ Same5
ClientReads == part = "pull" /\ (Pull!receive_auth_failed \/ Pull!incoming_push_message) /\ Same8
ClientRequests == part = "pull" /\ Pull!send_push_request /\ Same8
ClientRestarts == part = "pull" /\ Pull!Reconnect /\ Same8

Fairness ==
    /\ WF_vars(LifeGoesOn \/ EntryIsTried \/ Arms \/ HelperRuns \/ ClientRequests)
    /\ WF_vars(AttemptEnds \/ Reads \/ CallGoesOn \/ ClientRestarts)
    /\ WF_vars(TimerFires \/ Completes)
    /\ []<>(part = "pull" => ~Pull!HasRequest) \/ []<><<ServerReads>>_vars
    /\ []<>(part = "pull" => ~Pull!Connecting) \/ []<><<ConnectScriptEnds>>_vars
    /\ []<>(part = "pull" => ~Pull!HasReply) \/ []<><<ClientReads>>_vars

MCSpec == MCInit /\ [][MCNext]_<<part, vars>> /\ Fairness
-----------------------------------------------------------------------------
\* Every part's state has its type: signals, phases, counters of attempts and lists
\* stay within what the C types and the checks of the code allow.
ClientTypeOK ==
    CASE part = "life" -> Life!TypeOK
      [] part = "remotes" -> Remotes!TypeOK
      [] part = "pull" -> Pull!TypeOK
      [] part = "options" -> Opts!TypeOK
      [] part = "checks" -> Checks!TypeOK
      [] part = "dns" -> NameServers!TypeOK
      [] part = "link" -> Link!TypeOK
      [] part = "routes" -> Routes!TypeOK
      [] part = "tun" -> Device!TypeOK
      [] part = "winio" -> WinIo!TypeOK
      [] part = "service" -> Service!TypeOK
      [] part = "helpers" -> Helpers!TypeOK
      [] part = "stream" -> Stream!TypeOK
      [] part = "management" -> Manager!TypeOK
      [] part = "loop" -> Loop!TypeOK



\* Options that options_postprocess accepts can be run, however they were combined: no
\* assertion or missing value later on, the server's pool inside its subnet, and offload
\* only for what the driver can do (of a FreeBSD client only the listen entries are looked
\* at, not the protocol of its remotes, and nothing is claimed).  The service on
\* Windows starts OpenVPN only with the options the user is allowed to choose.
AcceptedIsRunnable ==
    /\ part = "checks" => Checks!AcceptedIsRunnable /\ Checks!PoolAndTimeouts /\ Checks!OffloadIsPossible
    /\ part = "service" => Service!OnlyApprovedOptions

\* Over every order of failures, retries, proxies and restarts, the socket in use (with
\* dco-win: the handle of the device) is the only one open, its address lists are alive,
\* belong to the current entry of the list of remotes and are freed once (except the list of
\* a SOCKS proxy with UDP and --preresolve, which phase2_socks_client frees although the
\* cache holds it), entries are left and given up in turn, where a proxy is set the
\* connection goes to the proxy (except after a restart that kept the addresses a UDP client
\* got through a SOCKS proxy), no password goes to it in the clear unasked, and a SIGTERM
\* that arrives while the socket is set up is not lost.  Once it is up, the event loop
\* misses no timer: what check_coarse_timers cached is later than none of them by more than
\* the second, or for --ping-timer-rem the retry, for which a timer is held back, no wait
\* outlasts it, and the connection is given up only after a silence of --ping-restart or
\* --inactive (io_wait, check_ping_restart).
ConnectionIsSound ==
    /\ [](part = "link" => /\ Link!DescriptorsHeld /\ Link!AddressesAreLive /\ Link!NoListLost
                          /\ Link!ThroughTheProxy /\ Link!NoCleartext)
    /\ [](part = "remotes" => Remotes!AddressesOfEntry /\ Remotes!GivesUpFairly)
    /\ [](part = "loop" => Loop!CacheIsCurrent /\ Loop!WaitIsServed /\ Loop!GivesUpWhenSilent)
    /\ [][part = "link" => Link!SigtermKept]_<<part, vars>>

\* What passes through a stream, an overlapped operation or the single buffers of the
\* event loop comes out once, whole and in order: packets over TCP, up to the first one of
\* which send() takes only a part (the rest is dropped, and the stream is out of frame),
\* packets between the link and the tun device, each given once to the socket, which may
\* lose it, reads and writes on Windows, and the questions and answers between a plug-in
\* and its helper.  Nothing of a foreign protocol on a shared port is taken for a packet,
\* unless its first two bytes came alone and look like a length.
PassedOnce ==
    /\ [](part = "stream" => /\ Stream!PacketsAsWritten /\ Stream!ForeignIsRecognized
                            /\ Stream!RoomToRead /\ Stream!NothingStuck)
    /\ [](part = "loop" => Loop!PacketsPassOnce)
    /\ [](part = "winio" => WinIo!PacketsPassOnce /\ WinIo!NoLostWakeup)
    /\ [](part = "helpers" => Helpers!AnswersMatchCalls)
    /\ [][part = "helpers" => Helpers!NoStrayFile]_<<part, vars>>

\* The lines of a multi-line management command, which are taken without asking for
\* the password, belong to a client that has given it and is still connected.  When no
\* question is being asked, nothing of an earlier one is left except a password of several
\* lines that was begun and not ended: no name or password, no message that would ask a new
\* client, no state that takes a late signature.  A question is answered by what was sent
\* while it was asked; only such a password of several lines, which the next question takes
\* for its own, may have been begun before.
QuestionsAreClosed ==
    part = "management" =>
        Manager!OpenCommandIsVerified /\ Manager!QuestionsAreClosed /\ Manager!AnswerIsOwn

\* Nothing waits for ever: a SIGTERM ends the process (unless it is a server that announces
\* its exit, where a restart signal in the two seconds of the announcement takes its place),
\* every enabled remote is tried again and again unless the address is kept or the list
\* starts over, a client that pulls gets its options or restarts, every packet read by an
\* overlapped operation is handed on, and closing a plug-in ends its helper.
EventuallyDone ==
    /\ (part = "life" /\ Life!Ending) ~> (part = "life" /\ Life!Exited)
    /\ \/ []<>(part = "remotes" => Remotes!Stays)
       \/ []<><<part = "remotes" /\ Remotes!Restart>>_vars
       \/ \A i \in 0..2 : []<>(part = "remotes" => Remotes!Tried(i))
    /\ []<>(part = "pull" => Pull!PullCompleted)
    /\ \A p \in 1..3 : (part = "winio" /\ WinIo!Arrived(p)) ~> (part = "winio" /\ WinIo!Read(p))
    /\ (part = "helpers" /\ Helpers!Closed) ~> (part = "helpers" /\ Helpers!HelperEnded)
=============================================================================
