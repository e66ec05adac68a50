--------------------------- MODULE OptionsVerify ---------------------------
(***************************************************************************)
(* options_postprocess(): how the options read from the configuration are  *)
(* expanded (helper directives, defaults, connection entries, listen       *)
(* entries, data channel offload) and then verified, before anything is    *)
(* opened.  M_USAGE ends the program; `o.usage' records that it did.       *)
(*                                                                         *)
(* Switches without a value that matters are names in the set o.opts; the  *)
(* addresses of --server are numbers, the network and its size in bits.    *)
(* The build has OpenSSL, PKCS#11 and xkey; "nocomp" in o.opts is a build  *)
(* without compression.  What the last lines of options_postprocess_       *)
(* mutate() do to the name servers and the saved options is in Dns and     *)
(* Options.                                                                *)
(***************************************************************************)
EXTENDS Integers, Sequences, FiniteSets

CONSTANTS Configs,          \* the configurations examined
          DcoCiphers,       \* the data ciphers the offload driver supports
          PoolMax,          \* IFCONFIG_POOL_MAX
          Undef             \* an option that is not given

VARIABLES o,                \* struct options
          pc                \* the part of options_postprocess() that runs next

vars == <<o, pc>>



Udp(p) == p \in {"udp"}
Has(f) == f \in o.opts
HasAny(F) == F \cap o.opts # {}

(***************************************************************************)
(* helper.c: --server-ipv6, --server, --server-bridge, --client.           *)
(***************************************************************************)
Broadcast(s) == s.network + 2 ^ (32 - s.netbits) - 1

\* ifconfig_pool_verify_range
BadRange(p) == p.start > p.end \/ p.end - p.start >= PoolMax

\* helper_setdefault_topology
helper_setdefault_topology(topology, dev, mode) ==
    IF topology # "undef" \/ dev # "tun" THEN topology
    ELSE IF mode = "server" THEN "subnet" ELSE "net30"

\* Mutant: the end of the pool is the broadcast address
ServerPool_ToEnd(s, dev, topology) ==
    IF dev = "tun" /\ topology \in {"net30", "p2p"}
    THEN [start |-> s.network + 4, end |-> Broadcast(s) - (IF s.netbits = 29 THEN 0 ELSE 4)]
    ELSE [start |-> s.network + 2, end |-> Broadcast(s)]

\* The pool --server defines: in net30 and p2p the first and the last four
\* addresses are left out (only the first four of a /29), otherwise the server's own.
ServerPool(s, dev, topology) ==
    IF dev = "tun" /\ topology \in {"net30", "p2p"}
    THEN [start |-> s.network + 4, end |-> Broadcast(s) - (IF s.netbits = 29 THEN 0 ELSE 4)]
    ELSE [start |-> s.network + 2, end |-> Broadcast(s) - 1]

\* --server-ipv6
Server6Error == Has("server6") /\ (HasAny({"client", "nopool", "pool6"}))

\* --server: what is refused
ServerError ==
    LET s == o.server IN
    \/ HasAny({"client", "secret"}) \/ o.bridge # Undef
    \/ Has("pool") /\ ~Has("nopool")
    \/ o.dev \notin {"tun", "tap"}
    \/ s.network % 2 ^ (32 - s.netbits) # 0
    \/ s.netbits < 16
    \/ s.netbits > (IF o.dev = "tun" THEN 29 ELSE 30)

\* --server-bridge: what is refused (verify_common_subnet for the three addresses)
BridgeError ==
    LET b == o.bridge
        Net(a) == a \div 2 ^ (32 - b.netbits)
    IN  \/ HasAny({"client", "secret"})
        \/ Has("pool") /\ ~Has("nopool")
        \/ o.dev # "tap"
        \/ ~b.dhcp /\ (Net(b.ip) # Net(b.start) \/ Net(b.start) # Net(b.end) \/ Net(b.ip) # Net(b.end))

\* The IPv4 part of helper_client_server
ServerExpansion(p) ==
    LET s == p.server
        topology == helper_setdefault_topology(p.topology, p.dev, "server")
        pooled == "nopool" \notin p.opts
        pool == ServerPool(s, p.dev, topology)
        routed == p.dev = "tun" /\ topology \in {"net30", "p2p"}
    IN  [p EXCEPT !.mode = "server", !.topology = topology,
           !.opts = @ \cup {"tls_server"} \cup (IF routed THEN {} ELSE {"pool_netmask", "push_constraint"}),
           !.local = s.network + 1,
           !.peer = IF routed THEN s.network + 2 ELSE Undef,
           !.pool = IF pooled THEN pool ELSE @,
           !.usage = @ \/ ServerError \/ (pooled /\ BadRange(pool))]

BridgeExpansion(p) ==
    LET pool == [start |-> p.bridge.start, end |-> p.bridge.end] IN
    [p EXCEPT !.mode = "server",
       !.opts = @ \cup {"tls_server"} \cup (IF p.bridge.dhcp THEN {} ELSE {"pool_netmask"}),
       !.pool = IF p.bridge.dhcp THEN @ ELSE pool,
       !.usage = @ \/ BridgeError \/ (~p.bridge.dhcp /\ BadRange(pool))]

helper_client_server ==
    LET p == IF Has("server6")
             THEN [o EXCEPT !.mode = "server", !.usage = @ \/ Server6Error,
                            !.opts = @ \cup {"tls_server", "pool6", "ifconfig6"}]
             ELSE o
    IN  IF o.server # Undef THEN ServerExpansion(p)
        ELSE IF o.bridge # Undef THEN BridgeExpansion(p)
        ELSE IF Has("client") THEN [p EXCEPT !.opts = @ \cup {"pull", "tls_client"}]
        ELSE p

\* helper_keepalive
Keepalive(p) ==
    LET k == p.keepalive
        bad == k.ping <= 0 \/ k.timeout <= 0 \/ k.ping * 2 > k.timeout \/ p.ping # Undef
    IN  IF k.ping = 0 /\ k.timeout = 0 THEN p
        ELSE IF p.mode = "server"
        THEN [p EXCEPT !.usage = @ \/ bad, !.ping = [k EXCEPT !.timeout = 2 * k.timeout], !.pushed_ping = k]
        ELSE [p EXCEPT !.usage = @ \/ bad, !.ping = k]

\* The helpers: client/server, topology, keepalive; tcp-nodelay and the sizes of the
\* hash tables change nothing else here.
Helpers ==
    /\ pc = "helpers"
    /\ LET p == helper_client_server IN
       o' = Keepalive([p EXCEPT !.topology = helper_setdefault_topology(@, p.dev, p.mode),
                                !.opts = @ \cup IF p.mode = "server" THEN {"hash_size"} ELSE {}])
    /\ pc' = "ciphers"

(***************************************************************************)
(* Ciphers and compatibility.                                              *)
(***************************************************************************)
need_compatibility_before(p, version) == p.compat # 0 /\ p.compat < version

Supported == {"gcm", "chacha", "cbc", "BF-CBC", "none"}

\* options_set_backwards_compatible_options: the least TLS version
TlsMin(p) ==
    IF p.tlsmin # 0 THEN p.tlsmin
    ELSE IF need_compatibility_before(p, 20307) THEN 10
    ELSE IF p.tlsmax = 0 \/ p.tlsmax >= 12 THEN 12 ELSE p.tlsmax

\* comp_non_stub_enabled
comp_non_stub_enabled(c) == c.alg \notin {"stub", "stub-v2", "undef"}

\* ... compression is off unless something was said of it or old peers need it
CompDefault(p) ==
    IF "nocomp" \in p.opts THEN {"nocomp_only"}
    ELSE IF ~need_compatibility_before(p, 20600) /\ p.comp.flags = {} /\ ~comp_non_stub_enabled(p.comp)
    THEN {"stub_only", "advertise_stubs"} ELSE p.comp.flags

\* ... the ciphers of old peers and compression
options_set_backwards_compatible_options(p) ==
    LET old == need_compatibility_before(p, 20400)
        cipher == IF old /\ p.cipher = Undef THEN "BF-CBC" ELSE p.cipher
    IN  [p EXCEPT !.tlsmin = TlsMin(p), !.cipher = cipher,
           !.opts = @ \cup (IF old THEN {"fallback"} ELSE {}),
           !.ciphers = @ \cup IF cipher # Undef /\ need_compatibility_before(p, 20500) THEN {cipher} ELSE {},
           !.comp.flags = CompDefault(p)]

\* options_postprocess_cipher
options_postprocess_cipher(p) ==
    [p EXCEPT !.cipher = IF @ = Undef THEN "BF-CBC" ELSE @,
              !.opts = @ \cup IF "pull" \notin @ /\ p.mode # "server" /\ p.cipher # Undef
                              THEN {"fallback"} ELSE {}]

\* mutate_ncp_cipher_list refuses a list with a cipher that is not there; an
\* undefined list becomes the default one (without chacha if the offload driver lacks it).
DefaultCiphers(p) ==
    {"gcm"} \cup IF "dco" \in p.opts /\ "chacha" \notin DcoCiphers THEN {} ELSE {"chacha"}

Ciphers ==
    /\ pc = "ciphers"
    /\ LET p == options_postprocess_cipher(options_set_backwards_compatible_options(
                    [o EXCEPT !.ciphers = IF @ = {} THEN DefaultCiphers(o) ELSE @]))
       IN  o' = [p EXCEPT !.usage = @ \/ ~(p.ciphers \subseteq Supported)]
    /\ pc' = "connections"

(***************************************************************************)
(* Connection entries and listen entries.                                  *)
(***************************************************************************)
\* --remote entries become connection entries, without any the global one is the only
ConnectionList ==
    IF o.blocks # <<>> THEN o.blocks
    ELSE IF o.remotes # <<>>
    THEN [i \in DOMAIN o.remotes |->
            [o.ce EXCEPT !.remote = o.remotes[i].remote,
                         !.proto = IF o.remotes[i].proto = Undef THEN @ ELSE o.remotes[i].proto]]
    ELSE <<o.ce>>

\* --proto tcp is the server's or the client's side of a connection; with --mode server
\* and without a --server directive it stays ambiguous
Side(proto) ==
    IF proto # "tcp" THEN proto
    ELSE IF o.server # Undef \/ o.bridge # Undef THEN "tcp-server"
    ELSE IF o.mode # "server" THEN "tcp-client" ELSE proto

\* Without an option that asks for binding, a client has no fixed local port.
bind_local(e, proto) ==
    LET need_bind == e.lport \/ e.bind \/ o.locals # <<>> IN
    e.bind_local /\ ~(~need_bind /\ (proto = "tcp-client" \/ (proto = "udp" /\ e.socks) \/ Has("pull")))

\* The entry's own control channel keys, or else the global ones
Keys(e) == IF e.keys = {} THEN o.keys ELSE e.keys

options_postprocess_mutate_ce(e) ==
    LET proto == Side(e.proto) IN
    [e EXCEPT !.proto = proto,
              !.bind_local = bind_local(e, proto),
              !.disabled = @ \/ (o.proto_force # Undef /\ o.proto_force # proto),
              !.ipv4only = @ \/ (e.socks /\ Udp(proto)),
              !.tun_mtu = @ \/ ~e.link_mtu,
              !.keys = Keys(e),
              !.exit_notify = @ /\ Udp(proto)]

\* An unreadable key file is fatal (connection_entry_preload_key)
connection_entry_preload_key == \E i \in DOMAIN o.conns : o.conns[i].keys \cap o.missing # {}

\* options_postprocess_mutate_le and the loop after it: the protocol of a listen entry
Listen(le, proto) ==
    LET q == IF le.proto = Undef \/ o.mode = "p2p" THEN proto ELSE le.proto IN
    [le EXCEPT !.proto = IF q = "tcp" THEN "tcp-server" ELSE q,
               !.port = IF @ = Undef THEN o.ce.local_port ELSE @]

Connections ==
    /\ pc = "connections"
    /\ LET l == ConnectionList
           conns == [i \in DOMAIN l |-> options_postprocess_mutate_ce(l[i])]
           \* a connection with --proto tcp also changes the global protocol
           proto == IF \E i \in DOMAIN l : l[i].proto = "tcp" THEN Side("tcp") ELSE o.ce.proto
       IN  o' = [o EXCEPT !.conns = conns, !.ce.proto = proto,
                          !.locals = IF @ = <<>> THEN <<[addr |-> Undef, port |-> o.ce.local_port, proto |-> proto]>>
                                     ELSE [i \in DOMAIN @ |-> Listen(@[i], proto)]]
    /\ pc' = "rest"

(***************************************************************************)
(* --http-proxy-override, fingerprints, data channel offload.              *)
(***************************************************************************)
options_postprocess_http_proxy_override(l) ==
    IF Has("proxy_override") /\ (\E i \in DOMAIN l : l[i].proto \in {"tcp-client", "tcp"})
    THEN [i \in DOMAIN l |-> IF l[i].proto \in {"tcp-client", "tcp"} THEN [l[i] EXCEPT !.http = TRUE]
                             ELSE IF l[i].proto = "udp" THEN [l[i] EXCEPT !.disabled = TRUE] ELSE l[i]]
    ELSE l

\* dco_check_option
dco_check_option(p) ==
    /\ ~("fallback" \in p.opts /\ p.cipher \notin DcoCiphers)
    /\ "nocomp" \in p.opts \/ (p.comp.alg = "undef" /\ "asym" \notin p.comp.flags)
    /\ p.ciphers \subseteq DcoCiphers
    /\ "none" \in p.ciphers => "auth_none" \in p.opts

\* dco_check_option_ce: on FreeBSD and Windows the transport is that of the listen entries
dco_check_option_ce(p, e) ==
    /\ ~e.fragment /\ ~e.http /\ ~e.socks
    /\ p.platform = "freebsd" => \A i \in DOMAIN p.locals : Udp(p.locals[i].proto)
    /\ p.platform = "windows" =>
         /\ p.mode = "server" => Udp(p.locals[1].proto) /\ Len(p.locals) = 1
         /\ e.remote = Undef => "multipeer" \in p.opts

dco_check_startup_option(p) ==
    /\ p.dev = "tun"
    /\ {"tls_client", "tls_server"} \cap p.opts # {}
    /\ {"afunix", "user_nocap", "query_proxy", "no_driver"} \cap p.opts = {}
    /\ \A i \in DOMAIN p.conns : dco_check_option_ce(p, p.conns[i])
    /\ p.platform = "windows" /\ p.mode = "server" => "multipeer" \in p.opts
    /\ p.platform = "linux" => "foreign_iface" \notin p.opts
    /\ p.mode = "server" => p.topology = "subnet"

\* options_postprocess_mutate_invariant: on Windows a server has no --route-delay
options_postprocess_mutate_invariant(p) ==
    [p EXCEPT !.opts = IF p.platform # "windows" THEN @
                       ELSE IF p.mode = "server" THEN @ \ {"route_delay"}
                       ELSE IF "dco" \notin @ THEN @ \cup {"route_delay"} ELSE @]

\* check_compression_settings_valid.  With offload dco_check_option() has already seen
\* to the first case; a build without compression refuses by it.
BadCompression(c) ==
    \/ c.alg \notin {"stub-v2", "undef"} /\ "nocomp_only" \in c.flags
    \/ "stub_only" \in c.flags /\ comp_non_stub_enabled(c)

\* --dh is for a server, and "none" there is no file
Dh(opts) == opts \ IF "tls_server" \in opts /\ "dh_none" \notin opts THEN {} ELSE {"dh"}

\* The renewal time of tokens is by default the time between renegotiations
Renewal(opts) ==
    opts \cup IF {"gen_token", "short_reneg"} \subseteq opts /\ "renewal" \notin opts THEN {"short_renewal"} ELSE {}

Rest ==
    /\ pc = "rest"
    /\ LET p == [o EXCEPT !.conns = options_postprocess_http_proxy_override(@),
                          !.opts = Dh(@) \cup IF HasAny({"ca", "capath"}) \/ ~Has("fingerprint") THEN {} ELSE {"no_ca"},
                          !.usage = @ \/ Has("stdin_sighup") \/ connection_entry_preload_key]
           q == IF "dco" \in p.opts /\ dco_check_option(p) /\ dco_check_startup_option(p)
                THEN [p EXCEPT !.comp.flags = @ \cup {"nocomp_only"}]
                ELSE [p EXCEPT !.opts = @ \ {"dco"}]
           r == options_postprocess_mutate_invariant(q)
       IN  o' = [r EXCEPT !.opts = Renewal(@),
                          !.usage = \/ @ \/ BadCompression(r.comp)
                                    \/ {"username_only", "static_challenge"} \subseteq r.opts]
    /\ pc' = "verify"

(***************************************************************************)
(* options_postprocess_verify_ce: each operator is what it refuses.        *)
(***************************************************************************)
\* Devices, addresses and binding
BadAddresses(e) ==
    \/ o.dev = "undef"
    \/ e.proto = "tcp"
    \/ o.mode # "server" /\ Len(o.locals) > 1
    \/ Has("lladdr") /\ o.dev # "tap"
    \/ o.ce.tun_mtu /\ o.ce.link_mtu
    \/ Has("mtu_test") /\ ~Udp(e.proto)
    \/ e.remote # Undef /\ e.remote \in {o.ifconfig, o.ifconfig_peer}
    \/ o.ifconfig # Undef /\ o.ifconfig = o.ifconfig_peer
    \/ (e.bind \/ e.lport \/ e.remote = Undef) /\ ~e.bind_local
    \/ \E i \in DOMAIN o.locals :
          LET le == o.locals[i] IN      \* whose protocol is a net protocol by now
          /\ le.addr # Undef
          /\ \/ le.addr = e.remote /\ le.port # Undef /\ le.port = e.port
             \/ le.addr \in {o.ifconfig, o.ifconfig_peer}
             \/ ~e.bind_local

\* Management, Windows and the protocol options
BadProtocols(e) ==
    \/ HasAny({"query_proxy", "ext_key", "ext_cert", "man_client_auth", "man_unix", "man_log_cache"})
         /\ ~Has("management")
    \/ Has("man_client_user") /\ ~Has("man_unix")
    \/ /\ o.platform = "windows"
       /\ \/ (o.dev = "tun" \/ Has("ip_win32")) /\ ~Has("pull") /\ o.ifconfig = Undef /\ o.local = Undef
          \/ Has("dhcp_required") /\ HasAny({"dco", "ip_win32_fixed"})
    \/ e.fragment /\ ~Udp(e.proto)
    \/ e.remote = Undef /\ e.proto = "tcp-client"
    \/ e.http /\ (e.proto # "tcp-client" \/ e.socks)
    \/ Has("http_proxy_option") /\ ~e.http
    \/ e.socks /\ e.proto = "tcp-server"
    \/ e.proto = "tcp-server" /\ Len(o.conns) > 1

AuthMethods == {"script", "plugin", "man_client_auth"}
OptionalCert == {"client_cert_none", "username_as_cn", "user_pass_optional"}

\* --mode server
BadServer(e) ==
    \/ o.dev \notin {"tun", "tap"}
    \/ HasAny({"pull", "shaper", "ipchange", "redirect_gateway", "route_delay", "up_delay",
               "allow_recursive_routing", "auth_user_pass"})
    \/ e.proto \notin {"udp", "tcp-server"}
    \/ Has("port_share") /\ e.proto # "tcp-server"
    \/ ~Has("tls_server")
    \/ e.remote # Undef \/ ~e.bind_local \/ e.http \/ e.socks
    \/ Len(o.conns) > 1 \/ o.conns[1].remote # Undef
    \/ Has("connect_freq") /\ ~Udp(e.proto)
    \/ Has("pool_netmask") /\ ~(o.dev = "tap" \/ (o.dev = "tun" /\ o.topology = "subnet"))
    \/ Has("pool_persist") /\ o.pool = Undef /\ ~Has("pool6")
    \/ Has("pool6") /\ ~Has("ifconfig6")
    \/ Has("ccd_exclusive") /\ ~Has("ccd")
    \/ Has("gen_token") /\ HasAny({"no_reneg", "short_renewal"})
    \/ ~HasAny(AuthMethods) /\ HasAny(OptionalCert)
    \/ Has("vlan") /\ o.dev # "tap"
    \/ ~Has("vlan") /\ HasAny({"vlan_accept", "vlan_pvid"})

\* What only a server may have
ServerOnly == {"pool_persist", "pool6", "hash_size", "learn_address", "client_connect", "client_disconnect",
               "ccd", "ccd_exclusive", "client_to_client", "duplicate_cn", "connect_freq", "gen_token",
               "script", "port_share", "stale_routes_check", "vlan", "vlan_accept", "vlan_pvid",
               "client_crresponse", "force_key_material_export"}
                  \cup OptionalCert
BadClient == HasAny(ServerOnly) \/ o.pool # Undef

\* The credentials of the TLS modes
External == {"ext_key", "ext_cert"}
\* Mutant: a certificate without its key is enough
BadPair_One(sum) == sum = 0 /\ ~Has("auth_user_pass")
\* --pull: a certificate and its key, or a user name
BadPair(sum) == (sum = 0 /\ ~Has("auth_user_pass")) \/ sum = 1

BadCredentials ==
    IF Has("pkcs11") THEN HasAny({"cert", "key", "pkcs12", "cryptoapi"} \cup External) \/ Has("pkcs11_id") = Has("pkcs11_id_management")
    ELSE IF Has("cryptoapi") THEN HasAny({"cert", "key", "pkcs12"} \cup External)
    ELSE IF Has("pkcs12") THEN HasAny({"capath", "cert", "key"} \cup External)
    ELSE \/ {"ext_key", "key"} \subseteq o.opts
         \/ Has("ext_cert") /\ (Has("cert") \/ ~Has("ext_key"))
         \/ IF Has("pull")
            THEN BadPair((IF HasAny({"cert", "ext_cert"}) THEN 1 ELSE 0)
                         + (IF HasAny({"key", "ext_key"}) THEN 1 ELSE 0))
            ELSE ~HasAny({"cert", "ext_cert"}) \/ ~HasAny({"key", "ext_key"})

\* check_ca_required
check_ca_required == ~HasAny({"no_ca", "pkcs12", "ca", "capath"})

BadTls(e) ==
    \/ check_ca_required
    \/ BadCredentials
    \/ {"auth", "crypt"} \subseteq e.keys
    \/ Has("tls_client") /\ "v2" \in e.keys /\ Cardinality(e.keys) > 1

\* What only the TLS modes may have
TlsOnly == {"ca", "capath", "cert", "key", "pkcs12", "pkcs11", "pkcs11_id", "pkcs11_id_management",
            "pkcs11_private_mode", "dh", "tls_cipher", "tls_ciphersuites", "tls_cert_profile", "tls_verify",
            "tls_export_cert", "verify_x509_name", "tls_timeout", "reneg_bytes", "reneg_pkts", "no_reneg",
            "short_reneg", "hand_window", "tran_window", "single_session", "push_peer_info", "tls_exit",
            "crl_verify", "ns_cert_type", "remote_cert_ku", "remote_cert_eku", "pull"}
BadStatic == HasAny(TlsOnly) \/ o.keys # {}

TlsModes == {"tls_server", "tls_client", "secret"}

options_postprocess_verify_ce(e) ==
    \/ BadAddresses(e)
    \/ BadProtocols(e)
    \/ IF o.mode = "server" THEN BadServer(e) ELSE BadClient
    \/ Cardinality(o.opts \cap TlsModes) > 1
    \/ ~HasAny({"tls_server", "tls_client", "allow_static"})
    \/ o.tlsmax > 0 /\ o.tlsmax < o.tlsmin
    \/ IF HasAny({"tls_server", "tls_client"}) THEN BadTls(e) ELSE BadStatic
    \/ Has("auth_user_pass") /\ ~Has("pull")

options_postprocess_verify ==
    /\ pc = "verify"
    /\ o' = [o EXCEPT !.usage = @ \/ \E i \in DOMAIN o.conns : options_postprocess_verify_ce(o.conns[i])]
    /\ pc' = "files"

(***************************************************************************)
(* options_postprocess_filechecks: the files named are there (the external *)
(* key replaces --key, fingerprints replace --ca).  Preloaded keys are     *)
(* inline by now.                                                          *)
(***************************************************************************)
check_file_access(f) == f \in o.missing

options_postprocess_filechecks ==
    /\ pc = "files"
    /\ LET named == (o.opts \cap {"ca", "capath", "cert", "key", "pkcs12", "dh", "secret", "auth_user_pass",
                                  "crl_verify", "ccd"})
                      \ ((IF Has("no_ca") THEN {"ca"} ELSE {}) \cup (IF Has("ext_key") THEN {"key"} ELSE {}))
       IN  o' = [o EXCEPT !.usage = @ \/ \E f \in named : check_file_access(f)]
    /\ pc' = "done"

Init == o \in Configs /\ pc = "helpers"

Next == Helpers \/ Ciphers \/ Connections \/ Rest \/ options_postprocess_verify \/ options_postprocess_filechecks

Spec == Init /\ [][Next]_vars

(***************************************************************************)
(* Properties.                                                             *)
(***************************************************************************)
Protos == {"udp", "tcp", "tcp-client", "tcp-server"}

\* The shape of the options at every step of options_postprocess().
TypeOK ==
    /\ pc \in {"helpers", "ciphers", "connections", "rest", "verify", "files", "done"}
    /\ o.mode \in {"p2p", "server"} /\ o.usage \in BOOLEAN
    /\ o.topology \in {"undef", "net30", "p2p", "subnet"}
    /\ \A i \in DOMAIN o.conns : o.conns[i].proto \in Protos /\ o.conns[i].keys \subseteq {"auth", "crypt", "v2"}
    /\ pc \in {"rest", "verify", "files", "done"} => o.conns # <<>> /\ o.locals # <<>>

Accepted == pc = "done" /\ ~o.usage

\* What the code that runs later takes for granted of accepted options: one TLS role at
\* most; every connection entry with a definite protocol, one control channel key kind
\* (a server may add tls-crypt-v2) and, where it connects, somebody to connect to; a
\* server that listens on every socket, answers to nobody's pushed options and has some
\* way to tell its clients apart; a client that can prove who it is.
AcceptedIsRunnable ==
    Accepted =>
      /\ Cardinality(o.opts \cap TlsModes) <= 1
      /\ o.tlsmax > 0 => o.tlsmin <= o.tlsmax
      /\ \A i \in DOMAIN o.conns :
           LET e == o.conns[i] IN
           /\ e.proto \in {"udp", "tcp-client", "tcp-server"}
           /\ Cardinality(e.keys \ (IF Has("tls_server") THEN {"v2"} ELSE {})) <= 1
           /\ e.proto = "tcp-client" \/ ~e.bind_local => e.remote # Undef
           /\ e.http => e.proto = "tcp-client"
      /\ o.mode = "server" =>
           /\ Has("tls_server") /\ ~Has("pull") /\ Len(o.conns) = 1 /\ o.conns[1].bind_local
           /\ Has("client_cert_none") => HasAny(AuthMethods)
           /\ \A i \in DOMAIN o.locals : o.locals[i].proto \in {"udp", "tcp-server"}
      /\ Has("pull") => \/ HasAny({"auth_user_pass", "pkcs11", "pkcs12", "cryptoapi"})
                        \/ HasAny({"cert", "ext_cert"}) /\ HasAny({"key", "ext_key"})

\* The pool of --server lies inside the server's subnet, without the network address,
\* the addresses of the server's own end and, where the clients share a subnet, the
\* broadcast address; and the clients give the connection up before the server does.
PoolAndTimeouts ==
    Accepted =>
      /\ o.server # Undef /\ o.pool # Undef =>
           /\ o.server.network < o.pool.start /\ o.pool.end <= Broadcast(o.server)
           /\ "push_constraint" \in o.opts => o.pool.end < Broadcast(o.server)
           /\ \A a \in {o.local, o.peer} \ {Undef} : a < o.pool.start
      /\ o.pushed_ping # Undef => o.pushed_ping.timeout < o.ping.timeout
      /\ o.ping # Undef /\ o.keepalive.ping > 0 => 2 * o.ping.ping <= o.ping.timeout

\* Data channel offload stays enabled only where no connection entry has what the driver
\* cannot do (a proxy, fragments), no listed cipher is unknown to it, nothing is
\* compressed or framed for compression and a FreeBSD server listens on UDP only.  A
\* FreeBSD client is left out of the last: dco_check_option_ce() looks at its listen
\* entries, not at the protocol of its --remote entries.
OffloadIsPossible ==
    Accepted /\ Has("dco") =>
      /\ o.dev = "tun" /\ Has("tls_server") # Has("tls_client")
      /\ \A i \in DOMAIN o.conns : ~o.conns[i].http /\ ~o.conns[i].socks /\ ~o.conns[i].fragment
      /\ o.ciphers \subseteq DcoCiphers /\ o.comp.alg \in {"undef", "stub-v2"} /\ "asym" \notin o.comp.flags
      /\ o.comp.alg = "stub-v2" => Has("nocomp")
      /\ o.platform = "freebsd" /\ o.mode = "server" => \A i \in DOMAIN o.locals : o.locals[i].proto = "udp"

=============================================================================
