------------------------------- MODULE Options -------------------------------
(***************************************************************************)
(* The options of a client over its connections: what add_option accepts   *)
(* from the configuration and from the server, which fields of struct      *)
(* options it writes, and what pre_connect_restore and the copy of the     *)
(* connection entry put back before the next connection.  A behaviour is   *)
(* about one option, opt.  A field's value is the set of the sources that  *)
(* contributed to it: 0 for the configuration, or the number of the        *)
(* connection on which the server pushed it; {} is the built-in default.   *)
(***************************************************************************)
EXTENDS Integers, FiniteSets, TLC

CONSTANTS
    MaxConnections,     \* connections of one configuration
    MaxUpdates          \* PUSH_UPDATE messages on one connection

VARIABLES
    opt,            \* the option under study
    nopull,         \* --route-nopull
    phase,          \* "config", "connecting", "up" or "restart"
    conn,           \* number of the connection
    field,          \* the fields opt writes
    pre_connect,    \* what pre_connect_save saved, and the connection entry
    own,            \* history: the fields as the configuration sets them
    found,          \* option_types_found of the last message
    updates         \* PUSH_UPDATE messages on this connection

vars == <<opt, nopull, phase, conn, field, pre_connect, own, found, updates>>

-----------------------------------------------------------------------------
(* The branches of add_option: the classes of an option (the mask of its   *)
(* VERIFY_PERMISSION, {} where the branch has none) and the fields it      *)
(* writes.  Each lists options of one mask that are the user's alone; one  *)
(* field, setting, stands for what such an option writes.                  *)
Opt(classes, fields) == [perm |-> classes, sets |-> fields]
Each(names, classes) == [n \in names |-> Opt(classes, {"setting"})]

Opt_Management ==
    Each({"management", "management_client_user", "management_client_group",
          "management_query_passwords", "management_query_remote", "management_query_proxy",
          "management_hold", "management_signal", "management_forget_disconnect",
          "management_up_down", "management_client", "management_external_key"},
         {"GENERAL"}) @@
    [echo |-> Opt({"ECHO"}, {}), parameter |-> Opt({"ECHO"}, {})]
Opt_ManagementAndDevice ==
    Each({"management_external_cert", "management_client_auth", "management_log_cache", "mode",
          "dev", "dev_type", "windows_driver", "dev_node", "iproute"},
         {"GENERAL"}) @@
    Each({"plugin"}, {"PLUGIN"}) @@
    [disable_dco |-> Opt({}, {"disable_dco"}), lladdr |-> Opt({"UP"}, {"lladdr"}),
     topology |-> Opt({"UP"}, {"topology"}), tun_ipv6 |-> Opt({}, {}),
     ifconfig |-> Opt({"UP"}, {"ifconfig_local", "ifconfig_remote_netmask"})]
Opt_Addresses ==
    Each({"local"}, {"GENERAL", "CONNECTION"}) @@
    Each({"remote_random", "connection", "ignore_unknown_option"}, {"GENERAL"}) @@
    [ifconfig_ipv6 |-> Opt({"UP"}, {"ifconfig_ipv6_local", "ifconfig_ipv6_netbits", "ifconfig_ipv6_remote"}),
     ifconfig_noexec |-> Opt({"UP"}, {"ifconfig_noexec"}),
     ifconfig_nowarn |-> Opt({"UP"}, {"ifconfig_nowarn"})]
Opt_Remotes ==
    Each({"http_proxy_override", "resolv_retry", "preresolve", "ip_remote_hint", "gremlin",
          "chroot", "cd", "setcon"},
         {"GENERAL"}) @@
    Each({"remote", "connect_retry", "connect_timeout", "server_poll_timeout",
          "connect_retry_max", "float"},
         {"GENERAL", "CONNECTION"}) @@
    Each({"ipchange"}, {"SCRIPT"})
Opt_ProcessAndLog ==
    Each({"writepid", "down_pre", "up_delay", "up_restart", "syslog", "daemon", "log",
          "suppress_timestamps", "machine_readable_output", "log_append", "mlock", "multihome",
          "status"},
         {"GENERAL"}) @@
    Each({"up", "down"}, {"SCRIPT"}) @@
    [verb |-> Opt({"MESSAGES"}, {"verbosity"}), mute |-> Opt({"MESSAGES"}, {"mute"}),
     errors_to_stderr |-> Opt({"MESSAGES"}, {})]
Opt_Mtu ==
    Each({"status_version", "remap_usr1", "mtu_test", "mark"}, {"GENERAL"}) @@
    Each({"link_mtu", "udp_mtu", "tun_mtu_max", "tun_mtu_extra", "max_packet_size",
          "mtu_dynamic", "fragment", "mtu_disc"},
         {"MTU", "CONNECTION"}) @@
    Each({"nice"}, {"NICE"}) @@
    [tun_mtu |-> Opt({"PUSH_MTU", "CONNECTION"}, {"ce.occ_mtu", "ce.tun_mtu", "ce.tun_mtu_defined"}),
     rcvbuf |-> Opt({"SOCKBUF"}, {"rcvbuf"}), sndbuf |-> Opt({"SOCKBUF"}, {"sndbuf"})]
Opt_SocketAndTimers ==
    Each({"txqueuelen", "fast_io", "proto_force"}, {"GENERAL"}) @@
    Each({"port", "lport", "rport", "bind", "nobind", "proto"}, {"GENERAL", "CONNECTION"}) @@
    [socket_flags |-> Opt({"SOCKFLAGS"}, {"sockflags"}),
     bind_dev |-> Opt({"SOCKFLAGS"}, {"bind_dev"}), shaper |-> Opt({"SHAPER"}, {"shaper"}),
     inactive |-> Opt({"TIMER"}, {"inactivity_minimum_bytes", "inactivity_timeout"}),
     session_timeout |-> Opt({"TIMER"}, {"session_timeout"})]
Opt_ProxiesAndPing ==
    Each({"http_proxy", "http_proxy_retry", "socks_proxy_retry", "http_proxy_timeout",
          "http_proxy_option", "socks_proxy"},
         {"GENERAL", "CONNECTION"}) @@
    Each({"http_proxy_user_pass", "keepalive"}, {"GENERAL"}) @@
    [ping |-> Opt({"TIMER"}, {"ping_send_timeout"}),
     ping_exit |-> Opt({"TIMER"}, {"ping_rec_timeout", "ping_rec_timeout_action"}),
     ping_restart |-> Opt({"TIMER"}, {"ping_rec_timeout", "ping_rec_timeout_action"})]
Opt_PersistAndRoutes ==
    Each({"persist_local_ip", "persist_remote_ip"}, {"PERSIST_IP"}) @@
    Each({"route_table"}, {"ROUTE_TABLE"}) @@
    Each({"route_up", "route_pre_down"}, {"SCRIPT"}) @@
    [ping_timer_rem |-> Opt({"TIMER"}, {"ping_timer_remote"}),
     explicit_exit_notify |-> Opt({"GENERAL", "CONNECTION", "EXPLICIT_NOTIFY"}, {"ce.explicit_exit_notification"}),
     persist_tun |-> Opt({"PERSIST"}, {"persist_tun"}), persist_key |-> Opt({"PERSIST"}, {}),
     client_nat |-> Opt({"ROUTE"}, {"client_nat"}), route |-> Opt({"ROUTE"}, {"routes"}),
     route_ipv6 |-> Opt({"ROUTE"}, {"routes_ipv6"}), max_routes |-> Opt({}, {}),
     route_gateway |-> Opt({"ROUTE_EXTRAS"}, {"route_default_gateway", "route_gateway_via_dhcp"}),
     route_ipv6_gateway |-> Opt({}, {"route_ipv6_default_gateway"}),
     route_metric |-> Opt({"ROUTE"}, {"route_default_metric"}),
     route_delay |-> Opt({"ROUTE_EXTRAS"}, {"route_delay", "route_delay_defined", "route_delay_window"})]
Opt_Redirect ==
    Each({"route_nopull", "pull_filter", "allow_pull_fqdn", "remote_random_hostname"},
         {"GENERAL"}) @@
    Each({"route_noexec"}, {"SCRIPT"}) @@
    [redirect_gateway |-> Opt({"ROUTE"}, {"env", "routes", "routes_ipv6"}),
     redirect_private |-> Opt({"ROUTE"}, {"env", "routes", "routes_ipv6"}),
     block_ipv6 |-> Opt({"ROUTE"}, {"block_ipv6"})]
Opt_EnvironmentAndServer ==
    Each({"setenv", "script_security", "disable_occ", "server"}, {"GENERAL"}) @@
    Each({"mssfix"}, {"GENERAL", "CONNECTION"}) @@
    [compat_mode |-> Opt({}, {"backwards_compatible"}), setenv_safe |-> Opt({"SETENV"}, {"env"})]
Opt_ServerNetworks ==
    Each({"server_ipv6", "server_bridge", "ifconfig_pool", "ifconfig_pool_persist",
          "ifconfig_ipv6_pool", "hash_size"},
         {"GENERAL"}) @@
    Each({"push"}, {"PUSH"}) @@
    Each({"push_reset", "push_remove"}, {"INSTANCE"})
Opt_ServerLimits ==
    Each({"connect_freq", "connect_freq_initial", "max_clients", "client_cert_not_required",
          "verify_client_cert", "username_as_common_name", "auth_user_pass_optional",
          "opt_verify", "auth_gen_token", "auth_gen_token_secret"},
         {"GENERAL"}) @@
    Each({"max_routes_per_client"}, {"INHERIT"}) @@
    Each({"auth_user_pass_verify"}, {"SCRIPT"})
Opt_ServerClients ==
    Each({"tmp_dir", "client_config_dir", "ccd_exclusive", "bcast_buffers", "tcp_queue_limit",
          "port_share", "client_to_client", "duplicate_cn", "ifconfig_push_constraint"},
         {"GENERAL"}) @@
    Each({"client_connect", "client_crresponse", "client_disconnect", "learn_address"},
         {"SCRIPT"}) @@
    Each({"iroute", "iroute_ipv6", "ifconfig_push"}, {"INSTANCE"})
Opt_PerClient ==
    Each({"tcp_nodelay", "stale_routes_check", "client", "pull", "auth_user_pass", "auth_retry"},
         {"GENERAL"}) @@
    Each({"ifconfig_ipv6_push", "disable", "override_username"}, {"INSTANCE"}) @@
    [push_continuation |-> Opt({"PULL_MODE"}, {"push_continuation"})]
Opt_Windows ==
    Each({"static_challenge", "msg_channel", "win_sys"}, {"GENERAL"}) @@
    [route_method |-> Opt({"ROUTE_EXTRAS"}, {"route_method"}),
     ip_win32 |-> Opt({"DHCPDNS"}, {"route_delay_window", "tuntap_options"})]
Opt_Dns ==
    Each({"dns_updown"}, {"SCRIPT"}) @@
    [dns |-> Opt({"DHCPDNS"}, {"dns_options"})]
Opt_Dhcp ==
    Each({"show_adapters", "show_net"}, {"GENERAL"}) @@
    [dhcp_option |-> Opt({"DHCPDNS"}, {"dns_options", "tuntap_options", "env", "foreign_option_index"}),
     show_net_up |-> Opt({"UP"}, {"show_net_up"}),
     tap_sleep |-> Opt({"DHCPDNS"}, {"tuntap_options"}),
     dhcp_renew |-> Opt({"DHCPDNS"}, {"tuntap_options"})]
Opt_WindowsAndUser ==
    Each({"dhcp_internal", "rdns_internal", "show_valid_subnets", "pause_exit", "service",
          "allow_nonadmin", "user", "group", "passtos"},
         {"GENERAL"}) @@
    [dhcp_pre_release |-> Opt({"DHCPDNS"}, {"tuntap_options"}), dhcp_release |-> Opt({}, {}),
     register_dns |-> Opt({"DHCPDNS"}, {"tuntap_options"}),
     block_outside_dns |-> Opt({"DHCPDNS"}, {"block_outside_dns"})]
Opt_Compression ==
    Each({"allow_compression", "show_ciphers", "show_digests", "show_engines"},
         {"GENERAL"}) @@
    [comp_lzo |-> Opt({"COMP"}, {"comp"}), comp_noadapt |-> Opt({}, {}),
     compress |-> Opt({"COMP"}, {"comp"})]
Opt_StaticKeyAndCiphers ==
    Each({"key_direction"}, {"GENERAL", "CONNECTION"}) @@
    Each({"secret", "allow_deprecated_insecure_static_crypto", "genkey", "auth"},
         {"GENERAL"}) @@
    Each({"data_ciphers_fallback", "data_ciphers", "ncp_ciphers"}, {"GENERAL", "INSTANCE"}) @@
    [cipher |-> Opt({"NCP", "INSTANCE"}, {"ciphername"}),
     key_derivation |-> Opt({"NCP"}, {"imported_protocol_flags"})]
Opt_CryptoAndTlsMode ==
    Each({"force_tls_key_material_export", "no_replay", "replay_window", "mute_replay_warnings",
          "replay_persist", "test_crypto", "engine", "show_tls", "show_curves", "show_groups",
          "ecdh_curve", "tls_server", "tls_client", "ca", "capath"},
         {"GENERAL"}) @@
    [protocol_flags |-> Opt({"NCP"}, {"imported_protocol_flags"}), prng |-> Opt({}, {}),
     providers |-> Opt({}, {"providers"})]
Opt_Certificates ==
    Each({"dh", "cert", "extra_certs", "verify_hash", "peer_fingerprint", "cryptoapicert",
          "key", "tls_version_min", "tls_version_max", "pkcs12", "askpass"},
         {"GENERAL"})
Opt_TlsPolicy ==
    Each({"auth_nocache", "single_session", "push_peer_info", "tls_exit", "tls_cipher",
          "tls_cert_profile", "tls_ciphersuites", "tls_groups", "crl_verify", "compat_names",
          "no_name_remapping", "verify_x509_name", "ns_cert_type"},
         {"GENERAL"}) @@
    Each({"tls_verify", "tls_export_cert"}, {"SCRIPT"}) @@
    [auth_token |-> Opt({"ECHO"}, {"auth_token"}),
     auth_token_user |-> Opt({"ECHO"}, {"auth_token_user"})]
Opt_PeerCertAndTimers ==
    Each({"remote_cert_ku", "remote_cert_eku", "remote_cert_tls"}, {"GENERAL"}) @@
    Each({"tls_auth", "tls_crypt"}, {"GENERAL", "CONNECTION"}) @@
    Each({"tls_timeout", "reneg_bytes", "reneg_pkts", "reneg_sec", "hand_window", "tran_window"},
         {"TLS_PARMS"})
Opt_TlsCryptAndPkcs11 ==
    Each({"tls_crypt_v2"}, {"GENERAL", "CONNECTION"}) @@
    Each({"tls_crypt_v2_verify", "tls_crypt_v2_max_age", "x509_track", "x509_username_field",
          "show_pkcs11_ids", "pkcs11_providers", "pkcs11_protected_authentication",
          "pkcs11_private_mode", "pkcs11_cert_private", "pkcs11_pin_cache"},
         {"GENERAL"})
Opt_Pkcs11AndVlan ==
    Each({"pkcs11_id", "pkcs11_id_management", "rmtun", "mktun", "keying_material_exporter",
          "allow_recursive_routing", "vlan_tagging", "vlan_accept"},
         {"GENERAL"}) @@
    Each({"vlan_pvid"}, {"GENERAL", "INSTANCE"}) @@
    [peer_id |-> Opt({"PEER_ID"}, {"peer_id", "use_peer_id"})]

Options ==
    Opt_Management @@ Opt_ManagementAndDevice @@ Opt_Addresses @@ Opt_Remotes @@
    Opt_ProcessAndLog @@ Opt_Mtu @@ Opt_SocketAndTimers @@ Opt_ProxiesAndPing @@
    Opt_PersistAndRoutes @@ Opt_Redirect @@ Opt_EnvironmentAndServer @@ Opt_ServerNetworks @@
    Opt_ServerLimits @@ Opt_ServerClients @@ Opt_PerClient @@ Opt_Windows @@ Opt_Dns @@
    Opt_Dhcp @@ Opt_WindowsAndUser @@ Opt_Compression @@ Opt_StaticKeyAndCiphers @@
    Opt_CryptoAndTlsMode @@ Opt_Certificates @@ Opt_TlsPolicy @@ Opt_PeerCertAndTimers @@
    Opt_TlsCryptAndPkcs11 @@ Opt_Pkcs11AndVlan

-----------------------------------------------------------------------------
Classes ==
    {"GENERAL", "UP", "ROUTE", "DHCPDNS", "SCRIPT", "SETENV", "SHAPER", "TIMER", "PERSIST",
     "PERSIST_IP", "COMP", "MESSAGES", "NCP", "TLS_PARMS", "MTU", "NICE", "PUSH", "INSTANCE",
     "CONFIG", "EXPLICIT_NOTIFY", "ECHO", "INHERIT", "ROUTE_EXTRAS", "PULL_MODE", "PLUGIN",
     "SOCKBUF", "SOCKFLAGS", "CONNECTION", "PEER_ID", "INLINE", "PUSH_MTU", "ROUTE_TABLE"}

OPT_P_DEFAULT == Classes \ {"INSTANCE", "PULL_MODE"}

pull_permission_mask ==
    {"UP", "ROUTE_EXTRAS", "SOCKBUF", "SOCKFLAGS", "SETENV", "SHAPER", "TIMER", "COMP",
     "PERSIST", "MESSAGES", "EXPLICIT_NOTIFY", "ECHO", "PULL_MODE", "PEER_ID", "NCP",
     "PUSH_MTU"}
    \cup (IF nopull THEN {} ELSE {"ROUTE", "DHCPDNS"})

\* A branch without VERIFY_PERMISSION takes its option from anywhere.
verify_permission(o, allowed) ==
    Options[o].perm = {} \/ Options[o].perm \cap allowed # {}

updatable_options ==
    {"block_ipv6", "block_outside_dns", "dhcp_option", "dns", "ifconfig", "ifconfig_ipv6",
     "push_continuation", "redirect_gateway", "redirect_private", "route", "route_gateway",
     "route_ipv6", "route_metric", "topology", "tun_mtu", "keepalive"}

\* The branches of remove_option that exist.
Removable == updatable_options \ {"keepalive"}

\* Fields an option adds to, instead of replacing them.
Accumulates ==
    {"routes", "routes_ipv6", "client_nat", "dns_options", "tuntap_options", "env",
     "imported_protocol_flags"}

add_option(v, source) ==
    [f \in DOMAIN v |-> IF f \in Accumulates THEN v[f] \cup {source} ELSE {source}]

\* update_option first drops the old lists, remove_option sets the defaults.
Cleared(v) == [f \in DOMAIN v |-> {}]

-----------------------------------------------------------------------------
\* What pre_connect_save copies of the configuration.
PreConnect ==
    {"tuntap_options", "foreign_option_index", "routes", "routes_ipv6", "client_nat",
     "ifconfig_local", "ifconfig_ipv6_local", "route_default_gateway",
     "route_ipv6_default_gateway", "dns_options", "ciphername", "authname", "ping_rec_timeout",
     "ping_rec_timeout_action", "ping_send_timeout", "comp"}

\* The connection entry a push can write to.
ConnectionEntry ==
    {"ce.tun_mtu", "ce.occ_mtu", "ce.tun_mtu_defined", "ce.explicit_exit_notification"}

pre_connect_save(v) == [f \in DOMAIN v \cap (PreConnect \cup ConnectionEntry \cup {"env"}) |-> v[f]]

\* What pre_connect_restore sets to zero.
Zeroed == {"push_continuation", "imported_protocol_flags"}

\* Mutant: compression is not among the options that are put back.
pre_connect_restore_NoComp(v) ==
    [f \in DOMAIN v |-> IF f \in PreConnect \ {"comp"} THEN pre_connect[f]
                        ELSE IF f \in Zeroed THEN {}
                        ELSE v[f]]

pre_connect_restore(v) ==
    [f \in DOMAIN v |-> IF f \in PreConnect THEN pre_connect[f]
                        ELSE IF f \in Zeroed THEN {}
                        ELSE v[f]]

\* next_connection_entry copies the entry of the list, and init_instance
\* inherits a new environment from the one of the process.
NewContext(v) ==
    [f \in DOMAIN v |-> IF f \in ConnectionEntry \cup {"env"} THEN pre_connect[f] ELSE v[f]]

-----------------------------------------------------------------------------
Init ==
    /\ opt \in DOMAIN Options
    /\ nopull \in IF Options[opt].perm \cap {"ROUTE", "DHCPDNS"} = {} THEN {FALSE} ELSE BOOLEAN
    /\ phase = "config"
    /\ conn = 0
    /\ field = [f \in Options[opt].sets |-> {}]
    /\ pre_connect = <<>> /\ own = field
    /\ found = {}
    /\ updates = 0

\* The configuration is read, with or without the option.
ReadConfig ==
    /\ phase = "config"
    /\ \E given \in BOOLEAN :
          LET v == IF given /\ verify_permission(opt, OPT_P_DEFAULT)
                   THEN add_option(field, 0) ELSE field
          IN  field' = v /\ own' = v /\ pre_connect' = pre_connect_save(v)
    /\ phase' = "restart"
    /\ UNCHANGED <<opt, nopull, conn, found, updates>>

Connect ==
    /\ phase = "restart"
    /\ conn < MaxConnections
    /\ phase' = "connecting"
    /\ conn' = conn + 1
    /\ field' = pre_connect_restore(NewContext(field))
    /\ found' = {}
    /\ updates' = 0
    /\ UNCHANGED <<opt, nopull, pre_connect, own>>

\* apply_push_options of a PUSH_REPLY that names the option or does not.
PushReply ==
    /\ phase = "connecting"
    /\ \E given \in BOOLEAN :
          IF given /\ verify_permission(opt, pull_permission_mask)
          THEN field' = add_option(field, conn) /\ found' = Options[opt].perm
          ELSE field' = field /\ found' = {}
    /\ phase' = "up"
    /\ UNCHANGED <<opt, nopull, conn, pre_connect, own, updates>>

\* apply_push_options of a PUSH_UPDATE that names the option, to set or to
\* remove it; one that is not updatable restarts the client.
PushUpdate ==
    /\ phase = "up"
    /\ updates < MaxUpdates
    /\ updates' = updates + 1
    /\ \E remove \in BOOLEAN :
          IF opt \notin updatable_options
          THEN phase' = "restart" /\ UNCHANGED <<field, found>>
          ELSE /\ phase' = phase
               /\ IF remove /\ opt \in Removable /\ verify_permission(opt, pull_permission_mask)
                  THEN field' = Cleared(field) /\ found' = Options[opt].perm
                  ELSE IF ~remove /\ verify_permission(opt, pull_permission_mask)
                  THEN field' = add_option(Cleared(field), conn) /\ found' = Options[opt].perm
                  ELSE field' = field /\ found' = {}
    /\ UNCHANGED <<opt, nopull, conn, pre_connect, own>>

\* do_deferred_options refuses what was pulled (compression that is not
\* allowed, a mode the kernel does not offer), or any other SIGUSR1.
Restart ==
    /\ phase \in {"connecting", "up"}
    /\ phase' = "restart"
    /\ UNCHANGED <<opt, nopull, conn, field, pre_connect, own, found, updates>>

Next == ReadConfig \/ Connect \/ PushReply \/ PushUpdate \/ Restart

Spec == Init /\ [][Next]_vars

-----------------------------------------------------------------------------
TypeOK ==
    /\ opt \in DOMAIN Options /\ Options[opt].perm \subseteq Classes
    /\ conn \in 0..MaxConnections
    /\ field \in [Options[opt].sets -> SUBSET (0..MaxConnections)]
    /\ found \subseteq Classes

\* The fields nothing puts back: a value a server pushed holds on the next connection too,
\* also to another server, unless that one pushes its own.  (The token is meant for the
\* next connection; compat-mode and providers are read only when the program starts.)
Kept ==
    {"auth_token", "auth_token_user", "lladdr", "topology", "ifconfig_remote_netmask",
     "ifconfig_noexec", "ifconfig_nowarn", "ifconfig_ipv6_netbits", "ifconfig_ipv6_remote",
     "verbosity", "mute", "rcvbuf", "sndbuf", "sockflags", "bind_dev", "shaper",
     "inactivity_minimum_bytes", "inactivity_timeout", "session_timeout", "ping_timer_remote",
     "persist_tun", "route_gateway_via_dhcp", "route_default_metric", "route_delay",
     "route_delay_defined", "route_delay_window", "block_ipv6", "route_method",
     "block_outside_dns", "peer_id", "use_peer_id", "show_net_up", "disable_dco",
     "backwards_compatible", "providers"}

\* An address and what is only kept beside it.
Beside ==
    {<<"ifconfig_local", "ifconfig_remote_netmask">>,
     <<"ifconfig_ipv6_local", "ifconfig_ipv6_netbits">>,
     <<"ifconfig_ipv6_local", "ifconfig_ipv6_remote">>}

\* Whatever was pushed, updated and removed before, a connection starts with exactly what
\* the configuration says of addresses, routes, NAT, name servers, adapter, cipher, ping,
\* compression, MTU, exit notification and environment, and adds only what its own server
\* pushes (pre_connect_restore, the connection entry, do_inherit_env); the fields of Kept
\* are not among them.  An address of the tunnel is set up with the netmask or the
\* remote end of the same push, although these are kept, unless the configuration has an
\* address of its own.  With --route-nopull no pushed route or DNS setting is taken, and what is
\* the user's alone (scripts, files, keys, remotes, the server's options) no server sets.
PushEndsWithConnection ==
    /\ phase = "connecting" =>
          \A f \in DOMAIN field \ Kept : field[f] = IF f \in Zeroed THEN {} ELSE own[f]
    /\ phase = "up" =>
          \A f \in DOMAIN field \ Kept : field[f] \subseteq own[f] \cup {conn}
    /\ phase = "up" =>
          \A p \in Beside : (p[1] \in DOMAIN field /\ own[p[1]] = {} /\ field[p[1]] # {}) =>
                             field[p[2]] = field[p[1]]
    /\ nopull => \A f \in DOMAIN field \cap {"routes", "routes_ipv6", "dns_options"} :
                    field[f] \subseteq {0}
    /\ "setting" \in DOMAIN field => field["setting"] \subseteq {0}

=============================================================================
