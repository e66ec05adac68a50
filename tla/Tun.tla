-------------------------------- MODULE Tun --------------------------------
(***************************************************************************)
(* The tun/tap device: tun.c, tun_afunix.c and their callers in init.c.    *)
(* A process opens a device, gives it addresses (and, on Windows, name     *)
(* servers), uses it and closes it, perhaps several times.  The state of   *)
(* the host is kept as the set of interfaces that exist and the set of     *)
(* facts the process has established about its own one; every command that *)
(* can fail may fail.  What the kernels do with a device whose last        *)
(* descriptor is closed is taken from the comments above each close_tun.   *)
(***************************************************************************)
EXTENDS Naturals, Sequences, FiniteSets

CONSTANTS Configs,     \* the platforms and options to try
          MaxOpens,    \* how often the device is opened
          TryNetsh,    \* IPW32_SET_ADAPTIVE_TRY_NETSH (20 in tun.h)
          MaxCreate    \* adapters the service may be asked for (10 in tun.c)

VARIABLES cfg,       \* platform and options
          pc,        \* how far do_open_tun has come
          tt,        \* struct tuntap
          ifs,       \* names of the interfaces of the host
          net,       \* facts established about the process's interface
          open,      \* descriptors held, as a function to their number
          children,  \* programs running behind "unix:" devices
          adapters,  \* Windows: the registry's list of adapters
          opens      \* how often the device was opened

vars == <<cfg, pc, tt, ifs, net, open, children, adapters, opens>>

Names == <<"tun0", "tun1">>
Descriptors == {"fd", "ip_fd", "if_fd", "dco_fd"}
Addresses == {"addr4", "addr6", "route4", "route6"}
Services == {"dns4", "dns6", "wins", "domain", "lease"}

Windows == cfg.os = "windows"
Afunix == cfg.driver = "afunix"

clear_tuntap == [type |-> "undef", p2p |-> FALSE, did4 |-> FALSE, did6 |-> FALSE,
                 name |-> "none", persistent |-> FALSE, ipapi |-> FALSE,
                 standby |-> 0, child |-> 0]

Init == /\ cfg \in Configs
        /\ pc = "start"
        /\ tt = clear_tuntap
        /\ ifs = cfg.exists
        /\ net = {}
        /\ open = [d \in Descriptors |-> 0]
        /\ children = {}
        /\ adapters = cfg.adapters
        /\ opens = 0

----------------------------------------------------------------------------
(* Descriptors.                                                            *)

Holding(ds) == [d \in Descriptors |-> open[d] + IF d \in ds THEN 1 ELSE 0]
Releasing(ds) == [d \in Descriptors |->
                    IF d \in ds /\ open[d] > 0 THEN open[d] - 1 ELSE open[d]]

(* msg(M_FATAL): the process ends.  The device is not closed, because      *)
(* static_context is only set once do_open_tun has finished.               *)
Fatal == /\ pc' = "fatal"
         /\ open' = [d \in Descriptors |-> 0]
         /\ UNCHANGED <<cfg, tt, ifs, net, children, adapters, opens>>

is_tun_p2p == cfg.type = "tun" /\ cfg.topology # "subnet"

ifconfig_noexec_enabled == cfg.noexec \/ Afunix \/ cfg.driver = "null"

(* init_tun and init_tun_post through do_init_tun: the object is new, or   *)
(* the one kept over a restart.                                            *)
init_tun ==
    /\ pc = "start"
    /\ opens < MaxOpens
    /\ tt' = [tt EXCEPT !.type = cfg.type, !.p2p = is_tun_p2p,
                        !.did4 = @ \/ cfg.v4, !.did6 = @ \/ cfg.v6]
    /\ opens' = opens + 1
    /\ pc' = IF cfg.os = "android" THEN "ifconfig" ELSE "open"
    /\ UNCHANGED <<cfg, ifs, net, open, children, adapters>>

----------------------------------------------------------------------------
(* Opening.                                                                *)

Opened(name, persistent, ds) ==
    /\ tt' = [tt EXCEPT !.name = name, !.persistent = @ \/ persistent]
    /\ ifs' = ifs \cup {name}
    /\ open' = Holding(ds)
    /\ pc' = IF cfg.os = "android" THEN "up" ELSE "ifconfig"
    /\ UNCHANGED <<cfg, net, children, adapters, opens>>

(* The first of dev0, dev1, ... that can be opened.                        *)
FirstFree(taken) ==
    {i \in DOMAIN Names : /\ Names[i] \notin taken
                          /\ \A j \in 1..(i - 1) : Names[j] \in taken}

(* open_tun_generic (FreeBSD, OpenBSD, NetBSD, DragonFly, macOS, Haiku):   *)
(* with a fixed name an interface that exists is remembered as persistent; *)
(* opening a node that another process holds fails.                        *)
open_tun_generic ==
    IF cfg.dev = "dynamic"
    THEN \/ \E i \in FirstFree(cfg.busy) : Opened(Names[i], FALSE, {"fd"})
         \/ FirstFree(cfg.busy) = {} /\ Fatal
    ELSE \/ cfg.dev \notin cfg.busy /\ Opened(cfg.dev, cfg.dev \in ifs, {"fd"})
         \/ cfg.dev \in cfg.busy /\ Fatal

(* open_tun_dco_generic: "tun" takes the first free name, any other name   *)
(* may exist already (EEXIST).                                             *)
open_tun_dco_generic ==
    IF cfg.dev = "dynamic"
    THEN \/ \E i \in FirstFree(ifs) : Opened(Names[i], FALSE, {"dco_fd"})
         \/ Fatal
    ELSE \/ Opened(cfg.dev, cfg.dev \in ifs, {"dco_fd"})
         \/ cfg.dev \notin ifs /\ Fatal

(* open_tun on Linux without offload: the clone device, then TUNSETIFF;    *)
(* the kernel names an interface "tun" or "tap" itself.                    *)
open_tun_linux ==
    \/ cfg.dev = "dynamic" /\ \E i \in FirstFree(ifs) : Opened(Names[i], FALSE, {"fd"})
    \/ cfg.dev \notin (cfg.busy \cup {"dynamic"}) /\ Opened(cfg.dev, FALSE, {"fd"})
    \/ Fatal

(* open_tun on Solaris: three streams, of which the interface's is linked  *)
(* under the IP one and stays open.                                        *)
open_tun_solaris ==
    \/ /\ cfg.dev = "dynamic"
       /\ \E i \in FirstFree(ifs) : Opened(Names[i], FALSE, {"fd", "ip_fd", "if_fd"})
    \/ /\ cfg.dev \notin ifs \cup {"dynamic"}
       /\ Opened(cfg.dev, FALSE, {"fd", "ip_fd", "if_fd"})
    \/ Fatal

(* open_tun on AIX: the device is created with ifconfig unless its node    *)
(* exists, and then it is kept.                                            *)
open_tun_aix ==
    \/ cfg.dev = "dynamic" /\ \E i \in FirstFree(ifs) : Opened(Names[i], FALSE, {"fd"})
    \/ cfg.dev # "dynamic" /\ Opened(cfg.dev, cfg.dev \in ifs, {"fd"})
    \/ Fatal

(* open_darwin_utun, then the tun kernel extension when --dev-node does    *)
(* not ask for utun.                                                       *)
open_tun_darwin ==
    \/ \E i \in FirstFree(ifs) : Opened(Names[i], FALSE, {"fd"})
    \/ open_tun_generic

(* open_tun on Android: the management client passes a new descriptor or   *)
(* asks for the old one to be kept; a descriptor of the previous tunnel is *)
(* closed after the new one has been opened.                               *)
open_tun_android ==
    \E method \in {"keep", "before_close"} :
      \/ /\ open["fd"] = 0 \/ method = "before_close"
         /\ \/ Opened("vpnservice-tun", FALSE, IF open["fd"] = 0 THEN {"fd"} ELSE {})
            \/ Fatal
      \/ open["fd"] > 0 /\ method = "keep" /\ Opened("vpnservice-tun", FALSE, {})

(* open_tun_afunix: a socket pair, one end for the program behind the      *)
(* device; if the program has already ended its id is forgotten.           *)
open_tun_afunix ==
    \/ \E runs \in BOOLEAN :
         /\ children' = IF runs THEN children \cup {opens} ELSE children
         /\ tt' = [tt EXCEPT !.name = "internal", !.child = IF runs THEN opens ELSE 0]
         /\ open' = Holding({"fd"})
         /\ pc' = "up"
         /\ UNCHANGED <<cfg, ifs, net, adapters, opens>>
    \/ Fatal

open_tun_null ==
    /\ tt' = [tt EXCEPT !.name = "null"]
    /\ pc' = "up"
    /\ UNCHANGED <<cfg, ifs, net, open, children, adapters, opens>>

----------------------------------------------------------------------------
(* Windows: choosing an adapter (tun_open_device).                         *)

Suitable(i) == adapters[i].driver = cfg.driver /\ ~adapters[i].busy

(* The walk over get_unspecified_device_guid(0), (1), ...; at its end the  *)
(* service is asked for another adapter and the walk starts again.         *)
Created == Len(adapters) - Len(cfg.adapters)

(* do_create_adapter_service.  Another process may take the new adapter    *)
(* before it is opened.                                                    *)
do_create_adapter_service ==
    \E busy \in BOOLEAN :
      /\ adapters' = Append(adapters, [driver |-> cfg.driver, busy |-> busy])
      /\ UNCHANGED <<cfg, pc, tt, ifs, net, open, children, opens>>

tun_open_device ==
    LET found == {i \in DOMAIN adapters : Suitable(i)}
    IN \/ /\ found # {}
          /\ \E i \in found :
               /\ \A j \in found : i <= j
               /\ tt' = [tt EXCEPT !.name = "adapter"]
               /\ open' = Holding({"fd"})
               /\ pc' = "post_open"
               /\ UNCHANGED <<cfg, ifs, net, children, adapters, opens>>
       \/ /\ found = {}
          /\ cfg.service /\ Created < MaxCreate
          /\ do_create_adapter_service
       \/ found = {} /\ Fatal

(* netsh_ifconfig with NI_IP_NETMASK and NI_OPTIONS.                       *)
netsh_ifconfig == {"addr4"} \cup (cfg.services \cap {"dns4", "wins"})

(* tuntap_set_ip_props, tuntap_set_ptp, tuntap_dhcp_mask and               *)
(* tuntap_set_ip_addr through tuntap_post_open.                            *)
tuntap_set_ip_props(static) ==
    IF cfg.ip_win32 = "dhcp" THEN {"lease"}
    ELSE IF cfg.ip_win32 = "adaptive"
         THEN IF static THEN netsh_ifconfig ELSE {"lease"}
         ELSE {}

tuntap_set_ptp_fails == cfg.type = "tun" /\ ~tt.did4 /\ ~tt.did6

tuntap_set_ip_addr == tt.did4 /\ cfg.ip_win32 = "ipapi"

tuntap_post_open ==
    /\ pc = "post_open"
    /\ \/ Fatal
       \/ \E static \in BOOLEAN :
          /\ ~tuntap_set_ptp_fails
          /\ net' = net \cup (IF tt.did4 THEN tuntap_set_ip_props(static) ELSE {})
                        \cup (IF tuntap_set_ip_addr THEN {"addr4"} ELSE {})
          /\ tt' = [tt EXCEPT !.ipapi = @ \/ tuntap_set_ip_addr]
          /\ pc' = "ifconfig"
          /\ UNCHANGED <<cfg, ifs, open, children, adapters, opens>>

(* open_tun and open_tun_backend.                                          *)
open_tun ==
    /\ pc = "open"
    /\ CASE cfg.driver = "null" -> open_tun_null
         [] Afunix -> open_tun_afunix
         [] Windows -> tun_open_device
         [] cfg.driver = "dco" -> open_tun_dco_generic
         [] cfg.os = "linux" -> open_tun_linux
         [] cfg.os = "solaris" -> open_tun_solaris
         [] cfg.os = "aix" -> open_tun_aix
         [] cfg.os = "darwin" -> open_tun_darwin
         [] cfg.os = "android" -> open_tun_android
         [] OTHER -> open_tun_generic

----------------------------------------------------------------------------
(* Addresses.                                                              *)

(* What each of the calls to the interactive service or to netsh may       *)
(* establish: a call of the service that fails is only logged.             *)
ViaService4 == {"addr4"} \cup (cfg.services \cap {"dns4", "wins", "domain"})
ViaService6 == {"addr6"} \cup (IF cfg.type = "tun" THEN {"route6"} ELSE {})
               \cup (cfg.services \cap {"dns6"})
               \cup (IF tt.did4 THEN {} ELSE cfg.services \cap {"domain"})

(* do_ifconfig_ipv4 on Windows.                                            *)
do_ifconfig_ipv4_win ==
    IF cfg.ip_win32 \in {"manual", "dhcp", "adaptive"} THEN {{}}
    ELSE IF cfg.service THEN SUBSET ViaService4
    ELSE {(IF cfg.ip_win32 = "netsh" THEN netsh_ifconfig ELSE {})
            \cup (cfg.services \cap {"domain"})}

(* do_ifconfig_ipv6 on Windows.                                            *)
do_ifconfig_ipv6_win ==
    IF cfg.ip_win32 = "manual" THEN {{}}
    ELSE IF cfg.service THEN SUBSET ViaService6
    ELSE {ViaService6}

(* do_ifconfig_ipv4 elsewhere; some systems need a route to the subnet.    *)
do_ifconfig_ipv4_unix ==
    {{"addr4"} \cup IF /\ cfg.type = "tun" /\ ~tt.p2p
                       /\ cfg.os \in {"solaris", "openbsd", "netbsd", "darwin"}
                    THEN {"route4"} ELSE {}}

do_ifconfig_ipv6_unix == {{"addr6"}}

(* do_ifconfig.  A command that fails ends the process; on Solaris the     *)
(* device is unplumbed and closed first (solaris_error_close).             *)
do_ifconfig ==
    /\ pc = "ifconfig"
    /\ \/ /\ ifconfig_noexec_enabled
          /\ net' = net
          /\ UNCHANGED <<ifs, open>>
       \/ /\ ~ifconfig_noexec_enabled
          /\ \E four \in IF ~tt.did4 THEN {{}}
                         ELSE IF Windows THEN do_ifconfig_ipv4_win ELSE do_ifconfig_ipv4_unix,
                six \in IF ~tt.did6 THEN {{}}
                        ELSE IF Windows THEN do_ifconfig_ipv6_win ELSE do_ifconfig_ipv6_unix :
               net' = net \cup four \cup six
          /\ UNCHANGED <<ifs, open>>
    /\ pc' = IF cfg.os = "android" THEN "open" ELSE "up"
    /\ UNCHANGED <<cfg, tt, children, adapters, opens>>

solaris_error_close == cfg.os = "solaris"

do_ifconfig_fails ==
    /\ pc = "ifconfig"
    /\ ~ifconfig_noexec_enabled /\ (tt.did4 \/ tt.did6)
    /\ ~(Windows /\ cfg.service)
    /\ IF solaris_error_close
       THEN /\ pc' = "fatal"
            /\ open' = [d \in Descriptors |-> 0]
            /\ ifs' = ifs \ {tt.name}
            /\ net' = {}
            /\ UNCHANGED <<cfg, tt, children, adapters, opens>>
       ELSE Fatal

----------------------------------------------------------------------------
(* Using the device.                                                       *)

(* check_add_routes while the adapter has no address: tun_standby tries    *)
(* netsh after a while and gives up (SIGHUP) after twice that.             *)
tun_standby ==
    /\ pc = "up" /\ Windows /\ tt.did4
    /\ "addr4" \notin net
    /\ cfg.ip_win32 = "adaptive"
    /\ tt.standby < 2 * TryNetsh
    /\ tt' = [tt EXCEPT !.standby = @ + 1]
    /\ net' = IF tt.standby + 1 = TryNetsh THEN net \cup netsh_ifconfig ELSE net
    /\ UNCHANGED <<cfg, pc, ifs, open, children, adapters, opens>>

(* The program behind a "unix:" device ends.                               *)
ChildEnds ==
    /\ children # {}
    /\ \E c \in children : children' = children \ {c}
    /\ UNCHANGED <<cfg, pc, tt, ifs, net, open, adapters, opens>>

(* read_tun_afunix, write_tun_afunix: a program that has ended is noticed  *)
(* and its id forgotten.                                                   *)
openvpn_waitpid_check ==
    /\ pc = "up" /\ Afunix
    /\ tt.child # 0 /\ tt.child \notin children
    /\ tt' = [tt EXCEPT !.child = 0]
    /\ UNCHANGED <<cfg, pc, ifs, net, open, children, adapters, opens>>

----------------------------------------------------------------------------
(* Closing.                                                                *)

(* undo_ifconfig: only Linux and FreeBSD have commands for it.             *)
undo_ifconfig ==
    IF ~ifconfig_noexec_enabled /\ cfg.os \in {"linux", "freebsd"}
    THEN (IF tt.did4 THEN {"addr4"} ELSE {}) \cup (IF tt.did6 THEN {"addr6"} ELSE {})
    ELSE {}

(* Does the device survive the closing of its descriptor (kernel)?         *)
Lingers == \/ tt.name \in cfg.exists
           \/ cfg.driver = "dco"
           \/ cfg.os \in {"freebsd", "aix"}
           \/ cfg.os = "openbsd" /\ cfg.type = "tap"
           \/ cfg.os = "netbsd" /\ cfg.type = "tun"
           \/ cfg.os = "solaris"

(* close_tun on the systems where it destroys the interface: with          *)
(* "ifconfig destroy", unless it was there before, ...                     *)
close_tun_freebsd == cfg.os = "freebsd" /\ ~tt.persistent
close_tun_openbsd == cfg.os = "openbsd" /\ cfg.type = "tap" /\ ~tt.persistent
\* Mutant: tap devices are destroyed, as on OpenBSD.
close_tun_netbsd_Tap == cfg.os = "netbsd" /\ cfg.type = "tap" /\ ~tt.persistent

close_tun_netbsd == cfg.os = "netbsd" /\ cfg.type = "tun" /\ ~tt.persistent
close_tun_aix == cfg.os = "aix" /\ ~tt.persistent

(* ... by unlinking its streams, or over netlink.                          *)
solaris_close_tun == cfg.os = "solaris"
close_tun_dco == cfg.os = "linux" /\ cfg.driver = "dco"

Destroys == \/ close_tun_freebsd \/ close_tun_openbsd \/ close_tun_netbsd
            \/ close_tun_aix \/ solaris_close_tun \/ close_tun_dco

(* AIX takes the address from a device it keeps.                           *)
AixDown == IF cfg.os = "aix" /\ tt.persistent THEN {"addr4"} ELSE {}

(* close_tun on Windows: what was configured is taken back in reverse.     *)
close_tun_ipv6_win ==
    IF ~tt.did6 \/ cfg.ip_win32 = "manual" THEN {}
    ELSE {"addr6", "route6", "dns6"} \cup (IF tt.did4 THEN {} ELSE {"domain"})

close_tun_ipv4_win ==
    IF ~tt.did4 \/ cfg.ip_win32 \in {"manual", "dhcp", "adaptive"} THEN {}
    ELSE IF cfg.service THEN {"wins", "domain", "dns4", "addr4"}
    ELSE {"domain"} \cup IF cfg.ip_win32 = "netsh" THEN {"dns4", "wins", "addr4"} ELSE {}

dhcp_release == IF cfg.ip_win32 = "dhcp" THEN {"lease"} ELSE {}

close_tun_win ==
    net \ (close_tun_ipv6_win \cup close_tun_ipv4_win
             \cup (IF tt.ipapi THEN {"addr4"} ELSE {}) \cup dhcp_release)

(* close_tun and close_tun_generic on the other systems.                   *)
close_tun_unix ==
    LET gone == Destroys \/ ~Lingers
    IN IF gone THEN [ifs |-> ifs \ {tt.name}, net |-> {}]
       ELSE [ifs |-> ifs, net |-> net \ (undo_ifconfig \cup AixDown)]

Closes == CASE cfg.driver = "null" -> {}
            [] cfg.os = "solaris" -> {"fd", "ip_fd"}
            [] cfg.os = "linux" -> {"fd", "dco_fd"}
            [] OTHER -> {"fd"}

(* do_close_tun_simple.                                                    *)
do_close_tun_simple ==
    /\ pc = "up"
    /\ IF Windows THEN net' = close_tun_win /\ ifs' = ifs
       ELSE ifs' = close_tun_unix.ifs /\ net' = close_tun_unix.net
    /\ open' = Releasing(Closes)
    /\ children' = IF tt.child = 0 THEN children ELSE children \ {tt.child}
    /\ tt' = clear_tuntap
    /\ pc' = "closed"
    /\ UNCHANGED <<cfg, adapters, opens>>

(* A restart with --persist-tun that cannot keep the device (afunix,       *)
(* Android): the object, with its descriptor, is used for the next opening.*)
can_preserve_tun == ~Afunix /\ cfg.os # "android"

RestartPersisted ==
    /\ pc = "up" /\ cfg.persist_tun /\ ~can_preserve_tun
    /\ opens < MaxOpens
    /\ pc' = "start"
    /\ tt' = IF cfg.os = "android" THEN clear_tuntap ELSE tt
    /\ UNCHANGED <<cfg, ifs, net, open, children, adapters, opens>>

Reopen ==
    /\ pc = "closed" /\ opens < MaxOpens
    /\ pc' = "start"
    /\ UNCHANGED <<cfg, tt, ifs, net, open, children, adapters, opens>>

Next == \/ init_tun \/ open_tun \/ tuntap_post_open
        \/ do_ifconfig \/ do_ifconfig_fails
        \/ tun_standby \/ ChildEnds \/ openvpn_waitpid_check
        \/ do_close_tun_simple \/ RestartPersisted \/ Reopen

Spec == Init /\ [][Next]_vars

----------------------------------------------------------------------------
TypeOK == /\ cfg \in Configs
          /\ pc \in {"start", "open", "post_open", "ifconfig", "up", "closed", "fatal"}
          /\ tt.type \in {"undef", "tun", "tap"}
          /\ net \subseteq Addresses \cup Services
          /\ open \in [Descriptors -> 0..MaxOpens]
          /\ children \subseteq 1..MaxOpens
          /\ Len(adapters) <= Len(cfg.adapters) + MaxCreate
          /\ opens \in 0..MaxOpens

(* What some systems leave behind by construction: addresses on interfaces *)
(* that existed before, and what "adaptive" set with netsh.                *)
LeftByDesign ==
    IF Windows THEN IF cfg.ip_win32 = "adaptive" THEN {"addr4", "dns4", "wins", "lease"} ELSE {}
    ELSE IF cfg.exists # {} /\ cfg.os \notin {"linux", "freebsd"} THEN Addresses ELSE {}

(* A closed device leaves the host as it was: no interface, address, route,*)
(* name server or lease of the tunnel remains, however many of the         *)
(* commands that set it up failed.                                         *)
TunRestored ==
    pc = "closed" => /\ ifs \subseteq cfg.exists
                     /\ net \subseteq LeftByDesign

(* Every descriptor is given back and every program behind the device is   *)
(* stopped when the device is closed, unless --persist-tun restarted a     *)
(* "unix:" device.  Two are never closed: on Solaris the stream linked     *)
(* under IP, on FreeBSD the control socket of the offload driver.          *)
DescriptorsClosed ==
    pc = "closed" /\ ~(Afunix /\ cfg.persist_tun) =>
      /\ children = {}
      /\ \A d \in Descriptors :
            open[d] > 0 => \/ cfg.os = "solaris" /\ d = "if_fd"
                           \/ cfg.os = "freebsd" /\ d = "dco_fd"

(* An interface that existed before is still there after the device is     *)
(* closed, when it was asked for by name and is not offloaded.             *)
KeepsExistingTun == pc = "closed" /\ cfg.dev # "dynamic" /\ cfg.driver # "dco" => cfg.exists \subseteq ifs
=============================================================================
