---------------------------- MODULE MCDataChannel ----------------------------
(***************************************************************************)
(* The data channel for TLC: packet ids in their four settings, which are  *)
(* the long form with a window (the constants of the configuration), the   *)
(* short form with a window, the TCP mode without one, and the long form   *)
(* with --replay-persist; epoch keys; and what surrounds them: fragments,  *)
(* the negotiation of ciphers, and the keys and peers of the kernel when   *)
(* it carries the data channel.  They share nothing: part says which one a *)
(* behaviour is about.  The last four share the variables d1 to d9.        *)
(***************************************************************************)
EXTENDS PacketId, EpochKeys

VARIABLES
    part,                           \* the setting
    xnow, xsend, xrec, xsent, xseen,  \* the state of the other settings
    up, persist, file, starts, loaded, got, prior,
    d1, d2, d3, d4, d5, d6, d7, d8, d9   \* shared by the parts around the keys

xvars == <<xnow, xsend, xrec, xsent, xseen>>
disk == <<up, persist, file, starts, loaded, got, prior>>
around == <<d1, d2, d3, d4, d5, d6, d7, d8, d9>>

Short == INSTANCE PacketId WITH
    TimeBacktrack <- 1, ReapInterval <- 2, PacketIdMax <- 5,
    LongForm <- FALSE, MaxNow <- 6,
    now <- xnow, send <- xsend, rec <- xrec, sent <- xsent, seen <- xseen

Tcp == INSTANCE PacketId WITH
    SeqBacktrack <- 0, TimeBacktrack <- 0, ReapInterval <- 2, PacketIdMax <- 3,
    LongForm <- TRUE, MaxNow <- 4,
    now <- xnow, send <- xsend, rec <- xrec, sent <- xsent, seen <- xseen

Disk == INSTANCE PacketIdPersist WITH
    TimeBacktrack <- 1, ReapInterval <- 1, PacketIdMax <- 3,
    LongForm <- TRUE, MaxNow <- 3, MaxStarts <- 3,
    now <- xnow, send <- xsend, rec <- xrec, sent <- xsent

-----------------------------------------------------------------------------
FragmentConfigs == {[max |-> 9, wild |-> TRUE, starts |-> {5, 6}], [max |-> 9, wild |-> FALSE, starts |-> {1, 5}]}
Fragments == INSTANCE Fragment WITH
    N_SEQ_ID <- 8, N_FRAG_BUF <- 2, MAX_FRAGS <- 3, Round <- 2, Capacity <- 16, Lengths <- {10, 13},
    MaxPackets <- 3, Configs <- FragmentConfigs,
    cfg <- d1, out <- d2, net <- d3, in <- d4, lens <- d5, got <- d6, done <- d7, last <- d8

-----------------------------------------------------------------------------
CipherLists == {<<"AES-256-GCM", "AES-128-GCM">>, <<"AES-128-GCM", "AES-256-GCM">>,
                <<"AES-128-GCM", "AES-256-GCM", "AES-256-CBC">>, <<"AES-256-CBC">>}
CipherConfig(kind, list, cipher, fallback, occ, epoch) ==
    [kind |-> kind, list |-> list, cipher |-> cipher, fallback |-> fallback, occ |-> occ, epoch |-> epoch, needs |-> {}]
NewPeers == {CipherConfig("new", l, c, FALSE, o, e) :
                l \in CipherLists, c \in {"BF-CBC", "AES-256-CBC"}, o \in BOOLEAN, e \in BOOLEAN}
WithFallback == NewPeers \cup {[k EXCEPT !.fallback = TRUE] : k \in {p \in NewPeers : p.epoch}}
OldPeers == {CipherConfig("old", <<>>, c, TRUE, o, FALSE) : c \in {"BF-CBC", "AES-256-CBC"}, o \in BOOLEAN}
Peers24 == {[k EXCEPT !.kind = "v24", !.list = <<"AES-256-GCM", "AES-128-GCM">>] : k \in OldPeers}
Insisting == {[k EXCEPT !.needs = n] : k \in {p \in WithFallback : p.fallback}, n \in {{"v2"}, {"export"}, {"v2", "export"}}}
Negotiation(p2p, c, s, changes) == [p2p |-> p2p, c |-> c, s |-> s, changes |-> changes]
NcpConfigs ==
    {Negotiation(FALSE, c, s, {}) : c \in WithFallback \cup OldPeers \cup Peers24, s \in WithFallback}
    \cup {Negotiation(FALSE, c, s, {}) : c \in WithFallback, s \in OldPeers}
    \cup {Negotiation(FALSE, c, s, {}) : c \in {k \in WithFallback : k.occ} \cup OldPeers \cup Peers24, s \in Insisting}
    \cup {Negotiation(TRUE, CipherConfig("new", <<"AES-256-GCM", "AES-128-GCM">>, "BF-CBC", fallback, TRUE, TRUE),
                            CipherConfig("new", <<"AES-256-CBC">>, "BF-CBC", fallback, TRUE, TRUE),
                            {k \in WithFallback \cup OldPeers : k.cipher = "BF-CBC" /\ k.occ}) : fallback \in BOOLEAN}
Ciphers == INSTANCE Ncp WITH Configs <- NcpConfigs, cfg <- d1, cur <- d2, opt <- d3, step <- d4

-----------------------------------------------------------------------------
Dual == [pushed |-> {"ipv4", "ipv6"}, iroutes |-> {"ipv4"}, extra |-> {"ipv6"}]
Single == [pushed |-> {"ipv4"}, iroutes |-> {"ipv4", "ipv6"}, extra |-> {"ipv4"}]
KernelConfig(platform, mode, net) ==
    [platform |-> platform, mode |-> mode, net |-> net, faults |-> TRUE, collide |-> mode = "mp"]
KernelConfigs == {KernelConfig("linux", "mp", Dual), KernelConfig("freebsd", "mp", Single),
                  KernelConfig("windows", "mp", Dual), KernelConfig("linux", "p2p", Dual),
                  KernelConfig("freebsd", "p2p", Single)}
Kernel == INSTANCE Dco WITH
    MaxKeys <- 5, KeyConfigs <- [platform : {"linux", "windows"}, single_session : BOOLEAN, faults : BOOLEAN],
    PeerIds <- {0, 1}, MaxConns <- 3, MaxNotes <- 1, PeerConfigs <- KernelConfigs, cfg <- d1,
    key <- d2, dco <- d3, nkeys <- d4, failed <- d5, sig <- d6, third <- d7,
    inst <- d2, kern <- d3, late <- d4, q <- d5, wait <- d6, status <- d7, host <- d8, n <- d9

-----------------------------------------------------------------------------
Idle == "idle"
Idle9 == d9 = Idle
Idle8 == d8 = Idle /\ Idle9
Idle7 == d7 = Idle /\ Idle8
Idle5 == d5 = Idle /\ d6 = Idle /\ Idle7
Idle1 == d1 = Idle /\ d2 = Idle /\ d3 = Idle /\ d4 = Idle /\ Idle5

MCInit ==
    /\ Init
    /\ \/ part \in {"long", "short", "epoch"} /\ Short!Init /\ Idle1
       \/ part = "tcp" /\ Tcp!Init /\ Idle1
       \/ part = "persist" /\ xnow = 2 /\ xsend = Disk!NoId /\ xsent = {}
                           /\ xrec = InitRec /\ xseen = {} /\ Idle1
       \/ part = "fragment" /\ Short!Init /\ Fragments!Init /\ Idle9
       \/ part = "ncp" /\ Short!Init /\ Ciphers!Init /\ Idle5
       \/ part = "kernel keys" /\ Short!Init /\ Kernel!KeysInit /\ Idle8
       \/ part = "kernel peers" /\ Short!Init /\ Kernel!PeersInit
    /\ up = FALSE /\ persist = Disk!packet_id_persist_init /\ file = Disk!NoId
    /\ starts = 0 /\ loaded = Disk!NoId /\ got = {} /\ prior = {}
    /\ EpochInit

MCNext ==
    /\ UNCHANGED part
    /\ \/ part = "long" /\ Next /\ UNCHANGED <<xvars, disk, keys, around>>
       \/ part = "short" /\ Short!Next /\ UNCHANGED <<vars, disk, keys, around>>
       \/ part = "tcp" /\ Tcp!Next /\ UNCHANGED <<vars, disk, keys, around>>
       \/ part = "persist" /\ Disk!Next /\ UNCHANGED <<vars, xseen, keys, around>>
       \/ part = "epoch" /\ EpochNext /\ UNCHANGED <<vars, xvars, disk, around>>
       \/ part = "fragment" /\ Fragments!Next /\ UNCHANGED <<vars, xvars, disk, keys, d9>>
       \/ part = "ncp" /\ Ciphers!Next /\ UNCHANGED <<vars, xvars, disk, keys, d5, d6, d7, d8, d9>>
       \/ part = "kernel keys" /\ Kernel!KeysNext /\ UNCHANGED <<vars, xvars, disk, keys, d8, d9>>
       \/ part = "kernel peers" /\ Kernel!PeersNext /\ UNCHANGED <<vars, xvars, disk, keys>>

MCSpec == MCInit /\ [][MCNext]_<<vars, xvars, disk, keys, around, part>>

-----------------------------------------------------------------------------
\* What holds of the long form holds in the other settings: the short form
\* with a window and TCP without one accept no packet twice and drop none
\* without cause, and the persisted id is a floor: a restarted session accepts
\* nothing older than the window behind it (packet_id_persist_load_obj).
RejectsInEverySetting ==
    /\ part = "short" => Short!NoReplay /\ Short!RejectsWithCause
    /\ part = "tcp" => Tcp!NoReplay /\ Tcp!RejectsWithCause
    /\ part = "persist" => Disk!LoadedIdIsFloor

\* What fragment_incoming puts together is a datagram that was sent, whatever
\* fragments are lost or overtaken; none is lost whose fragments
\* arrive in order; and no fragment is split off that need not be.
DatagramsIntact ==
    part = "fragment" =>
        Fragments!TypeOK /\ Fragments!ReassembledIsSent /\ Fragments!NothingNeedlesslyLost /\ Fragments!SplitIsMinimal

\* Two peers that negotiate a cipher use the same one with the same form of
\* keys, also after one of them restarts with another configuration, and two
\* peers with a cipher in common find it (ssl_ncp.c and its callers); only a
\* point-to-point peer whose new peer shares no cipher with it keeps the old one.
\* Whatever renegotiations, failed commands, late notices and reused ids come
\* in between, the kernel's keys and peers are the ones userspace believes it
\* has (dco_update_keys, dco_new_peer, process_incoming_del_peer), up to two
\* events that the modules name: a third usable key, for which the kernel has
\* no slot, and an instance that is closed inside the wait of its own command.
EndsAgree ==
    /\ part = "ncp" => Ciphers!TypeOK /\ Ciphers!PeersAgree /\ Ciphers!NoNeedlessFailure
    /\ part = "kernel keys" => Kernel!KeysTypeOK /\ Kernel!KernelKeysAgree /\ Kernel!PrimaryIsInstalled
    /\ part = "kernel peers" => Kernel!PeersTypeOK /\ Kernel!KernelPeersAgree
=============================================================================
