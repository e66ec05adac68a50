--------------------------------- MODULE Ncp ----------------------------------
(* The negotiation of the data channel between two peers (ssl_ncp.c and its       *)
(* callers): a server that chooses and pushes the cipher and the protocol flags   *)
(* for a client that pulls, or two point-to-point peers that come to the same     *)
(* choice from what each announced.  A point-to-point peer may be restarted with   *)
(* another configuration while the other one keeps running.                       *)
(*                                                                               *)
(* cur is the configuration a peer runs with; opt its present state: cipher        *)
(* (options.ciphername), flags (crypto_flags), v2 (use_peer_id), peer (what the     *)
(* other announced in the key exchange: peer info and options string) and status.  *)
EXTENDS Naturals, Sequences, FiniteSets, SequencesExt

CONSTANT Configs  \* [p2p: BOOLEAN, c, s: configurations, changes: of a restarted peer]

VARIABLES cfg, cur, opt, step

vars == <<cfg, cur, opt, step>>

Peers == {"c", "s"}
Other(p) == IF p = "c" THEN "s" ELSE "c"
Aead == {"AES-256-GCM", "AES-128-GCM"}
None == "none yet"

NoPeer == [list |-> <<>>, lists |-> FALSE, ncp |-> 0, proto |-> {}, cipher |-> None]

\* Options from the configuration, before anything is negotiated.
Fresh(k) == [cipher |-> k.cipher, flags |-> {}, v2 |-> FALSE, peer |-> NoPeer, pushed |-> None, pflags |-> {}, status |-> "down"]

Init ==
  /\ cfg \in Configs
  /\ cur = [p \in Peers |-> cfg[p]]
  /\ opt = [p \in Peers |-> Fresh(cfg[p])]
  /\ step = "connect"

-----------------------------------------------------------------------------
(* What a peer announces. *)

tls_item_in_cipher_list(c, list) == c \in Range(list)

\* push_peer_info: IV_PROTO of this version; peers of version 2.4 know P_DATA_V2 only.
Proto(k) ==
  CASE k.kind = "new" -> {"v2", "exit", "export", "dyn"} \cup (IF k.epoch THEN {"epoch"} ELSE {})
                         \cup (IF cfg.p2p THEN {"p2p"} ELSE {})
    [] k.kind = "v24" -> {"v2"}
    [] OTHER -> {}

\* options_string: the cipher is announced in point-to-point mode, or when it may be used.
\* A peer may be built without the options string.
Announced(k) ==
  IF k.occ /\ (cfg.p2p \/ k.kind # "new" \/ tls_item_in_cipher_list(k.cipher, k.list)) THEN k.cipher ELSE None

\* A server of several clients sends no peer info (do_init_crypto_tls).
push_peer_info(p) ==
  LET k == cur[p]
  IN  IF ~cfg.p2p /\ p = "s" THEN [NoPeer EXCEPT !.cipher = Announced(k)] ELSE
  [list |-> IF k.kind = "new" THEN k.list ELSE <<>>, lists |-> k.kind = "new",
   ncp |-> IF k.kind # "old" /\ ~cfg.p2p /\ Aead \subseteq Range(k.list) THEN 2 ELSE 0,
   proto |-> Proto(k), cipher |-> Announced(k)]

-----------------------------------------------------------------------------
(* The server's choice. *)

tls_peer_supports_ncp(i) == i.ncp >= 2 \/ i.lists

tls_peer_ncp_list(i) ==
  IF i.lists THEN i.list ELSE IF i.ncp >= 2 THEN <<"AES-256-GCM", "AES-128-GCM">> ELSE <<>>

FirstOf(list, S) ==
  LET I == {n \in 1..Len(list) : list[n] \in S}
  IN  IF I = {} THEN None ELSE list[CHOOSE n \in I : \A m \in I : n <= m]

\* The first cipher of the server's list that the client supports; the cipher of its
\* options string counts when it has sent no list.
ncp_get_best_cipher(list, i) ==
  FirstOf(list, Range(tls_peer_ncp_list(i)) \cup (IF i.lists THEN {} ELSE {i.cipher}))

\* multi_client_set_protocol_options and prepare_push_reply.  A server may insist on P_DATA_V2
\* (data channel offload) and on keys from the TLS exporter (--force-tls-key-material-export).
\* The function runs once for an instance and before its keys are generated, so its answer for
\* keys that exist already is never given.
ServerUp ==
  LET k == cur["s"]
      i == opt["s"].peer
      best == ncp_get_best_cipher(k.list, i)
      flags == (i.proto \cap {"exit", "export", "dyn"})
               \cup (IF k.epoch /\ "epoch" \in i.proto /\ best \in Aead THEN {"epoch"} ELSE {})
      cipher == IF best # None THEN best ELSE k.cipher
      ok == /\ k.needs \subseteq i.proto
            /\ best # None \/ (Len(tls_peer_ncp_list(i)) = 0 /\ i.cipher = None /\ k.fallback)
  IN  /\ ~cfg.p2p /\ step = "exchanged" /\ k.kind = "new"
      /\ IF ok
         THEN opt' = [opt EXCEPT !["s"] = [@ EXCEPT !.cipher = cipher, !.flags = flags, !.v2 = "v2" \in i.proto, !.status = "up"],
                                 !["c"] = [@ EXCEPT !.pushed = IF tls_peer_supports_ncp(i) THEN cipher ELSE None,
                                                    !.pflags = flags, !.v2 = "v2" \in i.proto]]
         ELSE opt' = [opt EXCEPT !["s"].status = "failed"]
      /\ step' = "pushed"
      /\ UNCHANGED <<cfg, cur>>

\* A server from before the negotiation uses its --cipher.
OldServerUp ==
  /\ ~cfg.p2p /\ step = "exchanged" /\ cur["s"].kind # "new"
  /\ opt' = [opt EXCEPT !["s"].status = "up"]
  /\ step' = "pushed"
  /\ UNCHANGED <<cfg, cur>>

-----------------------------------------------------------------------------
(* The client. *)

\* check_session_cipher of a tls-client.
check_session_cipher(k, cipher) ==
  (k.fallback /\ cipher = k.cipher) \/ tls_item_in_cipher_list(cipher, k.list)

\* check_pull_client_ncp: the pushed cipher, else the server's of the options string
\* (tls_poor_mans_ncp), else the fallback.
check_pull_client_ncp(k, o) ==
  IF o.pushed # None THEN [ok |-> TRUE, cipher |-> o.pushed]
  ELSE IF o.peer.cipher # None /\ tls_item_in_cipher_list(o.peer.cipher, k.list) THEN [ok |-> TRUE, cipher |-> o.peer.cipher]
  ELSE [ok |-> o.peer.cipher = None /\ k.fallback, cipher |-> k.cipher]

\* do_deferred_options and do_deferred_options_part2 of a client that pulls; the epoch
\* format needs P_DATA_V2.
ClientUp ==
  LET k == cur["c"]
      o == opt["c"]
      n == check_pull_client_ncp(k, o)
      ok == n.ok /\ check_session_cipher(k, n.cipher) /\ ("epoch" \in o.pflags => o.v2)
  IN  /\ ~cfg.p2p /\ step = "pushed" /\ opt["s"].status = "up" /\ k.kind = "new"
      /\ opt' = [opt EXCEPT !["c"] = [@ EXCEPT !.cipher = n.cipher, !.flags = o.pflags, !.status = IF ok THEN "up" ELSE "failed"]]
      /\ step' = "done"
      /\ UNCHANGED <<cfg, cur>>

\* An older client takes a pushed cipher that is in its list or its --cipher.
OldClientUp ==
  LET k == cur["c"]
      o == opt["c"]
      cipher == IF o.pushed # None THEN o.pushed ELSE k.cipher
  IN  /\ ~cfg.p2p /\ step = "pushed" /\ opt["s"].status = "up" /\ k.kind # "new"
      /\ opt' = [opt EXCEPT !["c"] = [@ EXCEPT !.cipher = cipher, !.flags = o.pflags,
                                               !.status = IF cipher \in Range(k.list) \cup {k.cipher} THEN "up" ELSE "failed"]]
      /\ step' = "done"
      /\ UNCHANGED <<cfg, cur>>

-----------------------------------------------------------------------------
(* Point to point. *)

\* Mutant: each peer takes the first of its own list.
get_p2p_ncp_cipher_Own(p, k, i) ==
  IF ~i.lists THEN None ELSE FirstOf(k.list, Range(i.list))

\* get_p2p_ncp_cipher: the order of the tls-server's list decides at both ends.
get_p2p_ncp_cipher(p, k, i) ==
  IF ~i.lists THEN None
  ELSE IF p = "s" THEN FirstOf(k.list, Range(i.list)) ELSE FirstOf(i.list, Range(k.list))

\* p2p_ncp_set_options: flags are added to those of the last connection, the epoch format
\* is set or cleared.
p2p_ncp_set_options(k, o, i, common) ==
  IF "p2p" \notin i.proto THEN o
  ELSE [o EXCEPT !.v2 = @ \/ "v2" \in i.proto,
                 !.flags = ((@ \cup (i.proto \cap {"exit", "export", "dyn"})) \ {"epoch"})
                           \cup (IF k.epoch /\ "epoch" \in i.proto /\ common \in Aead THEN {"epoch"} ELSE {})]

p2p_mode_ncp(p, o) ==
  p2p_ncp_set_options(cur[p], o, o.peer, get_p2p_ncp_cipher(p, cur[p], o.peer))

\* key_method_2_read with key_id 0, of what the other peer's key_method_2_write sent.
key_method_2_read(p) ==
  LET o == [opt[p] EXCEPT !.peer = push_peer_info(Other(p)), !.status = "down"]
  IN  IF cfg.p2p /\ cur[p].kind = "new" THEN p2p_mode_ncp(p, o) ELSE o

\* The key exchange of a new connection.
Exchange ==
  /\ step = "connect"
  /\ opt' = [p \in Peers |-> key_method_2_read(p)]
  /\ step' = "exchanged"
  /\ UNCHANGED <<cfg, cur>>

\* do_deferred_p2p_ncp: without a common cipher options.ciphername is left as it is.
do_deferred_p2p_ncp(p) ==
  LET k == cur[p]
      common == get_p2p_ncp_cipher(p, k, opt[p].peer)
      cipher == IF k.kind = "new" /\ common # None THEN common ELSE opt[p].cipher
      ok == k.kind # "new" \/ ((common # None \/ k.fallback) /\ (p = "s" \/ check_session_cipher(k, cipher)))
  IN  /\ cfg.p2p /\ step = "exchanged" /\ opt[p].status = "down"
      /\ opt' = [opt EXCEPT ![p] = [@ EXCEPT !.cipher = cipher, !.status = IF ok THEN "up" ELSE "failed"]]
      /\ UNCHANGED <<cfg, cur, step>>

\* A peer is restarted, with another configuration or, after it failed, with its own.
Restart(p) ==
  /\ cfg.p2p /\ step = "exchanged" /\ \A q \in Peers : opt[q].status # "down"
  /\ \E k \in cfg.changes \cup {cur[p]} :
       /\ cur' = [cur EXCEPT ![p] = k]
       /\ opt' = [opt EXCEPT ![p] = Fresh(k),
                             ![Other(p)] = IF @.status = "failed" THEN Fresh(cur[Other(p)]) ELSE @]
  /\ step' = "connect"
  /\ UNCHANGED cfg

Next ==
  \/ Exchange \/ ServerUp \/ OldServerUp \/ ClientUp \/ OldClientUp
  \/ \E p \in Peers : do_deferred_p2p_ncp(p) \/ Restart(p)

Spec == Init /\ [][Next]_vars

-----------------------------------------------------------------------------
TypeOK ==
  /\ step \in {"connect", "exchanged", "pushed", "done"}
  /\ \A p \in Peers : /\ opt[p].status \in {"down", "up", "failed"} /\ opt[p].v2 \in BOOLEAN
                      /\ opt[p].flags \subseteq {"exit", "export", "dyn", "epoch"}

\* Neither peer could learn the other's ciphers: both rely on --data-ciphers-fallback or --cipher.
Blind(p) == ~opt[p].peer.lists /\ opt[p].peer.ncp < 2 /\ opt[p].peer.cipher = None

Allowed(p) == opt[p].cipher \in Range(cur[p].list) \cup (IF cur[p].fallback \/ cur[p].kind # "new" THEN {cur[p].cipher} ELSE {})

\* A point-to-point peer that runs on keeps what it agreed on with the last peer: the cipher
\* instead of its fallback when the new one shares none with it, and the flags and the packet
\* format when the new one does not negotiate at all (README, section 5).
StaleCipher(p) ==
  /\ cfg.p2p /\ cur[p].kind = "new" /\ get_p2p_ncp_cipher(p, cur[p], opt[p].peer) = None
  /\ opt[p].cipher # cur[p].cipher
StaleFlags(p) == cfg.p2p /\ "p2p" \notin opt[p].peer.proto /\ (opt[p].flags # {} \/ opt[p].v2)

\* When both ends are up they use the same cipher, one that each of them allows, and the
\* same flags and packet format, whatever was negotiated with a peer that was since
\* restarted with other options; the one thing that stays behind is said above.
PeersAgree ==
  (\A p \in Peers : opt[p].status = "up") =>
    /\ \A p \in Peers : Allowed(p)
    /\ (\E p \in Peers : Blind(p) \/ StaleCipher(p)) \/ opt["c"].cipher = opt["s"].cipher
    /\ (\E p \in Peers : StaleFlags(p)) \/ (opt["c"].flags = opt["s"].flags /\ opt["c"].v2 = opt["s"].v2)
    /\ \A p \in Peers : "epoch" \in opt[p].flags => opt[p].cipher \in Aead /\ opt[p].v2
    /\ \A p \in Peers : ~cfg.p2p => cur[p].needs \subseteq opt[p].flags \cup (IF opt[p].v2 THEN {"v2"} ELSE {})

\* Two peers of this version that have a cipher in common never fail to agree on one.
NoNeedlessFailure ==
  (\A p \in Peers : cur[p].kind = "new") /\ Range(cur["c"].list) \cap Range(cur["s"].list) # {} =>
    \A p \in Peers : opt[p].status # "failed"

===============================================================================
