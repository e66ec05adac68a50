--------------------------------- MODULE Dns ---------------------------------
(* A client's name servers: the --dns and --dhcp-option settings of its        *)
(* configuration and of the server's PUSH_REPLY and PUSH_UPDATE (dns.c and the *)
(* parts of options.c that keep them), and what of them is put into force on   *)
(* the host by the dns-updown command, by the Windows service or by an up      *)
(* script that reads foreign_option_x.                                         *)
(*                                                                             *)
(* dns is struct dns_options: servers and prepull are lists of servers sorted  *)
(* by priority, dhcp the name servers of --dhcp-option, cmd and forced the     *)
(* command to run.  env is the list of foreign_option_x variables (the newest  *)
(* first) and idx foreign_option_index.  host is what the command or the       *)
(* service last put into force, and wanted what the server asked for last.     *)
(* updated holds the options updated on this connection, and orphan says that  *)
(* an update left servers in force which nothing undoes.                       *)
EXTENDS Naturals, Sequences, FiniteSets, SequencesExt

CONSTANTS
  Configs,        \* [win, up, runner, persist: BOOLEAN, cmd, static, replies, updates]
  MaxConnections, \* PUSH_REPLYs
  MaxUpdates      \* PUSH_UPDATEs

VARIABLES cfg, st, dns, env, idx, tun, runner, host, last, wanted, conns, upds, updated, orphan

vars == <<cfg, st, dns, env, idx, tun, runner, host, last, wanted, conns, upds, updated, orphan>>

NoDns == [servers |-> <<>>, prepull |-> <<>>, dhcp |-> <<>>, cmd |-> "none", forced |-> FALSE]

NoReply == [servers |-> <<>>, dhcp |-> <<>>, bad |-> FALSE]

ServerList == Seq([prio : Nat, src : STRING, plain : BOOLEAN])

\* --dns-updown: disable, a command of the user, or force, which makes the default
\* command run beside an up script.
updown == [cmd |-> IF cfg.cmd = "forced" THEN "default" ELSE cfg.cmd, forced |-> cfg.cmd = "forced"]

\* The options before anything was pulled (pre_connect_save after
\* dns_options_preprocess_pull).
Config ==
  [servers |-> <<>>, prepull |-> cfg.static, dhcp |-> <<>>, cmd |-> updown.cmd, forced |-> updown.forced]

\* What a reply asks for; own: the configuration's servers count too.
Asked(r) == [servers |-> r.servers, dhcp |-> r.dhcp, own |-> TRUE]

Init ==
  /\ cfg \in Configs
  /\ st = "pull" /\ dns = Config /\ env = <<>> /\ idx = 0
  /\ tun = FALSE /\ runner = FALSE /\ host = <<>>
  /\ last = NoReply /\ wanted = Asked(NoReply) /\ conns = 0 /\ upds = 0
  /\ updated = {} /\ orphan = FALSE

-----------------------------------------------------------------------------
(* dns.c *)

\* dns_server_get: a new server is inserted by its priority, a known one is changed.
dns_server_get(list, s) ==
  LET before == SelectSeq(list, LAMBDA x : x.prio < s.prio)
      after == SelectSeq(list, LAMBDA x : x.prio > s.prio)
  IN  before \o <<s>> \o after

Added[list \in ServerList, ss \in ServerList] ==
  IF ss = <<>> THEN list ELSE Added[dns_server_get(list, Head(ss)), Tail(ss)]

\* dns_options_postprocess_pull walks the pulled servers and the static ones.
Merge[servers \in ServerList, pp \in ServerList] ==
  IF servers = <<>> \/ pp = <<>> THEN servers \o pp
  ELSE IF Head(servers).prio > Head(pp).prio THEN <<Head(pp)>> \o Merge[servers, Tail(pp)]
  ELSE IF Head(servers).prio = Head(pp).prio THEN <<Head(servers)>> \o Merge[Tail(servers), Tail(pp)]
  ELSE <<Head(servers)>> \o Merge[Tail(servers), pp]

dns_options_postprocess_pull(d) == [d EXCEPT !.servers = Merge[d.servers, d.prepull], !.prepull = <<>>]

-----------------------------------------------------------------------------
(* The foreign options of an up script. *)

Variables == Seq([i : Nat, v : STRING])

setenv_str(e, i, v) == <<[i |-> i, v |-> v]>> \o SelectSeq(e, LAMBDA x : x.i # i)

\* setenv_foreign_option for each value.
Foreign[e \in Variables, n \in Nat, vs \in Seq(STRING)] ==
  IF vs = <<>> THEN [env |-> e, idx |-> n]
  ELSE Foreign[setenv_str(e, n + 1, Head(vs)), n + 1, Tail(vs)]

\* delete_all_dhcp_fo: an item is unlinked from the one before it, which after a
\* removal is the removed item, so that of neighbours every second one stays;
\* the index counts all of them down.
delete_all_dhcp_fo(e) == SelectSeq([k \in 1..Len(e) |-> [e[k] EXCEPT !.v = IF k % 2 = 0 THEN @ ELSE "gone"]],
                                   LAMBDA x : x.v # "gone")

\* The address an up script is told of: the first server with plain transport.
Plain(ss) == SelectSeq(ss, LAMBDA x : x.plain)
Told(ss) == IF Plain(ss) = <<>> THEN <<>> ELSE <<Plain(ss)[1].src>>

\* The default command gives way to an up script.
UserOrForced(d) == d.cmd = "user" \/ d.forced

\* dhcp_options_postprocess_dns: the foreign options of --dhcp-option are taken back
\* when --dns has servers or the command is the user's; without --dns servers the
\* name servers of --dhcp-option become one; else an up script is told the servers.
dhcp_options_postprocess_dns(d, e, n) ==
  LET clean == d.servers # <<>> \/ UserOrForced(d)
      e1 == IF clean THEN <<>> ELSE e
      n1 == IF clean THEN 0 ELSE n
      f == IF d.servers # <<>> /\ cfg.up /\ ~UserOrForced(d) THEN Foreign[e1, n1, Told(d.servers)]
           ELSE [env |-> e1, idx |-> n1]
  IN  [dns |-> IF d.servers = <<>> /\ d.dhcp # <<>>
               THEN [d EXCEPT !.servers = <<[prio |-> 0, src |-> d.dhcp[1], plain |-> TRUE]>>]
               ELSE d,
       env |-> f.env, idx |-> f.idx]

\* options_postprocess_pull; on Windows and in DHCP mode the servers go to the adapter
\* instead (tuntap_options_postprocess_dns).
options_postprocess_pull(d, e, n) ==
  IF cfg.win THEN [dns |-> dns_options_postprocess_pull(d), env |-> e, idx |-> n]
  ELSE dhcp_options_postprocess_dns(dns_options_postprocess_pull(d), e, n)

-----------------------------------------------------------------------------
(* Putting the servers into force. *)

\* The service sets the first server it can; the command is passed all of them, in
\* their order.
run_up_down_service(d) == IF Plain(d.servers) = <<>> THEN <<>> ELSE <<Plain(d.servers)[1]>>
setenv_dns_options(d) == d.servers

Applied(d) == IF cfg.win THEN run_up_down_service(d) ELSE setenv_dns_options(d)

Runs(d) ==
  /\ d.servers # <<>>
  /\ IF cfg.win THEN Plain(d.servers) # <<>>
     ELSE d.cmd # "none" /\ (cfg.up => UserOrForced(d))

\* run_updown_runner: with --user the command is run by a process forked at its first
\* use, before privileges are dropped; without the process nothing is run.
Ready(can) == ~cfg.runner \/ runner \/ can

Up(d, h, can) == IF Runs(d) /\ Ready(can) THEN Applied(d) ELSE h


Down(d, h, can) == IF Runs(d) /\ Ready(can) THEN <<>> ELSE h

Started(d, can) == runner \/ (cfg.runner /\ can /\ Runs(d))

\* do_close_tun undoes the name servers, also of a device that is kept.
Close(d) ==
  \E can \in BOOLEAN : /\ host' = IF tun THEN Down(d, host, can) ELSE host
                       /\ runner' = IF tun THEN Started(d, can) ELSE runner

-----------------------------------------------------------------------------
\* PUSH_REPLY: the server's options are added to the configuration's, checked and
\* merged; do_open_tun runs the command, and a device kept from before whose
\* options have changed is closed and opened again.
PushReply(r) ==
  /\ st = "pull" /\ conns < MaxConnections
  /\ conns' = conns + 1
  /\ LET d == [dns EXCEPT !.servers = Added[@, r.servers], !.dhcp = @ \o r.dhcp]
         f == IF cfg.win THEN [env |-> env, idx |-> idx] ELSE Foreign[env, idx, r.dhcp]
         o == options_postprocess_pull(d, f.env, f.idx)
     IN  IF r.bad
         THEN \* dns_options_verify: restart
              /\ dns' = Config /\ env' = <<>> /\ idx' = 0
              /\ Close(d)
              /\ UNCHANGED <<st, tun, last, wanted, updated>>
         ELSE \E can \in BOOLEAN :
              /\ dns' = o.dns /\ env' = o.env /\ idx' = o.idx
              /\ host' = IF tun /\ last # r
                         THEN Up(o.dns, Down(o.dns, Up(o.dns, host, can), can), can)
                         ELSE Up(o.dns, host, can)
              /\ runner' = Started(o.dns, can)
              /\ st' = "up" /\ tun' = TRUE /\ last' = r /\ wanted' = Asked(r) /\ updated' = {}
  /\ orphan' = (orphan /\ host' = host)
  /\ UNCHANGED <<cfg, upds>>

\* A restart by SIGUSR1: pre_connect_restore brings the configuration's options back.
Restart ==
  /\ st = "up"
  /\ st' = "pull" /\ tun' = cfg.persist
  /\ Close(dns)
  /\ dns' = Config /\ env' = <<>> /\ idx' = 0
  /\ orphan' = (orphan /\ host' = host)
  /\ UNCHANGED <<cfg, last, wanted, conns, upds, updated>>

\* PUSH_UPDATE of dns or dhcp-option, or their removal (remove_option, update_option):
\* all of struct dns_options is cleared for dns, the command with it; for dhcp-option
\* the foreign options go (on Windows the name servers).  do_update closes the device with
\* the new options and opens it again.
Cleared(d, u) ==
  IF u.option = "dns" THEN NoDns
  ELSE IF cfg.win THEN [d EXCEPT !.dhcp = <<>>] ELSE d

PushUpdate(u) ==
  /\ st = "up" /\ u \in cfg.updates /\ upds < MaxUpdates
  /\ upds' = upds + 1
  /\ LET e == IF u.option = "dns" \/ cfg.win THEN env ELSE delete_all_dhcp_fo(env)
         n == IF u.option = "dns" \/ cfg.win THEN idx ELSE idx - Len(env)
         d == [Cleared(dns, u) EXCEPT !.servers = Added[@, u.servers], !.dhcp = @ \o u.dhcp]
         f == IF cfg.win THEN [env |-> e, idx |-> n] ELSE Foreign[e, n, u.dhcp]
         o == options_postprocess_pull(d, f.env, f.idx)
     IN  \E can \in BOOLEAN :
         /\ dns' = o.dns /\ env' = o.env /\ idx' = o.idx
         /\ host' = Up(o.dns, Down(o.dns, host, can), can)
         /\ runner' = Started(o.dns, can)
  /\ wanted' = IF u.option = "dns" THEN [wanted EXCEPT !.servers = u.servers, !.own = FALSE]
               ELSE [wanted EXCEPT !.dhcp = u.dhcp]
  /\ updated' = updated \cup {u.option}
  /\ orphan' = (host' # <<>> /\ ~Runs(dns'))
  /\ UNCHANGED <<cfg, st, tun, last, conns>>

\* The end of the client.
Stop ==
  /\ st \in {"up", "pull"}
  /\ st' = "closed" /\ tun' = FALSE
  /\ Close(dns)
  /\ orphan' = (orphan /\ host' = host)
  /\ UNCHANGED <<cfg, dns, env, idx, last, wanted, conns, upds, updated>>

Next == (\E r \in cfg.replies : PushReply(r)) \/ Restart \/ (\E u \in cfg.updates : PushUpdate(u)) \/ Stop

Spec == Init /\ [][Next]_vars

-----------------------------------------------------------------------------
TypeOK ==
  /\ cfg \in Configs /\ st \in {"pull", "up", "closed"}
  /\ dns.cmd \in {"none", "default", "user"} /\ dns.forced \in BOOLEAN
  /\ tun \in BOOLEAN /\ runner \in BOOLEAN
  /\ idx \in Nat /\ conns \in 0..MaxConnections /\ upds \in 0..MaxUpdates

\* The servers a connection uses, by the documentation of --dns: the pushed ones, and
\* of the configuration those of other priorities; the name servers of --dhcp-option
\* only when there are none.
Expected ==
  LET mine == IF wanted.own THEN cfg.static ELSE <<>>
      pushed == Range(wanted.servers)
      all == pushed \cup {s \in Range(mine) : \A p \in pushed : p.prio # s.prio}
  IN  IF all # {} THEN SortSeq(SetToSeq(all), LAMBDA a, b : a.prio < b.prio)
      ELSE IF wanted.dhcp # <<>> /\ ~cfg.win THEN <<[prio |-> 0, src |-> wanted.dhcp[1], plain |-> TRUE]>>
      ELSE <<>>

\* The updates that do what they say: on Unix one of dhcp-option adds to what was pushed
\* before, without effect, and one of dns clears the name servers of dhcp-option as well.
Followed == cfg.win \/ updated = {} \/ (updated = {"dns"} /\ wanted.servers # <<>>)

\* While the tunnel is up the host uses exactly the servers the configuration and the
\* server's last word ask for, in the order of their priorities, and nothing of an
\* earlier connection; when it is down, also between two connections with
\* --persist-tun, the host has its own servers back.  The exception is an update after
\* which no command is run, because it leaves no server or, on Unix, because clearing
\* struct dns_options for dns clears the command too: do_update closes the device with the
\* options after the update, so that the servers from before it stay in force, until a
\* later connection's command replaces them.
DnsFollowsPush ==
  /\ st = "up" => /\ Followed => dns.servers = Expected
                  /\ Runs(dns) /\ Ready(FALSE) => host = Applied(dns)
                  /\ ~Runs(dns) => host = <<>> \/ orphan
  /\ st # "up" => host = <<>> \/ orphan
  /\ orphan => upds > 0

\* An up script that takes the place of the default command is told the address in force
\* and none other: foreign_option_1 up to the index, of this connection (until an update,
\* which forgets only every second of the old ones).
ForeignFollowsPush ==
  updated = {} =>
    /\ {env[k].i : k \in 1..Len(env)} = 1..idx
    /\ (st = "up" /\ cfg.up /\ ~UserOrForced(dns) /\ ~cfg.win) =>
         {env[k].v : k \in 1..Len(env)} =
           IF Range(wanted.servers) \cup Range(cfg.static) # {} THEN Range(Told(Expected)) ELSE Range(wanted.dhcp)

=============================================================================
