----------------------------- MODULE WinService -----------------------------
(***************************************************************************)
(* The interactive service of Windows (openvpnserv/interactive.c): a main  *)
(* loop that gives every client a thread, the thread that starts openvpn   *)
(* for the client and carries out the settings openvpn asks for over a     *)
(* pipe, the undo lists with which it takes them back when openvpn ends,   *)
(* and what the service repairs when it starts after a crash.              *)
(*                                                                         *)
(* The registry's search list of DNS domains is a sequence of characters,  *)
(* because RemoveDnsSearchDomains works on characters; cfg.domains gives   *)
(* the text of each tunnel's domains.  A call of the system that a message *)
(* needs may fail (the parameter f names the call).  A message is handled  *)
(* in one step: no lock keeps the threads apart, and of two edits of the   *)
(* list that overlap one is lost.                                          *)
(***************************************************************************)
EXTENDS Integers, Sequences, FiniteSets, SequencesExt

CONSTANTS
    Configs,                \* [threads, list, original, domains, itfs, msgs, startups]
    MAXIMUM_WAIT_OBJECTS,
    MaxExcludes,            \* interfaces for which local names are kept local
    MaxMessages,            \* bound: messages of one openvpn process
    MaxClients,             \* bound: clients that connect
    MaxCrashes              \* bound: crashes of the service

VARIABLES
    cfg,
    svc,        \* "start", "running", "stopping" (exit_event is set) or "stopped"
    thr,        \* the worker threads
    undo,       \* the undo lists of each thread
    host,       \* settings in force
    reg,        \* the search lists of the registry; torn: history, one was cut wrongly
    n           \* counters of the bounds

vars == <<cfg, svc, thr, undo, host, reg, n>>

Threads == {"t1", "t2", "t3"}
NoList == <<"none">>
Nothing == <<>>

NoUndo == [address |-> {}, route |-> {}, wfp_block |-> <<>>, undo_dns4 |-> FALSE,
           undo_dns6 |-> FALSE, undo_nrpt |-> FALSE, undo_domains |-> Nothing, undo_wins |-> FALSE]
NoSettings == [address |-> {}, route |-> {}, filters |-> 0, metric |-> "auto",
               dns4 |-> "", dns6 |-> "", nrpt |-> {}, wins |-> FALSE]
NoThread == [pc |-> "none", process |-> FALSE, startup |-> <<>>, msgs |-> 0]

\* GetDnsSearchListKey: a list of the group policy or of the system is shared by all
\* tunnels; else every interface has its own.
Key(t) == IF cfg.list = "itf" THEN t ELSE "shared"

-----------------------------------------------------------------------------
(* The search list.                                                        *)

\* wcsstr; 0 if the text does not occur
wcsstr(list, s) ==
    LET at == {i \in 1..(Len(list) - Len(s) + 1) : SubSeq(list, i, i + Len(s) - 1) = s}
    IN  IF at = {} THEN 0 ELSE CHOOSE i \in at : \A j \in at : i <= j


\* The domains and the comma before them are overwritten with what follows, but only
\* as many characters as the domains have; the text ends at the first NUL.
Cut(list, s) ==
    LET pos == wcsstr(list, s)
        dst == IF pos > 1 THEN pos - 1 ELSE pos
        src == pos + Len(s)
        At(i) == IF i <= Len(list) THEN list[i] ELSE "NUL"
        moved == [i \in 1..(Len(list) + 1) |->
                     IF i >= dst /\ i < dst + Len(s) THEN At(src + i - dst) ELSE At(i)]
        end == CHOOSE i \in DOMAIN moved :
                  moved[i] = "NUL" /\ \A j \in 1..(i - 1) : moved[j] # "NUL"
    IN  SubSeq(moved, 1, end - 1)

\* What follows the domains is longer than they are, and is moved only in part.
Tears(list, s) == wcsstr(list, s) + 2 * Len(s) - 1 <= Len(list)

ResetDnsSearchDomains(k) ==
    IF k.initial = NoList THEN k ELSE [search |-> k.initial, initial |-> NoList, torn |-> FALSE]

\* The list without the domains is written, or the list found at the start put back.
Shortened(k, list) ==
    IF list # <<>> /\ k.initial = NoList THEN k
    ELSE IF list # <<>> /\ IsPrefix(list, k.initial) THEN ResetDnsSearchDomains(k)
    ELSE [k EXCEPT !.search = list]

RemoveDnsSearchDomains(k, s) ==
    IF wcsstr(k.search, s) = 0 THEN k
    ELSE Shortened([k EXCEPT !.torn = @ \/ Tears(k.search, s)], Cut(k.search, s))

\* StoreInitialDnsSearchList and AddDnsSearchDomains; f is "list" if the new list
\* cannot be written.
AddDnsSearchDomains(k, have_list, s, f) ==
    LET stored == IF have_list /\ k.initial = NoList THEN [k EXCEPT !.initial = k.search] ELSE k
    IN  IF f = "list" THEN stored
        ELSE [stored EXCEPT !.search = IF have_list THEN k.search \o <<",">> \o s ELSE s]

\* SetDnsSearchDomains with the text s; Nothing only removes what was there.
WithoutUndone(k, u) ==
    IF u.undo_domains = Nothing THEN k ELSE RemoveDnsSearchDomains(k, u.undo_domains)

DomainsFail(f) == f \in {"list", "mem_domains"}
WithoutFailed(k, s, f) == IF DomainsFail(f) THEN RemoveDnsSearchDomains(k, s) ELSE k

SetDnsSearchDomains(r, u, t, s, f) ==
    IF f = "key" THEN <<r, u>>
    ELSE IF s = Nothing
    THEN <<[r EXCEPT ![Key(t)] = WithoutUndone(@, u)], [u EXCEPT !.undo_domains = Nothing]>>
    ELSE <<[r EXCEPT ![Key(t)] = WithoutFailed(
                AddDnsSearchDomains(WithoutUndone(@, u), cfg.list # "itf", s, f), s, f)],
           [u EXCEPT !.undo_domains = IF DomainsFail(f) THEN Nothing ELSE s]>>

-----------------------------------------------------------------------------
(* The messages.  A handler returns the settings, the undo lists and the   *)
(* registry.                                                               *)

Result(h, u, r) == [host |-> h, undo |-> u, reg |-> r]

\* HandleAddressMessage and HandleRouteMessage
HandleAddressMessage(h, u, r, m, f) ==
    IF m.type = "add_address"
    THEN IF f \in {"create", "mem"} \/ m.what \in h.address THEN Result(h, u, r)
         ELSE Result([h EXCEPT !.address = @ \cup {m.what}],
                     [u EXCEPT !.address = @ \cup {m.what}], r)
    ELSE IF f = "delete" \/ m.what \notin h.address THEN Result(h, u, r)
         ELSE Result([h EXCEPT !.address = @ \ {m.what}],
                     [u EXCEPT !.address = @ \ {m.what}], r)

HandleRouteMessage(h, u, r, m, f) ==
    IF m.type = "add_route"
    THEN IF f \in {"create", "mem"} \/ m.what \in h.route THEN Result(h, u, r)
         ELSE Result([h EXCEPT !.route = @ \cup {m.what}], [u EXCEPT !.route = @ \cup {m.what}], r)
    ELSE IF f = "delete" \/ m.what \notin h.route THEN Result(h, u, r)
         ELSE Result([h EXCEPT !.route = @ \ {m.what}], [u EXCEPT !.route = @ \ {m.what}], r)

\* The last filters are removed first, and the metric that was found with them put back.
DeleteWfpBlock(h, u) ==
    IF u.wfp_block = <<>> THEN <<h, u>>
    ELSE << [h EXCEPT !.filters = @ - 1, !.metric = Head(u.wfp_block)],
            [u EXCEPT !.wfp_block = Tail(@)] >>

AddWfpBlock(h, u, f) ==
    IF f \in {"filters", "mem"} THEN <<h, u>>
    ELSE LET added == [h EXCEPT !.filters = @ + 1]
             recorded == [u EXCEPT !.wfp_block = <<h.metric>> \o @]
         IN  IF f = "metric" THEN DeleteWfpBlock(added, recorded)
             ELSE <<[added EXCEPT !.metric = "wfp"], recorded>>

HandleWfpBlockMessage(h, u, r, m, f) ==
    LET x == IF m.type = "add_wfp_block" THEN AddWfpBlock(h, u, f) ELSE DeleteWfpBlock(h, u)
    IN  Result(x[1], x[2], r)

\* SetNameServers and ResetNameServers: the value NameServer of the interface
SetNameServersValue(h, fam, value) == [h EXCEPT ![fam] = value]

Undoes(fam) == IF fam = "dns6" THEN "undo_dns6" ELSE "undo_dns4"

HandleDNSConfigMessage(h, u, r, m, t, f) ==
    LET resets == m.addrs \/ m.type = "del_dns_cfg"
        h1 == IF resets THEN SetNameServersValue(h, m.family, "") ELSE h
        u1 == IF resets THEN [u EXCEPT ![Undoes(m.family)] = FALSE] ELSE u
        h2 == IF m.addrs THEN SetNameServersValue(h1, m.family, "dns") ELSE h1
        u2 == IF m.addrs THEN [u1 EXCEPT ![Undoes(m.family)] = TRUE] ELSE u1
        d == SetDnsSearchDomains(r, u2, t, cfg.domains[t], f)
        e == SetDnsSearchDomains(r, u1, t, Nothing, f)
    IN  IF f \in {"iid", "reset"} THEN Result(h, u, r)
        ELSE IF m.type = "del_dns_cfg"
        THEN IF m.domains THEN Result(h1, e[2], e[1]) ELSE Result(h1, u1, r)
        ELSE IF m.addrs /\ f \in {"set", "mem"} THEN Result(h1, u1, r)
        ELSE IF m.domains THEN Result(h2, d[2], d[1]) ELSE Result(h2, u2, r)

\* GetItfDnsServersV4 and V6: servers that were configured, or given by DHCP.  A DHCPv6
\* server is always an error: the result of inet_ntop is tested the wrong way round.
GetItfDnsServersV4(itf) == IF itf.v4 THEN "found" ELSE "none"
GetItfDnsServersV6(itf) ==
    IF itf.v6 = "static" THEN "found" ELSE IF itf.v6 = "dhcp" THEN "error" ELSE "none"

\* GetItfDnsDomains and ConvertItfDnsDomains: domains that are also pushed ones are left
\* out; if no other is left the buffer still has the size of its terminator.
GetItfDnsDomains(itf, m) ==
    IF itf.domains = "none" THEN "none"
    ELSE IF itf.domains = "pushed" /\ m.domains THEN "empty" ELSE "some"

\* GetNrptExcludeData: the entries that are complete, and the one the next interface
\* will overwrite, after the first k interfaces.
ExcludeData(m) ==
    LET Entry(itf) == [domains |-> GetItfDnsDomains(itf, m),
                       servers |-> GetItfDnsServersV4(itf) = "found"]
        f[k \in 0..Len(cfg.itfs)] ==
            IF k = 0 THEN [done |-> <<>>, next |-> [domains |-> "none", servers |-> FALSE]]
            ELSE LET a == f[k - 1]
                     itf == cfg.itfs[k]
                     v6 == GetItfDnsServersV6(itf)
                 IN  IF ~itf.connected \/ Len(a.done) = MaxExcludes THEN a
                     ELSE IF GetItfDnsDomains(itf, m) # "some"
                     THEN [a EXCEPT !.next.domains = GetItfDnsDomains(itf, m)]
                     ELSE IF v6 # "error" /\ (GetItfDnsServersV4(itf) = "found" \/ v6 = "found")
                     THEN [done |-> Append(a.done, [domains |-> "some", servers |-> TRUE]),
                           next |-> [domains |-> "none", servers |-> FALSE]]
                     ELSE [a EXCEPT !.next = Entry(itf)]
    IN  f[Len(cfg.itfs)]

\* SetNrptExcludeRules: one rule for each entry with domains, also for the one left over
SetNrptExcludeRules(t, m) ==
    LET x == ExcludeData(m)
        entries == IF x.next.domains = "none" THEN x.done ELSE Append(x.done, x.next)
    IN  {<<"exclude", t, i, entries[i].servers>> : i \in DOMAIN entries}

\* SetNrptRules: rules that keep local names local come with the rule for all names.
SetNrptRules(h, t, m, f) ==
    LET excludes == IF m.split THEN {} ELSE SetNrptExcludeRules(t, m)
        rule == IF f = "rule" THEN {} ELSE {<<"rule", t, 0, TRUE>>}
    IN  [h EXCEPT !.nrpt = @ \cup excludes \cup rule]

\* DeleteNrptRules: the rules whose name ends in the process id
DeleteNrptRules(h, t) == [h EXCEPT !.nrpt = {x \in @ : x[2] # t}]

\* What the last message set is taken back first: h is the host without its rules, d the
\* registry and the undo lists without its domains.
SetNrpt(h, d, m, t, f) ==
    LET u == [d[2] EXCEPT !.undo_nrpt = TRUE]
        ruled == SetNrptRules(h, t, m, f)
        served == IF (m.domains \/ ~m.split) /\ f # "set"
                  THEN SetNameServersValue(ruled, "dns4", "nrpt") ELSE ruled
        e == SetDnsSearchDomains(d[1], u, t, cfg.domains[t], f)
    IN  IF m.type = "del_nrpt_cfg" \/ f \in {"base", "mem"} THEN Result(h, d[2], d[1])
        ELSE IF f = "rule" THEN Result(ruled, u, d[1])
        ELSE IF f = "set" /\ (m.domains \/ ~m.split) THEN Result(served, u, d[1])
        ELSE IF m.domains THEN Result(served, e[2], e[1]) ELSE Result(served, u, d[1])

HandleDNSConfigNrptMessage(h, u, r, m, t, f) ==
    IF f = "iid" THEN Result(h, u, r)
    ELSE SetNrpt(IF u.undo_nrpt
                 THEN SetNameServersValue(SetNameServersValue(DeleteNrptRules(h, t), "dns4", ""), "dns6", "")
                 ELSE h,
                 SetDnsSearchDomains(r, [u EXCEPT !.undo_nrpt = FALSE], t, Nothing, f), m, t, f)

HandleWINSConfigMessage(h, u, r, m, f) ==
    IF f = "delete" THEN Result(h, u, r)
    ELSE IF m.type = "del_wins_cfg" \/ f \in {"set", "mem"}
    THEN Result([h EXCEPT !.wins = FALSE], [u EXCEPT !.undo_wins = FALSE], r)
    ELSE Result([h EXCEPT !.wins = TRUE], [u EXCEPT !.undo_wins = TRUE], r)

\* The calls that may fail, of the message's handler
Calls(m) ==
    {"none"} \cup
    CASE m.type \in {"add_address", "add_route"} -> {"create", "mem"}
      [] m.type \in {"del_address", "del_route"} -> {"delete"}
      [] m.type = "add_wfp_block" -> {"filters", "mem", "metric"}
      [] m.type = "add_dns_cfg" -> {"iid", "reset", "set", "mem", "key", "list", "mem_domains"}
      [] m.type = "del_dns_cfg" -> {"iid", "reset", "key"}
      [] m.type = "add_nrpt_cfg" -> {"iid", "base", "mem", "rule", "set", "key", "list", "mem_domains"}
      [] m.type = "del_nrpt_cfg" -> {"iid", "key"}
      [] m.type = "add_wins_cfg" -> {"delete", "set", "mem"}
      [] m.type = "del_wins_cfg" -> {"delete"}
      [] OTHER -> {}

\* The messages that are not undone (neighbours, register-dns, DHCP, MTU, a new
\* adapter), unknown ones and ones of a wrong size are only acknowledged.
HandleMessage(h, u, r, m, t, f) ==
    CASE m.type \in {"add_address", "del_address"} -> HandleAddressMessage(h, u, r, m, f)
      [] m.type \in {"add_route", "del_route"} -> HandleRouteMessage(h, u, r, m, f)
      [] m.type \in {"add_wfp_block", "del_wfp_block"} -> HandleWfpBlockMessage(h, u, r, m, f)
      [] m.type \in {"add_dns_cfg", "del_dns_cfg"} -> HandleDNSConfigMessage(h, u, r, m, t, f)
      [] m.type \in {"add_nrpt_cfg", "del_nrpt_cfg"} -> HandleDNSConfigNrptMessage(h, u, r, m, t, f)
      [] m.type \in {"add_wins_cfg", "del_wins_cfg"} -> HandleWINSConfigMessage(h, u, r, m, f)
      [] OTHER -> Result(h, u, r)

-----------------------------------------------------------------------------
(* Taking it all back.                                                     *)

\* The metric left is the one found by the first block.
UndoWfp(h, u) ==
    IF u.wfp_block = <<>> THEN h
    ELSE [h EXCEPT !.filters = @ - Len(u.wfp_block), !.metric = Last(u.wfp_block)]

UndoDnsSearchDomains(r, u, t) ==
    IF u.undo_domains = Nothing THEN r
    ELSE [r EXCEPT ![Key(t)] = RemoveDnsSearchDomains(@, u.undo_domains)]

\* UndoNrptRules deletes the rules only: the name servers the adapter was given beside
\* them (SetNameServerAddresses) stay, "left" there.
LeaveNameServers(h) == IF h.dns4 = "nrpt" THEN SetNameServersValue(h, "dns4", "left") ELSE h

Undo(h, u, r, t) ==
    LET h1 == UndoWfp([h EXCEPT !.address = @ \ u.address, !.route = @ \ u.route], u)
        h2 == IF u.undo_dns4 THEN SetNameServersValue(h1, "dns4", "") ELSE h1
        h3 == IF u.undo_dns6 THEN SetNameServersValue(h2, "dns6", "") ELSE h2
        h4 == IF u.undo_nrpt THEN LeaveNameServers(DeleteNrptRules(h3, t)) ELSE h3
    IN  Result([h4 EXCEPT !.wins = @ /\ ~u.undo_wins], NoUndo, UndoDnsSearchDomains(r, u, t))

-----------------------------------------------------------------------------
(* The command line of a client that is not an administrator.             *)

\* IsUserInGroup: by the token, or as a direct member of the group
IsUserInGroup(user, g) == g \in user.token \/ g \in user.member

IsAuthorizedUser(user) ==
    \/ user.service
    \/ \E g \in {"Administrators", "OpenVPN Administrators"} : IsUserInGroup(user, g)

white_list == {"--config", "--verb", "--log"}
IsOption(a) == a \in white_list \cup {"--plugin"}
CheckConfigPath(a) == a = "inside"

\* CheckOption of the arguments from i on
CheckOption(argv, i) ==
    /\ argv[i] = "--config" /\ i < Len(argv) => CheckConfigPath(argv[i + 1])
    /\ argv[i] \in white_list

\* One argument alone is the name of a configuration; it is refused whatever it is,
\* because the result is only set for the other forms.
ValidateOptions(argv) ==
    /\ Len(argv) # 1
    /\ \A i \in DOMAIN argv : IsOption(argv[i]) => CheckOption(argv, i)

-----------------------------------------------------------------------------
(* The service.                                                            *)

Init ==
    /\ cfg \in Configs
    /\ svc = "start"
    /\ thr = [t \in Threads |-> NoThread]
    /\ undo = [t \in Threads |-> NoUndo]
    /\ host = [t \in Threads |-> NoSettings]
    /\ reg = [k \in Threads \cup {"shared"} |->
                 [search |-> IF k = "shared" THEN cfg.original ELSE <<>>, initial |-> NoList, torn |-> FALSE]]
    /\ n = [clients |-> 0, crashes |-> 0]

\* CleanupRegistry and the rest of ServiceStartInteractive up to its loop
ServiceStart ==
    /\ svc = "start"
    /\ svc' = "running"
    /\ host' = [t \in Threads |-> [host[t] EXCEPT !.nrpt = {}]]
    /\ reg' = IF cfg.list = "itf" THEN reg
              ELSE [reg EXCEPT !["shared"] = ResetDnsSearchDomains(@)]
    /\ UNCHANGED <<cfg, thr, undo, n>>

ServiceStartFails ==
    /\ svc = "start"
    /\ svc' = "stopped"
    /\ host' = [t \in Threads |-> [host[t] EXCEPT !.nrpt = {}]]
    /\ reg' = IF cfg.list = "itf" THEN reg
              ELSE [reg EXCEPT !["shared"] = ResetDnsSearchDomains(@)]
    /\ UNCHANGED <<cfg, thr, undo, n>>

Listed == {t \in Threads : thr[t].pc # "none"}

\* UpdateWaitHandles: the event of the pipe, and the threads or else the exit event
handle_count(threads) == 1 + (IF threads = {} THEN 1 ELSE Cardinality(threads))

\* A client connects: it is given a thread or turned away (too many clients, or no
\* memory or thread for it).  The loop goes on also while the service is stopping.
ConnectNamedPipe(t, startup) ==
    /\ svc \in {"running", "stopping"}
    /\ n.clients < MaxClients
    /\ t \in cfg.threads /\ thr[t].pc = "none"
    /\ n' = [n EXCEPT !.clients = @ + 1]
    /\ \/ /\ handle_count(Listed) + 1 <= MAXIMUM_WAIT_OBJECTS
          /\ thr' = [thr EXCEPT ![t] = [NoThread EXCEPT !.pc = "startup", !.startup = startup]]
       \/ UNCHANGED thr
    /\ UNCHANGED <<cfg, svc, undo, host, reg>>

\* RunOpenvpn up to CreateProcessAsUser; every call of it may fail.
RunOpenvpn(t) ==
    /\ thr[t].pc = "startup"
    /\ ValidateOptions(thr[t].startup.argv) \/ IsAuthorizedUser(thr[t].startup.user)
    /\ thr' = [thr EXCEPT ![t].pc = "loop", ![t].process = TRUE]
    /\ UNCHANGED <<cfg, svc, undo, host, reg, n>>

GetStartupData_fails(t) ==
    /\ thr[t].pc = "startup"
    /\ thr' = [thr EXCEPT ![t].pc = "done"]
    /\ UNCHANGED <<cfg, svc, undo, host, reg, n>>

TakesEffect(t, x) ==
    /\ host' = [host EXCEPT ![t] = x.host]
    /\ undo' = [undo EXCEPT ![t] = x.undo]
    /\ reg' = x.reg

\* One round of the loop of RunOpenvpn.  If both are ready the message is taken
\* before the exit event.
Message(t, m, f) ==
    /\ svc \in {"running", "stopping"}
    /\ thr[t].pc = "loop" /\ thr[t].process /\ thr[t].msgs < MaxMessages
    /\ TakesEffect(t, HandleMessage(host[t], undo[t], reg, m, t, f))
    /\ thr' = [thr EXCEPT ![t].msgs = @ + 1]
    /\ UNCHANGED <<cfg, svc, n>>

\* openvpn ends by itself, at any time.
ProcessExits(t) ==
    /\ thr[t].pc = "loop" /\ thr[t].process
    /\ thr' = [thr EXCEPT ![t].process = FALSE]
    /\ UNCHANGED <<cfg, svc, undo, host, reg, n>>

\* The pipe is closed, exit_event is set or a message is too large: openvpn is
\* terminated if it still runs, and its settings are taken back.
LeaveLoop(t) ==
    /\ thr[t].pc = "loop"
    /\ \/ ~thr[t].process
       \/ svc = "stopping"
    /\ TakesEffect(t, Undo(host[t], undo[t], reg, t))
    /\ thr' = [thr EXCEPT ![t].pc = "done", ![t].process = FALSE]
    /\ UNCHANGED <<cfg, svc, n>>

\* "Worker thread ended"
ThreadEnded(t) ==
    /\ svc \in {"running", "stopping"}
    /\ thr[t].pc = "done"
    /\ thr' = [thr EXCEPT ![t] = NoThread]
    /\ UNCHANGED <<cfg, svc, undo, host, reg, n>>

ServiceCtrlInteractive ==
    /\ svc = "running"
    /\ svc' = "stopping"
    /\ UNCHANGED <<cfg, thr, undo, host, reg, n>>

\* The exit event is only waited for when there is no thread.
ServiceStops ==
    /\ svc = "stopping"
    /\ Listed = {}
    /\ svc' = "stopped"
    /\ UNCHANGED <<cfg, thr, undo, host, reg, n>>

\* The service, or the whole machine, ends without notice, or the loop of the service
\* is left because no further pipe could be made: the threads and their lists are lost,
\* and the filters go with the process that made them.
Crash ==
    /\ svc \in {"running", "stopping"} /\ n.crashes < MaxCrashes
    /\ n' = [n EXCEPT !.crashes = @ + 1]
    /\ svc' = "start"
    /\ thr' = [t \in Threads |-> NoThread]
    /\ undo' = [t \in Threads |-> NoUndo]
    /\ host' = [t \in Threads |-> [host[t] EXCEPT !.filters = 0]]
    /\ UNCHANGED <<cfg, reg>>

Next ==
    \/ ServiceStart \/ ServiceStartFails \/ ServiceCtrlInteractive \/ ServiceStops \/ Crash
    \/ \E t \in cfg.threads :
          \/ \E s \in cfg.startups : ConnectNamedPipe(t, s)
          \/ RunOpenvpn(t) \/ GetStartupData_fails(t)
          \/ \E m \in cfg.msgs : \E f \in Calls(m) : Message(t, m, f)
          \/ ProcessExits(t) \/ LeaveLoop(t) \/ ThreadEnded(t)

Spec == Init /\ [][Next]_vars

-----------------------------------------------------------------------------

TypeOK ==
    /\ cfg \in Configs
    /\ svc \in {"start", "running", "stopping", "stopped"}
    /\ \A t \in Threads :
          /\ thr[t].pc \in {"none", "startup", "loop", "done"}
          /\ thr[t].process => thr[t].pc = "loop"
          /\ host[t].filters \in 0..MaxMessages
          /\ host[t].metric \in {"auto", "wfp"}
          /\ host[t].dns4 \in {"", "dns", "nrpt", "left"}
    /\ handle_count(Listed) <= MAXIMUM_WAIT_OBJECTS

\* Whatever step of a message failed, what the thread has put in force is what its
\* undo lists will take back (and nothing is on the lists that is not in force), except
\* that the name servers set for NRPT rules are reset by the next message only: when openvpn
\* ends without one they are left on the adapter.
InForceIsRecorded ==
    \A t \in cfg.threads : n.crashes = 0 =>
        /\ host[t].address = undo[t].address
        /\ host[t].route = undo[t].route
        /\ host[t].filters = Len(undo[t].wfp_block)
        /\ host[t].filters = 0 => host[t].metric = "auto"
        /\ host[t].dns4 = "dns" => undo[t].undo_dns4
        /\ host[t].dns4 = "nrpt" => undo[t].undo_nrpt
        /\ host[t].dns6 = "dns" => undo[t].undo_dns6
        /\ host[t].nrpt # {} => undo[t].undo_nrpt
        /\ host[t].wins = undo[t].undo_wins

\* The search list is the user's own again once no tunnel has domains in it, whichever
\* tunnel came and went first, and after a crash once the service has started again.  The
\* exception is a list torn by a tunnel that leaves while a later one's longer domains follow
\* its own (the length given to wmemmove is that of the domains); the next start
\* of the service still repairs it.
SearchListRestored ==
    /\ (svc # "start" /\ \A t \in cfg.threads : undo[t].undo_domains = Nothing) =>
          reg["shared"].search = cfg.original \/ reg["shared"].torn
    /\ reg["shared"].torn => reg["shared"].initial = cfg.original /\ Cardinality(cfg.threads) > 1
    /\ cfg.list # "itf" => \A t \in Threads : reg[t].search = <<>>

\* A thread is started only for options a user may give: all of them on the white list
\* and the configuration inside the configuration directory, or an administrator.
OnlyApprovedOptions ==
    \A t \in cfg.threads : thr[t].process =>
        \/ thr[t].startup.user.service
        \/ (thr[t].startup.user.token \cup thr[t].startup.user.member)
              \cap {"Administrators", "OpenVPN Administrators"} # {}
        \/ LET argv == thr[t].startup.argv
           IN  /\ "--plugin" \notin Range(argv)
               /\ \A i \in 2..Len(argv) : argv[i - 1] = "--config" => argv[i] = "inside"

=============================================================================
