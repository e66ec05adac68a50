-------------------------------- MODULE Dco ---------------------------------
(***************************************************************************)
(* Data channel offload: what the kernel has and what user space believes  *)
(* it has (dco.c, dco_linux.c, dco_freebsd.c, dco_win.c, forward.c, ssl.c, *)
(* multi.c).  There are two state machines, each with the configuration of *)
(* the process in cfg.                                                     *)
(*                                                                         *)
(* KeysSpec: the data channel keys of one peer.  User space negotiates     *)
(* keys, the kernel has two key slots, and dco_update_keys, which check_tls*)
(* runs after every pass of the TLS code, makes the kernel encrypt with    *)
(* the key tls_select_encryption_key selects.  A key is at one of the three*)
(* places get_key_scan looks at: the primary ("AP") and the lame duck      *)
(* ("AL") key of TM_ACTIVE, and the lame duck key of TM_LAME_DUCK ("LL").  *)
(* Every action is one pass of check_tls, or an event and the pass that    *)
(* follows it; a command to the kernel may fail.                           *)
(*                                                                         *)
(* PeersSpec: the peers of the kernel and the client instances of user     *)
(* space.  Commands create, key, query and delete peers; the kernel tells  *)
(* user space of peers it dropped, of floated peers and of keys that run   *)
(* out.  Under Linux both ways share one netlink socket: a command waits   *)
(* for its acknowledgement in a loop that handles whatever message comes   *)
(* first, so a handler can run, and send commands, inside the wait.  Under *)
(* FreeBSD and Windows a command is one ioctl and notices are read by the  *)
(* event loop only.  An instance and a kernel peer carry the number of the *)
(* connection they were made for; notices carry it too, as history: the    *)
(* code sees only the peer id.                                             *)
(***************************************************************************)
EXTENDS Naturals, Sequences, FiniteSets, SequencesExt

CONSTANTS
    KeyConfigs,     \* records [platform, single_session, faults]
    MaxKeys,        \* bound on the number of keys negotiated
    PeerConfigs,    \* records [platform, mode, net, faults, collide]
    PeerIds,        \* the peer ids, 0..max_clients-1
    MaxConns,       \* bound on the number of connections
    MaxNotes        \* bound on the notices the kernel sends of its own accord

VARIABLE
    cfg         \* the platform and options of this process

VARIABLES
    key,        \* the key at each place of the scan
    dco,        \* [installed: multi->dco_keys_installed, primary, secondary: the id of the key
                \*  in each slot of the kernel, 0 when empty]
    nkeys,      \* keys created so far
    failed,     \* the ASSERTs of dco_update_keys that failed, which end the process
    sig,        \* "SIGUSR1" once a failed command asked for a restart
    third       \* history: a key was installed while two others were

VARIABLES
    inst,       \* m->instances: [conn, dco] with dco the peer is known to the kernel
    kern,       \* the connection the kernel's peer belongs to, 0 when there is none
    late,       \* deletions by user space the kernel has not reported yet
    q,          \* the messages user space has not read
    wait,       \* the commands that wait for an acknowledgement, the innermost last
    status,     \* dco->status
    host,       \* the routes added for the networks of clients
    n           \* [conns, notes: connections made, notices sent; freed: history, an instance
                \*  was closed inside the wait of its own command]

-----------------------------------------------------------------------------
(* The keys of one peer *)

keyVars == <<cfg, key, dco, nkeys, failed, sig, third>>

Scan == <<"AP", "AL", "LL">>
Places == {"AP", "AL", "LL"}
NoKey == [id |-> 0, generated |-> FALSE, ripe |-> FALSE, status |-> "none"]

First(indices) == Scan[CHOOSE i \in indices : \A j \in indices : i <= j]

\* The first usable key whose auth_deferred_expire has passed, else the first usable key.
tls_select_encryption_key(k) ==
    LET usable == {i \in 1..3 : k[Scan[i]].generated}
        ripe == {i \in usable : k[Scan[i]].ripe}
    IN IF ripe # {} THEN First(ripe) ELSE IF usable # {} THEN First(usable) ELSE "none"

\* The first usable key other than the primary.
dco_get_secondary_key(k, primary) ==
    LET usable == {i \in 1..3 : k[Scan[i]].generated /\ Scan[i] # primary}
    IN IF usable # {} THEN First(usable) ELSE "none"

\* What the kernel does with a command; ovpn-dco-win ignores dco_del_key.
SwapSlots(d) == [d EXCEPT !.primary = d.secondary, !.secondary = d.primary]
DelSlot(d, slot) == IF cfg.platform = "windows" THEN d ELSE [d EXCEPT ![slot] = 0]

\* The command that fails, if one does.
Failures == IF cfg.faults THEN {"no", "new", "swap", "del1", "del2"} ELSE {"no"}

\* Mutant: every key is installed in the primary slot.
InstallSlot_Primary(d) == "primary"
\* The slot dco_install_key chooses: PRIMARY only when no key is installed.
InstallSlot(d) == IF d.installed > 0 THEN "secondary" ELSE "primary"

\* A generated key is given to the kernel; it is counted only while fewer than two are.
dco_install_key(k, d) ==
    LET slot == InstallSlot(d)
        counted == d.installed < 2
    IN [key |-> [k EXCEPT !["AP"].generated = TRUE,
                          !["AP"].status = IF counted THEN slot ELSE @],
        dco |-> [d EXCEPT ![slot] = k["AP"].id, !.installed = IF counted THEN @ + 1 ELSE @]]

\* The keys after a swap: their statuses follow the slots of the kernel.
Promote(k, primary, secondary) ==
    [p \in Places |-> IF p = primary THEN [k[p] EXCEPT !.status = "primary"]
                      ELSE IF p = secondary THEN [k[p] EXCEPT !.status = "secondary"]
                      ELSE k[p]]

\* The end of dco_update_keys: an unused second slot is wiped, other keys are not installed.
Settle(k, d, primary, secondary, fail) ==
    LET unused == secondary = "none" /\ d.installed = 2
    IN IF unused /\ fail = "del2"
         THEN [key |-> k, dco |-> d, ok |-> FALSE, bad |-> {}]
         ELSE [key |-> [p \in Places |-> IF p \in {primary, secondary} THEN k[p]
                                         ELSE [k[p] EXCEPT !.status = "none"]],
               dco |-> IF unused THEN [DelSlot(d, "secondary") EXCEPT !.installed = 1] ELSE d,
               ok |-> TRUE, bad |-> {}]

\* No usable key is left: both slots are wiped, the second only if the first could be.
Wipe(k, d, fail) ==
    [key |-> k,
     dco |-> CASE fail = "del1" -> d
               [] fail = "del2" -> DelSlot(d, "primary")
               [] OTHER -> [DelSlot(DelSlot(d, "primary"), "secondary") EXCEPT !.installed = 0],
     ok |-> fail \notin {"del1", "del2"}, bad |-> {}]

\* The selected key was installed as secondary and has been promoted since.
NeedsSwap(k, primary, secondary) == k[primary].status = "secondary"

\* The two ASSERTs on the statuses of the keys that are found.
Asserts(k, primary, secondary) ==
    {a \in {"primary installed", "secondary was primary"} :
        \/ a = "primary installed" /\ k[primary].status = "none"
        \/ /\ a = "secondary was primary"
           /\ k[primary].status = "secondary" /\ secondary # "none"
           /\ k[secondary].status # "primary"}

dco_update_keys(k, d, fail) ==
    LET primary == tls_select_encryption_key(k)
        secondary == dco_get_secondary_key(k, primary)
    IN IF d.installed = 0 THEN [key |-> k, dco |-> d, ok |-> TRUE, bad |-> {}]
       ELSE IF primary = "none" THEN Wipe(k, d, fail)
       ELSE IF Asserts(k, primary, secondary) # {}
         THEN [key |-> k, dco |-> d, ok |-> TRUE, bad |-> Asserts(k, primary, secondary)]
       ELSE IF ~NeedsSwap(k, primary, secondary) THEN Settle(k, d, primary, secondary, fail)
       ELSE IF fail = "swap" THEN [key |-> k, dco |-> d, ok |-> FALSE, bad |-> {}]
       ELSE Settle(Promote(k, primary, secondary), SwapSlots(d), primary, secondary, fail)

\* The end of check_tls: a failed update ends the connection; dco_swap_keys is fatal on Windows.
check_dco_key_status(k, d, fail) ==
    LET u == dco_update_keys(k, d, fail)
    IN /\ key' = u.key
       /\ dco' = u.dco
       /\ failed' = u.bad
       /\ sig' = IF u.ok THEN "none" ELSE "SIGUSR1"

Running == sig = "none" /\ failed = {}
Fresh(id) == [NoKey EXCEPT !.id = id]

KeysInit ==
    /\ cfg \in KeyConfigs
    /\ key = [p \in Places |-> IF p = "AP" THEN Fresh(1) ELSE NoKey]
    /\ dco = [installed |-> 0, primary |-> 0, secondary |-> 0]
    /\ nkeys = 1
    /\ failed = {}
    /\ sig = "none"
    /\ third = FALSE

\* The primary key is negotiated: its data channel keys are generated and installed.  A failed
\* installation puts the key into S_ERROR_PRE.
GenerateKeys ==
    /\ Running
    /\ key["AP"].id # 0 /\ ~key["AP"].generated
    /\ UNCHANGED <<cfg, nkeys>>
    /\ \E fail \in Failures :
          IF fail = "new"
            THEN /\ check_dco_key_status([key EXCEPT !["AP"] = NoKey], dco, "no")
                 /\ UNCHANGED third
            ELSE LET i == dco_install_key(key, dco)
                 IN /\ check_dco_key_status(i.key, i.dco, fail)
                    /\ third' = (third \/ dco.installed = 2)

\* auth_deferred_expire of a generated key passes.
KeyRipens ==
    /\ Running
    /\ UNCHANGED <<cfg, nkeys, third>>
    /\ \E p \in Places, fail \in Failures :
          /\ key[p].generated /\ ~key[p].ripe
          /\ check_dco_key_status([key EXCEPT ![p].ripe = TRUE], dco, fail)

\* key_state_soft_reset of TM_ACTIVE: by a renegotiation of either side, which needs a generated
\* key, or by the kernel's notice that its packet ids run out, which does not look at the key.
SoftReset ==
    /\ Running
    /\ nkeys < MaxKeys
    /\ key["AP"].id # 0
    /\ key["AP"].generated \/ (cfg.platform # "windows" /\ dco.primary # 0)
    /\ nkeys' = nkeys + 1
    /\ UNCHANGED <<cfg, third>>
    /\ \E fail \in Failures :
          check_dco_key_status([key EXCEPT !["AL"] = key["AP"], !["AP"] = Fresh(nkeys + 1)],
                               dco, fail)

\* must_die of a lame duck key passes.
LameDuckDies ==
    /\ Running
    /\ UNCHANGED <<cfg, nkeys, third>>
    /\ \E p \in {"AL", "LL"}, fail \in Failures :
          /\ key[p].id # 0
          /\ check_dco_key_status([key EXCEPT ![p] = NoKey], dco, fail)

\* The negotiation of the primary key fails: a usable lame duck key is kept in TM_LAME_DUCK
\* unless --single-session is given, and TM_ACTIVE starts again.
NegotiationFails ==
    /\ Running
    /\ ~key["AP"].generated
    /\ UNCHANGED <<cfg, nkeys, third>>
    /\ \E fail \in Failures :
          check_dco_key_status(
              [key EXCEPT !["AP"] = NoKey, !["AL"] = NoKey,
                          !["LL"] = IF key["AL"].generated /\ ~cfg.single_session
                                      THEN key["AL"] ELSE @],
              dco, fail)

\* A negotiated TM_INITIAL session usurps TM_ACTIVE; its keys are generated in a later pass.
NewSession ==
    /\ Running
    /\ nkeys < MaxKeys
    /\ nkeys' = nkeys + 1
    /\ UNCHANGED <<cfg, third>>
    /\ \E fail \in Failures :
          check_dco_key_status([key EXCEPT !["AP"] = Fresh(nkeys + 1), !["AL"] = NoKey], dco, fail)

KeysNext ==
    \/ GenerateKeys
    \/ KeyRipens
    \/ SoftReset
    \/ LameDuckDies
    \/ NegotiationFails
    \/ NewSession

KeysSpec == KeysInit /\ [][KeysNext]_keyVars

-----------------------------------------------------------------------------

\* Every variable keeps its type.
KeysTypeOK ==
    /\ cfg \in KeyConfigs
    /\ key \in [Places -> [id : 0..MaxKeys, generated : BOOLEAN, ripe : BOOLEAN,
                           status : {"none", "primary", "secondary"}]]
    /\ dco \in [installed : 0..2, primary : 0..MaxKeys, secondary : 0..MaxKeys]
    /\ nkeys \in 1..MaxKeys
    /\ sig \in {"none", "SIGUSR1"}
    /\ third \in BOOLEAN

\* After every pass of check_tls the kernel encrypts with the key user space selects, can decrypt
\* with every key user space still accepts, and no key that user space gave up stays in a slot
\* (where the platform can delete keys).  There are two slots: while a third key is usable, which
\* needs a key kept in TM_LAME_DUCK, the kernel lacks one of them (README, section 5).
KernelKeysAgree ==
    LET selected == tls_select_encryption_key(key)
        usable == {x \in Places : key[x].generated}
        accepted == {key[p].id : p \in usable}
    IN Running /\ Cardinality(usable) < 3 =>
          /\ selected # "none" => dco.primary = key[selected].id
          /\ accepted \subseteq {dco.primary, dco.secondary}
          /\ cfg.platform # "windows" => {dco.primary, dco.secondary} \subseteq accepted \cup {0}

\* "if we have a primary key, it must have been installed already (keys are installed upon
\* generation in the TLS code)": the ASSERTs of dco_update_keys fail only in a process that
\* installed a third key while both slots were in use, and that needs a key kept in TM_LAME_DUCK,
\* which --single-session rules out.
PrimaryIsInstalled ==
    /\ failed # {} => third
    /\ third => ~cfg.single_session

-----------------------------------------------------------------------------
(* The peers *)

peerVars == <<cfg, inst, kern, late, q, wait, status, host, n>>

NoInst == [conn |-> 0, dco |-> "no"]
Idle == wait = <<>>

-----------------------------------------------------------------------------
\* The routes of one client: its iroutes, and a host route when its address lies outside the
\* network of the interface; Windows needs none of the latter.

Families == {"ipv4", "ipv6"}
HasExtra(f) == f \in cfg.net.extra /\ cfg.platform # "windows"

\* dco_install_iroute for the client's address and for each of its iroutes.
dco_install_iroute ==
    {<<f, "iroute">> : f \in cfg.net.iroutes \cap cfg.net.pushed}
      \cup {<<f, "extra">> : f \in {g \in cfg.net.pushed : HasExtra(g)}}

\* dco_delete_iroutes: what it deletes, from the same conditions evaluated again.
dco_delete_iroutes ==
    UNION {{<<f, "iroute">> : g \in cfg.net.iroutes \cap {f}}
             \cup {<<f, "extra">> : g \in {h \in {f} : HasExtra(h)}} : f \in cfg.net.pushed}

-----------------------------------------------------------------------------
\* Commands.  A command is [cmd, id, conn]; a caller that issues several waits for each in turn,
\* so an element of wait is the sequence of commands its caller still has to issue.

Cmd(cmd, p, conn) == [cmd |-> cmd, id |-> p, conn |-> conn]
dco_new_peer(p, conn) == Cmd("new", p, conn)
dco_del_peer(p, conn) == Cmd("del", p, conn)
dco_new_key(p, conn) == Cmd("key", p, conn)
dco_get_peer_stats(p, conn) == Cmd("stats", p, conn)
Note(t, p, conn) == [t |-> t, id |-> p, conn |-> conn, ok |-> TRUE]
Ack(c, ok) == [t |-> "ack", id |-> c.id, conn |-> c.conn, ok |-> ok]
\* A peer or a key may be refused; what exists can be deleted.
Faults(c) == IF cfg.faults /\ c.cmd \in {"new", "key"} THEN BOOLEAN ELSE {FALSE}
Replaces(c) == c.cmd = "new" /\ cfg.mode = "p2p" /\ cfg.platform = "linux"

\* Whether the kernel carries a command out.
Accepted(c) == CASE c.cmd = "new" -> kern[c.id] = 0 \/ Replaces(c)
                 [] c.cmd \in {"del", "key"} -> kern[c.id] # 0
                 [] OTHER -> TRUE

\* What it does to the kernel's peers: in P2P mode a new peer replaces any other under Linux.
Effect(c) == CASE c.cmd = "new" -> [p \in PeerIds |-> IF p = c.id THEN c.conn
                                                     ELSE IF Replaces(c) THEN 0 ELSE kern[p]]
               [] c.cmd = "del" -> [kern EXCEPT ![c.id] = 0]
               [] OTHER -> kern

\* The caller at the end of wait issues its first command: it is carried out at once, and
\* answered by a message under Linux and by the result of the ioctl elsewhere.
Send(calls, queue) ==
    LET c == Head(Last(calls))
    IN \E fault \in Faults(c) :
          LET ok == ~fault /\ Accepted(c)
          IN /\ kern' = IF ok THEN Effect(c) ELSE kern
             /\ late' = IF ok /\ c.cmd = "del" THEN late \cup {<<c.id, kern[c.id]>>} ELSE late
             /\ wait' = calls
             /\ IF cfg.platform = "linux"
                  THEN status' = "pending" /\ q' = Append(queue, Ack(c, ok))
                  ELSE status' = (IF ok THEN "ok" ELSE "failed") /\ q' = queue

\* Commands under way concern peer p.
UnderWay(p) == \E i \in DOMAIN wait : \E j \in DOMAIN wait[i] : wait[i][j].id = p

NoCommand(queue) == q' = queue /\ UNCHANGED <<kern, late, wait, status>>

\* The caller of dco_new_peer notes the peer id, or gives the instance up.
Returned(in, c, ok) ==
    IF c.cmd # "new" \/ in[c.id].conn # c.conn THEN in
    ELSE IF ok THEN [in EXCEPT ![c.id].dco = "yes"]
    ELSE [in EXCEPT ![c.id] = NoInst]

\* The wait of the innermost command ends: its caller goes on with the status it finds.
Return ==
    /\ ~Idle /\ status # "pending"
    /\ LET calls == Last(wait)
           c == Head(calls)
           goes_on == Len(calls) > 1 /\ (c.cmd = "new" => status = "ok")
       IN /\ inst' = Returned(inst, c, status = "ok")
          /\ host' = IF c.cmd = "new" /\ inst'[c.id].dco = "yes" /\ cfg.mode = "mp"
                       THEN host \cup {<<c.id, r>> : r \in dco_install_iroute} ELSE host
          /\ IF goes_on THEN Send(Append(Front(wait), Tail(calls)), q)
                        ELSE wait' = Front(wait) /\ UNCHANGED <<kern, late, q, status>>
    /\ UNCHANGED <<cfg, n>>

-----------------------------------------------------------------------------
\* Notices.

\* The instance is closed; nothing is sent when the kernel's peer is known to be gone.
CloseInst(p) == /\ inst' = [inst EXCEPT ![p] = NoInst]
                /\ host' = host \ {<<p, r>> : r \in dco_delete_iroutes}

\* Mutant: the report of a deletion by user space closes the instance as well.
process_incoming_del_peer_Userspace(m) == inst[m.id].conn # 0
\* Server: the kernel dropped the peer.  The report of a deletion asked for by user space may
\* come after the peer id was used again and is ignored.
process_incoming_del_peer(m) == m.t # "userspace" /\ inst[m.id].conn # 0

multi_process_incoming_dco(m, rest) ==
    \/ /\ m.t \in {"expired", "transport", "userspace"}
       /\ IF process_incoming_del_peer(m) THEN CloseInst(m.id) ELSE UNCHANGED <<inst, host>>
       /\ NoCommand(rest)
       /\ UNCHANGED n
    \/ \* the peer floats to the address of another instance of the same client, which is closed
       \E p \in PeerIds \ {m.id} :
          /\ m.t = "float" /\ cfg.collide /\ inst[m.id].conn # 0 /\ inst[p].conn # 0
          /\ CloseInst(p)
          /\ n' = [n EXCEPT !.freed = @ \/ UnderWay(p)]
          /\ IF inst[p].dco = "yes"
               THEN Send(Append(wait, <<dco_del_peer(p, inst[p].conn)>>), rest)
               ELSE NoCommand(rest)
    \/ /\ m.t \in {"float", "swap"}
       /\ UNCHANGED <<inst, host, n>>
       /\ NoCommand(rest)

\* Client: notices for another peer id are ignored; the peer id is forgotten whatever the
\* reason, and only an expired peer restarts the client.
process_incoming_dco(m, rest) ==
    /\ inst' = IF m.t \notin {"expired", "transport", "userspace"} \/ inst[m.id].dco # "yes"
                 THEN inst
               ELSE IF m.t = "expired" THEN [inst EXCEPT ![m.id] = NoInst]
               ELSE [inst EXCEPT ![m.id].dco = "gone"]
    /\ NoCommand(rest)
    /\ UNCHANGED <<host, n>>

\* A notice, whoever reads it.
HandleNotice(m, rest) ==
    IF cfg.mode = "mp" THEN multi_process_incoming_dco(m, rest) ELSE process_incoming_dco(m, rest)

\* Linux: one message is read, by the event loop or by a command that waits; an acknowledgement
\* becomes the status of whichever command waits.
ovpn_handle_msg ==
    /\ cfg.platform = "linux"
    /\ q # <<>>
    /\ Idle \/ status = "pending"
    /\ IF Head(q).t = "ack"
         THEN /\ status' = IF Head(q).ok THEN "ok" ELSE "failed"
              /\ q' = Tail(q)
              /\ UNCHANGED <<inst, kern, late, wait, host, n>>
         ELSE HandleNotice(Head(q), Tail(q))
    /\ UNCHANGED cfg

\* FreeBSD and Windows: the event loop reads one notice.
dco_read_and_process ==
    /\ cfg.platform # "linux"
    /\ q # <<>>
    /\ Idle
    /\ HandleNotice(Head(q), Tail(q))
    /\ UNCHANGED cfg

-----------------------------------------------------------------------------

PeersInit ==
    /\ cfg \in PeerConfigs
    /\ inst = [p \in PeerIds |-> NoInst]
    /\ kern = [p \in PeerIds |-> 0]
    /\ late = {}
    /\ q = <<>>
    /\ wait = <<>>
    /\ status = "ok"
    /\ host = {}
    /\ n = [conns |-> 0, notes |-> 0, freed |-> FALSE]

Free == {p \in PeerIds : inst[p].conn = 0}
\* A server gives out the first free peer id; a client takes the one its server pushes.
MayCreate(p) == /\ p \in Free
                /\ IF cfg.mode = "mp" THEN \A o \in Free : p <= o ELSE Free = PeerIds

Create ==
    /\ Idle
    /\ n.conns < MaxConns
    /\ \E p \in PeerIds : MayCreate(p) /\ inst' = [inst EXCEPT ![p].conn = n.conns + 1]
    /\ n' = [n EXCEPT !.conns = @ + 1]
    /\ UNCHANGED <<cfg, kern, late, q, wait, status, host>>

\* The client is authenticated, many turns of the event loop after its instance was made: what
\* was in the queue then has been read.
AddPeer ==
    /\ Idle
    /\ \E p \in PeerIds :
          /\ inst[p].conn # 0 /\ inst[p].dco = "no"
          /\ \A i \in DOMAIN q : q[i].conn >= inst[p].conn
          /\ Send(<< <<dco_new_peer(p, inst[p].conn), dco_new_key(p, inst[p].conn)>> >>, q)
    /\ UNCHANGED <<cfg, inst, host, n>>

\* A renegotiated key is installed.
Rekey ==
    /\ Idle
    /\ \E p \in PeerIds : inst[p].dco = "yes" /\ Send(<< <<dco_new_key(p, inst[p].conn)>> >>, q)
    /\ UNCHANGED <<cfg, inst, host, n>>

\* The commands of a closing instance: the statistics, for a server, and dco_remove_peer.
CloseCalls(p) == LET del == <<dco_del_peer(p, inst[p].conn)>>
                 IN <<IF cfg.mode = "mp" THEN <<dco_get_peer_stats(p, inst[p].conn)>> \o del ELSE del>>

\* An instance ends: timeout, exit message, kill, duplicate client, restart.
Close ==
    /\ Idle
    /\ \E p \in PeerIds :
          /\ inst[p].conn # 0
          /\ CloseInst(p)
          /\ IF inst[p].dco = "yes" THEN Send(CloseCalls(p), q) ELSE NoCommand(q)
    /\ UNCHANGED <<cfg, n>>

\* A point-to-point server is called by a new peer without a restart: FreeBSD is told to delete
\* the old peer, Linux replaces it.
dco_p2p_add_new_peer ==
    /\ Idle
    /\ cfg.mode = "p2p" /\ n.conns < MaxConns
    /\ \E o, p \in PeerIds :
          LET new == <<dco_new_peer(p, n.conns + 1), dco_new_key(p, n.conns + 1)>>
              del == <<dco_del_peer(o, inst[o].conn)>>
          IN /\ inst[o].dco = "yes"
             /\ inst' = [inst EXCEPT ![o] = NoInst, ![p] = [conn |-> n.conns + 1, dco |-> "no"]]
             /\ Send(<<IF cfg.platform = "freebsd" THEN del \o new ELSE new>>, q)
    /\ n' = [n EXCEPT !.conns = @ + 1]
    /\ UNCHANGED <<cfg, host>>

\* The kernel drops a peer and says why, or reports a floated peer or a key that runs out.
KernelNotice ==
    /\ n.notes < MaxNotes
    /\ \E p \in PeerIds, t \in {"expired", "transport", "float", "swap"} :
          /\ kern[p] # 0
          /\ kern' = IF t \in {"expired", "transport"} THEN [kern EXCEPT ![p] = 0] ELSE kern
          /\ q' = Append(q, Note(t, p, kern[p]))
    /\ n' = [n EXCEPT !.notes = @ + 1]
    /\ UNCHANGED <<cfg, inst, late, wait, status, host>>

\* The kernel reports, late, a deletion that user space asked for.
KernelReports ==
    /\ \E d \in late : late' = late \ {d} /\ q' = Append(q, Note("userspace", d[1], d[2]))
    /\ UNCHANGED <<cfg, inst, kern, wait, status, host, n>>

PeersNext ==
    \/ Create
    \/ AddPeer
    \/ Rekey
    \/ Close
    \/ dco_p2p_add_new_peer
    \/ Return
    \/ ovpn_handle_msg
    \/ dco_read_and_process
    \/ KernelNotice
    \/ KernelReports

PeersSpec == PeersInit /\ [][PeersNext]_peerVars

-----------------------------------------------------------------------------

\* Every variable keeps its type.
PeersTypeOK ==
    /\ cfg \in PeerConfigs
    /\ inst \in [PeerIds -> [conn : 0..MaxConns, dco : {"no", "yes", "gone"}]]
    /\ kern \in [PeerIds -> 0..MaxConns]
    /\ late \subseteq PeerIds \X (1..MaxConns)
    /\ Len(wait) <= 2
    /\ status \in {"ok", "failed", "pending"}
    /\ host \subseteq PeerIds \X (Families \X {"iroute", "extra"})
    /\ n \in [conns : 0..MaxConns, notes : 0..MaxNotes, freed : BOOLEAN]

\* User space and the kernel agree on the peers: an instance that counts on the kernel has its
\* own peer there or a notice of its end is on the way; in a server every peer of the kernel
\* belongs to an instance that knows of it, and the routes are those of these instances.  Nothing
\* is said once a float collision, read while a command waits, has closed the very instance the
\* command is for: its caller goes on with a freed instance (Linux; README, section 5).
KernelPeersAgree ==
    n.freed \/ \A p \in PeerIds : UnderWay(p)
        \/ /\ inst[p].dco = "yes" =>
                 \/ kern[p] = inst[p].conn
                 \/ \E i \in DOMAIN q : q[i].conn = inst[p].conn
                                        /\ q[i].t \in {"expired", "transport"}
           /\ cfg.mode = "mp" =>
                 /\ kern[p] # 0 => kern[p] = inst[p].conn /\ inst[p].dco = "yes"
                 /\ {r \in host : r[1] = p} =
                       IF inst[p].dco = "yes" THEN {<<p, r>> : r \in dco_install_iroute} ELSE {}

=============================================================================
