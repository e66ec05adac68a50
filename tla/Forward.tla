------------------------------ MODULE Forward --------------------------------
(***************************************************************************)
(* The event loop of one tunnel between two peers: forward.c, with the     *)
(* timers of interval.c, the pings of ping.c and the messages of occ.c.    *)
(* There is one buffer towards the link, one towards the tun device and    *)
(* one datagram being fragmented; what goes into them comes from the       *)
(* device, the link, the timers, TLS and the messages between the peers.   *)
(* The coarse timers are looked at only when the earliest of them is due,  *)
(* which is remembered in coarse_timer_wakeup; TLS is called only when     *)
(* tmp_int says so.  Time is in seconds and passes while the loop waits.   *)
(***************************************************************************)
EXTENDS Integers, Sequences, FiniteSets, SequencesExt

CONSTANTS Configs,        \* the options of a peer, and the number of packets that arrive
          Start, MaxTime, \* time passes from Start to MaxTime
          BigTimeout,     \* BIG_TIMEOUT
          Horizon,        \* TLS_MULTI_HORIZON
          Refresh,        \* TLS_MULTI_REFRESH
          Rto,            \* a control packet is sent again after Rto seconds
          RemoteRetry,    \* the retry of check_ping_restart while there is no remote
          OccInterval, LoadInterval, OccTries, LoadSequence

VARIABLES cfg,    \* the options
          now,    \* the time
          pc,     \* "select", "wait", or "end" when a signal ends the loop
          c,      \* the context: timers, buffers and states
          q,      \* what waits in the link socket and in the tun device
          hist    \* what has passed

vars == <<cfg, now, pc, c, q, hist>>

Timers == {"connect", "route", "inactive", "ping_rec", "poll", "occ", "load", "ping_send"}
Nothing == [kind |-> "none", id |-> 0, part |-> 0]
Packet(k, i) == [kind |-> k, id |-> i, part |-> 1]
OccReceived == {"REQUEST", "MTU_REQUEST", "MTU_LOAD_REQUEST", "REPLY", "MTU_REPLY", "MTU_LOAD", "EXIT"}
LessOf(a, b) == IF a < b THEN a ELSE b
MoreOf(a, b) == IF a < b THEN b ELSE a

-----------------------------------------------------------------------------
(* Timers.                                                                 *)
Off == [defined |-> FALSE, n |-> 0, last |-> 0]
event_timeout_init(n, last) == [defined |-> TRUE, n |-> n, last |-> last]
event_timeout_reset(e) == IF e.defined THEN [e EXCEPT !.last = now] ELSE e
Due(e) == e.last + e.n

\* With retry >= 0 the timer is held back: it is looked at again in retry seconds.
event_timeout_trigger(k, t, retry) ==
    LET e == k.et[t]
        due == Due(e) <= now
        wakeup == IF ~due THEN Due(e) - now ELSE IF retry < 0 THEN e.n ELSE retry
    IN IF ~e.defined THEN [k EXCEPT !.fired = FALSE]
       ELSE [k EXCEPT !.fired = due /\ retry < 0,
                      !.et[t].last = IF due /\ retry < 0 THEN now ELSE @,
                      !.timeval = LessOf(@, wakeup)]

reset_coarse_timers(k) == [k EXCEPT !.coarse_timer_wakeup = 0]
register_signal(k, s) == [k EXCEPT !.sig = s]

-----------------------------------------------------------------------------
(* What is sent.                                                           *)
TO_LINK_DEF(k) == k.to_link # Nothing \/ k.frag # <<>>

\* Data waits until the connection is up, and nothing is sent to an unknown peer.
MaySend(k) == (cfg.tls => k.state = "done") /\ (cfg.remote \/ k.conn)
encrypt_sign(k, p) ==
    [k EXCEPT !.to_link = IF MaySend(k) THEN p ELSE Nothing, !.len = MaySend(k)]

\* A datagram is cut into cfg.frag fragments: the first is sent now.
Fragments(i) == [n \in 1..cfg.frag |-> [Packet("data", i) EXCEPT !.part = n]]
EncryptDatagram(k, i) ==
    IF MaySend(k) THEN [encrypt_sign(k, Fragments(i)[1]) EXCEPT !.frag = Tail(Fragments(i))]
    ELSE encrypt_sign(k, Nothing)

check_ping_send_dowork(k) == [encrypt_sign(k, Packet("ping", 0)) EXCEPT !.len = FALSE]

check_send_occ_req_dowork(k) ==
    IF k.occ_n_tries + 1 >= OccTries
    THEN [k EXCEPT !.occ_n_tries = @ + 1, !.et["occ"] = Off]
    ELSE [k EXCEPT !.occ_n_tries = @ + 1, !.occ_op = "REQUEST", !.et["occ"].last = now]

connection_established(k) == IF cfg.tls THEN k.state # "none" ELSE k.conn

check_send_occ_load_test_dowork(k) ==
    IF ~connection_established(k) THEN k
    ELSE IF k.load_n_tries < Len(LoadSequence)
         THEN [k EXCEPT !.load_n_tries = @ + 1, !.occ_op = LoadSequence[k.load_n_tries + 1]]
         ELSE [k EXCEPT !.load_n_tries = 0, !.et["load"] = Off]

\* Mutant: the buffer towards the link is not looked at.
check_send_occ_msg_Overwrites(k) ==
    IF k.occ_op = "none" THEN k ELSE [encrypt_sign(k, Packet(k.occ_op, 0)) EXCEPT !.occ_op = "none"]
check_send_occ_msg(k) ==
    CASE k.occ_op = "none" -> k
      [] k.occ_op # "none" /\ ~TO_LINK_DEF(k) ->
            [encrypt_sign(k, Packet(k.occ_op, 0)) EXCEPT !.occ_op = "none"]
      [] OTHER -> [k EXCEPT !.timeval = 0]

check_fragment(k) ==
    IF k.frag # <<>> /\ k.to_link = Nothing
    THEN [encrypt_sign(k, Head(k.frag)) EXCEPT !.frag = Tail(@)] ELSE k

-----------------------------------------------------------------------------
(* The coarse timers, in their order.                                      *)
do_up(k) ==
    LET u == IF k.do_up_ran /\ k.state # "reconnect" THEN k
             ELSE [k EXCEPT !.tun = TRUE, !.do_up_ran = TRUE,
                            !.state = IF cfg.tls THEN "done" ELSE @,
                            !.et["route"] = IF cfg.route_delay > 0
                                            THEN event_timeout_init(cfg.route_delay, now) ELSE @]
    IN IF k.do_up_ran THEN u ELSE reset_coarse_timers(u)

check_connection_established(k) ==
    IF connection_established(k) THEN [do_up(k) EXCEPT !.et["connect"] = Off] ELSE k

check_server_poll_timeout(k) ==
    IF k.initial_packet THEN k ELSE register_signal(k, "server_poll")

OnTimer(k, t) ==
    CASE t = "connect" -> check_connection_established(k)
      [] t = "route" -> [k EXCEPT !.et["route"] = Off]
      [] t = "inactive" -> register_signal(k, "inactive")
      [] t = "ping_rec" -> register_signal(k, "ping-restart")
      [] t = "poll" -> check_server_poll_timeout(k)
      [] t = "occ" -> check_send_occ_req_dowork(k)
      [] t = "load" -> check_send_occ_load_test_dowork(k)
      [] t = "ping_send" -> check_ping_send_dowork(k)

Retry(k, t) ==
    CASE t = "ping_rec" -> IF ~cfg.timer_remote \/ k.conn THEN -1 ELSE RemoteRetry
      [] t \in {"occ", "load"} -> IF ~TO_LINK_DEF(k) /\ k.occ_op = "none" THEN -1 ELSE 0
      [] t = "ping_send" -> IF ~TO_LINK_DEF(k) THEN -1 ELSE 1
      [] OTHER -> -1

CheckTimer(k, t) ==
    LET f == event_timeout_trigger(k, t, Retry(k, t))
    IN IF k.sig # "none" THEN k ELSE IF f.fired THEN OnTimer(f, t) ELSE f

process_coarse_timers(k) ==
    FoldLeft(CheckTimer, k, <<"connect", "route", "inactive", "ping_rec", "poll", "occ", "load", "ping_send">>)

CoarseProcessed(k) == [k EXCEPT !.coarse_timer_wakeup = now + k.timeval, !.fired = FALSE]
check_coarse_timers(k) ==
    IF now < k.coarse_timer_wakeup THEN [k EXCEPT !.timeval = LessOf(@, k.coarse_timer_wakeup - now)]
    ELSE CoarseProcessed(process_coarse_timers(k))

-----------------------------------------------------------------------------
(* TLS: ready control packets, and the time the last one is sent again.    *)
interval_test(i) ==
    \/ i.last_action + Horizon > now
    \/ i.last_test_true + Refresh <= now
    \/ i.future_trigger # 0 /\ now >= i.future_trigger
TestTrue(i) ==
    [i EXCEPT !.last_test_true = now,
              !.future_trigger = IF @ # 0 /\ now >= @ THEN 0 ELSE @]
interval_action(i) == [i EXCEPT !.last_action = now]
interval_future_trigger(i, wakeup) == [i EXCEPT !.future_trigger = now + wakeup]
interval_earliest_wakeup(wakeup, at) == IF at > now THEN LessOf(wakeup, at - now) ELSE wakeup
interval_schedule_wakeup(i, wakeup) ==
    interval_earliest_wakeup(interval_earliest_wakeup(wakeup, i.last_test_true + Refresh), i.future_trigger)

Resend(k) == k.resend # 0 /\ now >= k.resend
TlsReady(k) == k.ready + IF Resend(k) THEN 1 ELSE 0
TlsWrites(k) == k.to_link = Nothing /\ TlsReady(k) > 0
TlsSession(k) ==
    [k EXCEPT !.ready = TlsReady(k) - IF TlsWrites(k) THEN 1 ELSE 0,
              !.resend = IF TlsWrites(k) THEN now + Rto ELSE IF Resend(k) THEN 0 ELSE @,
              !.to_link = IF TlsWrites(k) THEN Packet("control", 0) ELSE @]
TlsWakeup(k) == IF k.ready > 0 THEN 1 ELSE IF k.resend # 0 THEN k.resend - now ELSE BigTimeout
TlsActive(k) == k.ready > 0 \/ k.to_link # Nothing

\* A session of a peer that starts over takes the place of the trusted one.
Reconnects(k) == k.promote /\ k.state = "done"
\* Mutant: the timer is armed without reset_coarse_timers.
Promoted_NoReset(k) ==
    IF Reconnects(k)
    THEN [k EXCEPT !.promote = FALSE, !.state = "reconnect", !.et["connect"] = event_timeout_init(1, now)]
    ELSE [k EXCEPT !.promote = FALSE]
Promoted(k) ==
    IF Reconnects(k)
    THEN reset_coarse_timers([k EXCEPT !.promote = FALSE, !.state = "reconnect",
                                       !.et["connect"] = event_timeout_init(1, now)])
    ELSE [k EXCEPT !.promote = FALSE]
tls_multi_process(k) == Promoted(TlsSession(k))

RescheduleTls(k, wakeup) ==
    LET w == interval_schedule_wakeup(k.tmp_int, wakeup)
    IN IF w = 0 THEN k ELSE [k EXCEPT !.timeval = LessOf(@, w)]
Tested(k, p) ==
    LET i == IF TlsActive(p) \/ Reconnects(k) THEN interval_action(TestTrue(k.tmp_int)) ELSE TestTrue(k.tmp_int)
    IN RescheduleTls([p EXCEPT !.tmp_int = interval_future_trigger(i, TlsWakeup(p))], TlsWakeup(p))
check_tls(k) ==
    IF interval_test(k.tmp_int) THEN Tested(k, tls_multi_process(k)) ELSE RescheduleTls(k, BigTimeout)

-----------------------------------------------------------------------------
AfterTimers(k) == check_fragment(check_send_occ_msg(IF cfg.tls THEN check_tls(k) ELSE k))
pre_select(k) ==
    LET t == check_coarse_timers([k EXCEPT !.timeval = BigTimeout])
    IN IF t.sig # "none" THEN t ELSE AfterTimers(t)

\* What the loop waits for.
p2p_iow_flags(k) ==
    {"READ"} \cup (IF k.to_link # Nothing THEN {"TO_LINK"} ELSE {})
             \cup (IF k.to_tun # Nothing THEN {"TO_TUN"} ELSE {})
multi_io_process_flags(k, flags) ==
    (IF "TO_LINK" \in flags THEN {"SOCKET_WRITE"}
     ELSE IF k.frag = <<>> /\ k.tun THEN {"TUN_READ"} ELSE {})
    \cup (IF "TO_TUN" \in flags THEN {"TUN_WRITE"} ELSE {"SOCKET_READ"})
WaitsFor(k) == multi_io_process_flags(k, p2p_iow_flags(k))

\* A packet that was read together with the one before is taken without waiting.
sockets_read_residual(k) == q.res > 0 /\ "SOCKET_READ" \in WaitsFor(k)

register_activity(k) == [k EXCEPT !.et["inactive"] = event_timeout_reset(@)]

process_outgoing_link(k, outcome) ==
    LET p == [k EXCEPT !.et["ping_send"] = event_timeout_reset(@), !.to_link = Nothing]
        a == IF k.len /\ outcome = "sent" THEN register_activity(p) ELSE p
    IN IF outcome = "unreachable" /\ cfg.tls /\ ~k.initial_packet
       THEN register_signal(a, "network-unreachable") ELSE a

process_outgoing_tun(k) == [register_activity(k) EXCEPT !.to_tun = Nothing]

-----------------------------------------------------------------------------
(* What is received.                                                       *)
process_received_occ_msg(k, op) ==
    CASE op = "REQUEST" -> [k EXCEPT !.occ_op = "REPLY"]
      [] op = "MTU_REQUEST" -> [k EXCEPT !.occ_op = "MTU_REPLY"]
      [] op = "MTU_LOAD_REQUEST" -> [k EXCEPT !.occ_op = "MTU_LOAD"]
      [] op = "REPLY" -> [k EXCEPT !.et["occ"] = Off]
      [] op = "MTU_REPLY" -> [k EXCEPT !.et["load"] = Off]
      [] op = "MTU_LOAD" -> k
      [] op = "EXIT" -> register_signal(k, "remote-exit")

Heard(k) == [k EXCEPT !.et["ping_rec"] = event_timeout_reset(@)]

\* tls_pre_decrypt takes a control packet: the peer answers, and a packet it
\* had not acknowledged need not be sent again.
TakeControl(k, kind) ==
    [Heard(k) EXCEPT !.tmp_int = interval_action(@), !.initial_packet = TRUE, !.conn = TRUE,
                     !.ready = LessOf(@ + 1, 2), !.resend = 0,
                     !.state = IF @ = "none" THEN "import" ELSE @,
                     !.promote = @ \/ kind = "newsession"]

MayReceive(k) == cfg.tls => k.state = "done"
process_incoming_link_part1(k, p) ==
    CASE p.kind \in {"control", "newsession"} -> TakeControl(k, p.kind)
      [] p.kind = "bad" /\ MayReceive(k) /\ cfg.tcp -> register_signal(k, "decryption-error")
      [] OTHER -> k

Authentic(k, p) == MayReceive(k) /\ p.kind \in {"data", "ping"} \cup OccReceived
\* Mutant: a packet is kept for a tun device that is not open.
process_incoming_link_part2_Unopened(k, p) ==
    IF ~Authentic(k, p) THEN [k EXCEPT !.to_tun = Nothing, !.len = FALSE]
    ELSE LET h == [Heard(k) EXCEPT !.conn = TRUE, !.len = (p.kind = "data"),
                                   !.to_tun = IF p.kind = "data" THEN p ELSE Nothing]
         IN IF p.kind \in OccReceived THEN process_received_occ_msg(h, p.kind) ELSE h
process_incoming_link_part2(k, p) ==
    IF ~Authentic(k, p) THEN [k EXCEPT !.to_tun = Nothing, !.len = FALSE]
    ELSE LET h == [Heard(k) EXCEPT !.conn = TRUE, !.len = (p.kind = "data"),
                                   !.to_tun = IF p.kind = "data" /\ k.tun THEN p ELSE Nothing]
         IN IF p.kind \in OccReceived THEN process_received_occ_msg(h, p.kind) ELSE h

process_incoming_link(k, p) == process_incoming_link_part2(process_incoming_link_part1(k, p), p)

\* A packet from tun that goes to the address of the peer is one the host has routed
\* back into the tunnel.
drop_if_recursive_routing(k, p) ==
    IF p.kind = "recursive" /\ (cfg.remote \/ k.conn) THEN Nothing ELSE p

\* With --block-ipv6 the answer to an IPv6 packet goes into the buffer towards tun.
ipv6_send_icmp_unreachable(k) == [k EXCEPT !.to_tun = Packet("icmp", 0)]
process_ip_header(k, p) == IF p.kind = "ipv6" THEN ipv6_send_icmp_unreachable(k) ELSE k

Outgoing(k, p) ==
    IF p.kind \in {"data", "recursive"} THEN EncryptDatagram(k, p.id)
    ELSE [k EXCEPT !.to_link = Nothing, !.len = FALSE]
process_incoming_tun(k, p) ==
    LET d == drop_if_recursive_routing(k, p) IN Outgoing(process_ip_header(k, d), d)

-----------------------------------------------------------------------------
InitTimers(f) ==
    [t \in Timers |->
        CASE t = "connect" -> event_timeout_init(1, Start)
          [] t = "inactive" /\ f.inactive > 0 -> event_timeout_init(f.inactive, Start)
          [] t = "ping_rec" /\ f.rec > 0 -> event_timeout_init(f.rec, Start)
          [] t = "ping_send" /\ f.ping > 0 -> event_timeout_init(f.ping, 0)
          [] t = "poll" /\ f.tls /\ f.poll > 0 -> event_timeout_init(f.poll, Start)
          [] t = "occ" /\ f.occ /\ ~f.tls -> event_timeout_init(OccInterval, Start)
          [] t = "load" /\ f.mtu_test -> event_timeout_init(LoadInterval, Start)
          [] OTHER -> Off]

Init ==
    /\ cfg \in Configs
    /\ now = Start
    /\ pc = "select"
    /\ c = [et |-> InitTimers(cfg), coarse_timer_wakeup |-> 0, timeval |-> 0, fired |-> FALSE, sig |-> "none",
            to_link |-> Nothing, to_tun |-> Nothing, frag |-> <<>>, len |-> FALSE,
            occ_op |-> "none", occ_n_tries |-> 0, load_n_tries |-> 0,
            tmp_int |-> [future_trigger |-> 0, last_action |-> 0, last_test_true |-> 0],
            ready |-> IF cfg.tls /\ cfg.remote THEN 1 ELSE 0, resend |-> 0, promote |-> FALSE,
            initial_packet |-> FALSE, conn |-> FALSE, state |-> "none",
            tun |-> ~cfg.up_delay, do_up_ran |-> FALSE]
    /\ q = [link |-> <<>>, tun |-> <<>>, res |-> 0, arrived |-> 0]
    /\ hist = [in |-> <<>>, written |-> <<>>, out |-> <<>>, tried |-> <<>>,
               heard |-> Start, active |-> Start, coarse |-> Start]

\* The environment: time, the peer and the host.  With cfg.late the process may be
\* late to run when there is something to do.
Readable ==
    \/ q.link # <<>> /\ "SOCKET_READ" \in WaitsFor(c)
    \/ q.tun # <<>> /\ "TUN_READ" \in WaitsFor(c)
Tick ==
    /\ pc = "wait" /\ now < MaxTime
    /\ cfg.late \/ (c.timeval > 0 /\ ~Readable)
    /\ now' = now + 1
    /\ c' = [c EXCEPT !.timeval = MoreOf(@ - 1, 0)]
    /\ UNCHANGED <<cfg, pc, q, hist>>
LinkArrives ==
    /\ pc = "wait" /\ q.arrived < cfg.packets
    /\ \E k \in cfg.arrive :
         q' = [q EXCEPT !.link = Append(@, Packet(k, q.arrived + 1)), !.arrived = @ + 1]
    /\ UNCHANGED <<cfg, now, pc, c, hist>>
TunArrives ==
    /\ pc = "wait" /\ q.arrived < cfg.packets /\ c.tun
    /\ \E k \in cfg.routed :
         q' = [q EXCEPT !.tun = Append(@, Packet(k, q.arrived + 1)), !.arrived = @ + 1]
    /\ UNCHANGED <<cfg, now, pc, c, hist>>

\* The top of the loop: pre_select, then the wait.
Select ==
    /\ pc = "select"
    /\ c' = pre_select(c)
    /\ pc' = IF c'.sig # "none" THEN "end" ELSE "wait"
    /\ hist' = [hist EXCEPT !.coarse = IF now < c.coarse_timer_wakeup THEN @ ELSE now]
    /\ UNCHANGED <<cfg, now, q>>

Waiting == pc = "wait" /\ ~sockets_read_residual(c)
Timeout ==
    /\ Waiting /\ c.timeval = 0
    /\ pc' = "select"
    /\ UNCHANGED <<cfg, now, c, q, hist>>

Processed == pc' = IF c'.sig # "none" THEN "end" ELSE "select"

\* One branch of process_io each.
SocketWrite ==
    /\ Waiting /\ "SOCKET_WRITE" \in WaitsFor(c)
    /\ \E o \in cfg.outcomes :
         /\ c' = process_outgoing_link(c, o)
         /\ hist' = [hist EXCEPT !.tried = IF c.to_link.kind = "data" THEN Append(@, c.to_link) ELSE @]
    /\ Processed
    /\ UNCHANGED <<cfg, now, q>>
TunWrite ==
    /\ Waiting /\ "TUN_WRITE" \in WaitsFor(c)
    /\ c' = process_outgoing_tun(c)
    /\ hist' = [hist EXCEPT !.written = IF c.to_tun.kind = "data" THEN Append(@, c.to_tun) ELSE @,
                            !.active = now]
    /\ Processed
    /\ UNCHANGED <<cfg, now, q>>

\* A stream may give several packets at once: the others are its residual.
AfterRead ==
    IF q.res > 0 THEN q' = [q EXCEPT !.link = Tail(@), !.res = @ - 1]
    ELSE \E r \in IF cfg.tcp THEN 0..Len(Tail(q.link)) ELSE {0} : q' = [q EXCEPT !.link = Tail(@), !.res = r]
SocketRead ==
    /\ pc = "wait" /\ q.link # <<>> /\ "SOCKET_READ" \in WaitsFor(c)
    /\ AfterRead
    /\ c' = process_incoming_link(c, Head(q.link))
    /\ hist' = [hist EXCEPT
         !.in = IF Authentic(c, Head(q.link)) /\ Head(q.link).kind = "data" /\ c.tun
                THEN Append(@, Head(q.link)) ELSE @,
         !.heard = IF Authentic(c, Head(q.link)) \/ Head(q.link).kind \in {"control", "newsession"}
                   THEN now ELSE @]
    /\ Processed
    /\ UNCHANGED <<cfg, now>>
ConnectionReset ==
    /\ Waiting /\ cfg.tcp /\ q.link = <<>> /\ "SOCKET_READ" \in WaitsFor(c)
    /\ c' = register_signal(c, "connection-reset")
    /\ Processed
    /\ UNCHANGED <<cfg, now, q, hist>>
TunRead ==
    /\ Waiting /\ q.tun # <<>> /\ "TUN_READ" \in WaitsFor(c)
    /\ "SOCKET_READ" \in WaitsFor(c) => q.link = <<>>
    /\ c' = process_incoming_tun(c, Head(q.tun))
    /\ q' = [q EXCEPT !.tun = Tail(@)]
    /\ hist' = [hist EXCEPT !.out = IF Head(q.tun).kind = "data" /\ MaySend(c) THEN @ \o Fragments(Head(q.tun).id) ELSE @]
    /\ Processed
    /\ UNCHANGED <<cfg, now>>

Next == \/ Tick \/ LinkArrives \/ TunArrives \/ Select \/ Timeout
        \/ SocketWrite \/ TunWrite \/ SocketRead \/ ConnectionReset \/ TunRead

-----------------------------------------------------------------------------
\* Type correctness of the context and of the queues.
TypeOK ==
    /\ now \in Start..MaxTime
    /\ pc \in {"select", "wait", "end"}
    /\ \A t \in Timers : c.et[t] \in [defined : BOOLEAN, n : Nat, last : 0..MaxTime]
    /\ c.coarse_timer_wakeup \in Nat /\ c.timeval \in 0..BigTimeout
    /\ c.occ_op \in {"none"} \cup OccReceived
    /\ c.state \in {"none", "import", "reconnect", "done"}
    /\ q.res \in 0..Len(q.link)

IsData(p) == IF p.kind = "data" THEN <<p>> ELSE <<>>

\* The single buffers lose and repeat nothing: every fragment of every datagram read from
\* tun is given to the socket once, in order, whatever pings, control packets and OCC
\* messages come in between (one the socket does not take, or over TCP takes in part, is not
\* given to it again: process_outgoing_link resets the buffer), and tun gets every packet
\* the link delivered (the guards on to_link, to_tun and the fragments in pre_select and
\* multi_io_process_flags).  With --block-ipv6 the answer may take the place of a packet on
\* its way to tun.
PacketsPassOnce ==
    /\ hist.tried \o IsData(c.to_link) \o c.frag = hist.out
    /\ ~("ipv6" \in cfg.routed) => hist.written \o IsData(c.to_tun) = hist.in

\* The remembered time of the earliest coarse timer is not later than any timer that
\* is armed, except by the second or the retry for which a timer was held back; 0 means
\* that it is to be computed again (coarse_timer_wakeup, reset_coarse_timers).
CacheIsCurrent ==
    pc # "end" => \A t \in Timers : c.et[t].defined =>
        c.coarse_timer_wakeup <= MoreOf(Due(c.et[t]),
            hist.coarse + IF t = "ping_rec" /\ cfg.timer_remote THEN RemoteRetry ELSE 1)

\* While the loop waits, it can be woken by whoever needs it: it reads the link or an
\* open tun can take what is pending, it does not sleep beyond the coarse timers, and a
\* control packet that is ready is in the buffer or the time to send it again is not
\* slept through (io_wait, tmp_int).
WaitIsServed ==
    pc = "wait" =>
        /\ "SOCKET_READ" \in WaitsFor(c) \/ c.tun
        /\ c.coarse_timer_wakeup # 0 /\ c.timeval > 0 => now + c.timeval <= c.coarse_timer_wakeup
        /\ c.ready > 0 => c.to_link # Nothing
        /\ c.resend # 0 /\ c.timeval > 0 => now + c.timeval <= c.resend

\* The peer is given up only when it has been silent for the whole of --ping-restart,
\* and the tunnel closed for inactivity only when nothing was written to tun for the
\* whole of --inactive (check_ping_restart, check_inactivity_timeout).  What is sent to
\* the link counts only if nothing was received since it was read from tun, since
\* process_outgoing_link looks at the length of the buffer both use.
GivesUpWhenSilent ==
    /\ c.sig = "ping-restart" => now - hist.heard >= cfg.rec
    /\ c.sig = "inactive" => now - hist.active >= cfg.inactive
=============================================================================
