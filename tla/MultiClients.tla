---------------------------- MODULE MultiClients ----------------------------
(***************************************************************************)
(* The event loop of a server and its table of clients (multi.c, multi_io, *)
(* mudp.c, mtcp.c, mbuf.c).  Clients come over UDP and TCP, change their   *)
(* address, replace one another, are killed and lose their connection,     *)
(* while the loop holds pointers to them: the instance with pending        *)
(* output, the next to wake up, the queue of packets for other clients and *)
(* the batch of events event_wait returned.                                *)
(*                                                                         *)
(* One record M stands for the struct multi_context and its instances.     *)
(* M.failed collects the assertions that failed and the pointers that were *)
(* used after their instance was closed; the program ends there.           *)
(***************************************************************************)
EXTENDS Naturals, Sequences, FiniteSets, FiniteSetsExt, SequencesExt

CONSTANTS
    Slots,         \* memory for client instances
    None,          \* the null pointer
    Addrs,         \* transport addresses of clients
    Certs,         \* certificates of clients, each with its own common name
    MaxClients,    \* m->max_clients
    Capacity,      \* capacity of m->mbuf (--bcast-buffers)
    QueueLimit,    \* m->tcp_queue_limit
    MaxBatch,      \* bound: events returned by one event_wait
    Configs        \* [udp, tcp, dup, async, addrs]: what the server is
                   \* configured for and where its clients come from

VARIABLES
    cfg,
    m,             \* the struct multi_context
    io             \* locals of multi_io_action, None when it is not running

vars == <<cfg, m, io>>

PeerIds == 0..(MaxClients - 1)
Reals == {"udp", "tcp"} \X Addrs
Shutdown == "shutdown"     \* the entry &m->deferred_shutdown_signal

Closed == [open |-> FALSE, real |-> None, peer_id |-> None, did_real_hash |-> FALSE,
           cn |-> None, up |-> FALSE, sig |-> FALSE, out |-> {}, deferred |-> 0]

NewContext ==
    [inst |-> [s \in Slots |-> Closed], hash |-> [r \in Reals |-> None],
     instances |-> [p \in PeerIds |-> None], max_peerid |-> 0, cid_hash |-> {},
     pending |-> None, earliest_wakeup |-> None, schedule |-> {}, mbuf |-> <<>>,
     hmac_reply |-> FALSE, shutdown |-> FALSE, sig |-> FALSE,
     phase |-> "wait", esr |-> {}, lost |-> FALSE, failed |-> {}]

Opened(M) == {s \in Slots : M.inst[s].open}
tcp(M, s) == M.inst[s].real[1] = "tcp"

Check(M, ok, what) == IF ok THEN M ELSE [M EXCEPT !.failed = @ \cup {what}]

-----------------------------------------------------------------------------
(* The queue of packets on their way to another client (mbuf.c).  An item  *)
(* is the instance it is for, None once that instance was closed.          *)

NonNull(q) == {n \in DOMAIN q : q[n] # None}

mbuf_peek(q) == IF NonNull(q) = {} THEN None ELSE q[Min(NonNull(q))]

\* What mbuf_extract_item leaves: it skips the items that were dereferenced.
Extracted(q) == IF NonNull(q) = {} THEN <<>> ELSE SubSeq(q, Min(NonNull(q)) + 1, Len(q))

\* Mutant: nothing is dropped when the queue is full.
mbuf_add_item_Grows(M, s) == [M EXCEPT !.mbuf = Append(@, s)]

mbuf_add_item(M, s) ==
    IF Len(M.mbuf) < Capacity THEN [M EXCEPT !.mbuf = Append(@, s)]
    ELSE [Check(M, NonNull(M.mbuf) # {}, "mbuf_extract_item")
            EXCEPT !.mbuf = Append(Extracted(@), s)]

mbuf_dereference_instance(M, s) ==
    [M EXCEPT !.mbuf = [n \in DOMAIN @ |-> IF @[n] = s THEN None ELSE @[n]]]

multi_output_queue_ready(M, s) == M.inst[s].deferred <= QueueLimit

multi_add_mbuf(M, s) == IF multi_output_queue_ready(M, s) THEN mbuf_add_item(M, s) ELSE M

InstanceAt(M, p) == IF p <= M.max_peerid THEN M.instances[p] ELSE None

\* The instances the loops over m->instances visit, in their order.
Visited(M) == SelectSeq([n \in 1..MaxClients |-> InstanceAt(M, n - 1)], LAMBDA s : s # None)

multi_bcast(M, sender) ==
    FoldLeft(LAMBDA N, s : IF s = sender THEN N ELSE multi_add_mbuf(N, s), M, Visited(M))

-----------------------------------------------------------------------------
(* Closing and creating instances *)

Lowered(instances, top) == Max({0} \cup {p \in 0..top : instances[p] # None})

ReleasePeerId(M, p) ==
    IF p = None THEN M
    ELSE [M EXCEPT !.instances[p] = None,
                   !.max_peerid = Lowered([M.instances EXCEPT ![p] = None], @)]

Unhash(M, s) ==
    IF M.inst[s].did_real_hash
    THEN [Check(M, M.hash[M.inst[s].real] # None, "hash_remove")
            EXCEPT !.hash[M.inst[s].real] = None]
    ELSE M

\* Mutant: the rest of the batch is kept.
DereferenceEvents_Not(M, s) == M

\* multi_tcp_dereference_instance: the rest of the batch may hold its events.
DereferenceEvents(M, s) == IF tcp(M, s) THEN [M EXCEPT !.esr = {}] ELSE M

ForgetPointers(M, s) ==
    [M EXCEPT !.pending = IF @ = s THEN None ELSE @,
              !.earliest_wakeup = IF @ = s THEN None ELSE @,
              !.cid_hash = @ \ {s},
              !.schedule = @ \ {s}]

multi_close_instance(M, s) ==
    LET N == ForgetPointers(Check(M, M.inst[s].open, "halt"), s)
    IN  [mbuf_dereference_instance(
            DereferenceEvents(ReleasePeerId(Unhash(N, s), M.inst[s].peer_id), s), s)
            EXCEPT !.inst[s] = Closed]

\* The loops that close every instance of S they come by.
CloseAll(M, S) ==
    FoldLeft(multi_close_instance, M, SelectSeq(Visited(M), LAMBDA s : s \in S))

\* multi_delete_dup: the others with the common name c.
multi_delete_dup(M, s, c) ==
    IF cfg.dup THEN M ELSE CloseAll(M, {t \in Slots \ {s} : M.inst[t].cn = c})

multi_assign_peer_id(M, s) ==
    LET free == {p \in PeerIds : M.instances[p] = None}
        p == Min(free)
    IN  IF free = {} THEN Check(M, FALSE, "peer_id")
        ELSE [M EXCEPT !.instances[p] = s, !.inst[s].peer_id = p,
                       !.max_peerid = IF p > @ THEN p ELSE @]

-----------------------------------------------------------------------------
(* multi_process_post, as the set of its outcomes: the client's own work   *)
(* (timers and TLS, in pre_select) may produce output, end in a signal,    *)
(* learn the common name or bring the connection up.                       *)

Verified(M, s) ==
    {[M EXCEPT !.inst[s].cn = c] : c \in IF M.inst[s].cn = None THEN Certs ELSE {}}

\* multi_connection_established; its first handler drops the duplicates.
Established(M, s) ==
    {multi_delete_dup([M EXCEPT !.inst[s].cn = c, !.inst[s].up = TRUE], s, c) :
        c \in IF M.inst[s].up THEN {}
              ELSE IF M.inst[s].cn = None THEN Certs ELSE {M.inst[s].cn}}

pre_select(M, s) ==
    {M, [M EXCEPT !.inst[s].out = @ \cup {"link"}], [M EXCEPT !.inst[s].sig = TRUE]}

multi_set_pending(M, s) == [M EXCEPT !.pending = s]

\* Mutant: the output is not announced.
Scheduled_NotPending(M, s) ==
    IF M.inst[s].sig THEN M
    ELSE multi_set_pending([M EXCEPT !.schedule = @ \cup {s}], None)

Scheduled(M, s) ==
    IF M.inst[s].sig THEN M
    ELSE multi_set_pending([M EXCEPT !.schedule = @ \cup {s}],
                           IF M.inst[s].out # {} THEN s ELSE None)

\* Nothing but its timers moves an instance that has a signal already.
Worked(M, s) ==
    IF M.inst[s].sig THEN {M}
    ELSE pre_select(M, s) \cup Verified(M, s) \cup Established(M, s)

CloseOnSignal(M, s) == IF M.inst[s].sig THEN multi_close_instance(M, s) ELSE M

multi_process_post(M, s, close) ==
    LET done == {Scheduled(N, s) : N \in Worked(M, s)}
    IN  IF close THEN {CloseOnSignal(N, s) : N \in done} ELSE done

-----------------------------------------------------------------------------
(* New clients *)

Full(M) == Cardinality({r \in Reals : M.hash[r] # None}) >= MaxClients

NewInstance(M, s, r) ==
    {Scheduled(N, s) :
        N \in pre_select([M EXCEPT !.inst[s] = [Closed EXCEPT !.open = TRUE, !.real = r],
                                   !.cid_hash = @ \cup {s}], s)}

Hashed(M, s) == [M EXCEPT !.hash[M.inst[s].real] = s, !.inst[s].did_real_hash = TRUE]

FreeSlots(M) == Slots \ Opened(M)

\* An instance beyond max_clients is closed at once, which for TCP also ends
\* the batch.  A new client at the address of an old one takes its place.
Replaced(M, old) ==
    IF old = None THEN M
    ELSE multi_close_instance([M EXCEPT !.inst[old].did_real_hash = FALSE], old)

AcceptTcp(M, s, r) ==
    {Hashed(Replaced(multi_assign_peer_id(N, s), N.hash[r]), s) : N \in NewInstance(M, s, r)}

multi_create_instance_tcp(M, r) ==
    IF Full(M) THEN {<<[M EXCEPT !.esr = {}], None>>}
    ELSE UNION {AcceptTcp(M, s, r) \X {s} : s \in FreeSlots(M)}

\* do_pre_decrypt_check: the packet is refused, answered without keeping
\* state, or ends the three-way handshake.
CreateUdp(M, s, r) == {multi_assign_peer_id(Hashed(N, s), s) : N \in NewInstance(M, s, r)}

UnknownUdp(M, r) ==
    {<<M, None>>}
    \cup (IF M.shutdown THEN {} ELSE {<<[M EXCEPT !.hmac_reply = TRUE], None>>})
    \cup (IF M.shutdown \/ Full(M) THEN {}
          ELSE UNION {CreateUdp(M, s, r) \X {s} : s \in FreeSlots(M)})

-----------------------------------------------------------------------------
(* Packets from clients and from the tun device *)

\* Mutant: the old address stays in the table.
Refloated_KeepsOld(M, s, r) == [M EXCEPT !.hash[r] = s, !.inst[s].real = r]

Refloated(M, s, r) ==
    [Check(M, M.hash[M.inst[s].real] # None, "hash_remove")
        EXCEPT !.hash = [@ EXCEPT ![M.inst[s].real] = None, ![r] = s],
               !.inst[s].real = r]

locked(M, s) == IF M.inst[s].up THEN M.inst[s].cn ELSE None

\* A data packet that decrypts but comes from another address than s has:
\* the context, the instance, and whether the packet goes on.
multi_process_float(M, s, r) ==
    LET ex == M.hash[r]
    IN  IF ex = None THEN <<Refloated(M, s, r), s, TRUE>>
        ELSE IF locked(M, s) # locked(M, ex) THEN <<M, s, FALSE>>
        ELSE IF s = ex THEN <<M, s, TRUE>>
        ELSE <<Refloated(multi_close_instance(M, ex), s, r), s, TRUE>>

\* What a packet of s does: go to the tun device, to another client or to all
\* of them, or nothing.
Forwarded(M, s) ==
    {M} \cup (IF ~M.inst[s].up THEN {}
              ELSE {[M EXCEPT !.inst[s].out = @ \cup {"tun"}], multi_bcast(M, s)}
                   \cup {multi_add_mbuf(M, t) : t \in {t \in Opened(M) : M.inst[t].up}})

\* multi_process_incoming_link once the instance is known.
FromClient(M, s, ok, close) ==
    UNION {multi_process_post(N, s, close) :
            N \in IF ok THEN Forwarded(multi_set_pending(M, s), s) ELSE {multi_set_pending(M, s)}}

\* With output pending the packet is dropped after it was read.
Dropped(M) == [M EXCEPT !.lost = TRUE]

multi_process_incoming_tun(M, mi) ==
    {<<M, mi>>, <<multi_bcast(M, None), mi>>}
    \cup UNION {multi_process_post(
                    [multi_set_pending(M, t) EXCEPT !.inst[t].out =
                        IF multi_output_queue_ready(M, t) THEN @ \cup {"link"} ELSE @],
                    t, FALSE) \X {t} : t \in {t \in Opened(M) : M.inst[t].up}}

Lookup(M, r) ==
    IF M.hash[r] = None THEN {<<x[1], x[2], FALSE>> : x \in UnknownUdp(M, r)}
                        ELSE {<<M, M.hash[r], TRUE>>}

\* A P_DATA_V2 packet names its instance by peer-id.
ByPeerId(M, p, r) ==
    LET s == M.instances[p]
    IN  IF s = None \/ tcp(M, s) THEN {<<M, None, FALSE>>}
        ELSE IF M.inst[s].real = r THEN {<<M, s, TRUE>>}
        ELSE {<<M, s, FALSE>>} \cup (IF M.inst[s].up THEN {multi_process_float(M, s, r)} ELSE {})

ReadUdp(M) ==
    IF M.pending # None THEN {Dropped(M)}
    ELSE UNION {IF x[2] = None THEN {x[1]} ELSE FromClient(x[1], x[2], x[3], TRUE) :
                x \in UNION {Lookup(M, <<"udp", a>>)
                             \cup UNION {ByPeerId(M, p, <<"udp", a>>) : p \in PeerIds}
                             : a \in cfg.addrs}}

-----------------------------------------------------------------------------
(* Output *)

Sent(M, s) == [M EXCEPT !.inst[s].out = @ \ {"link"}]

\* multi_process_outgoing_link_pre: the pending instance, else the next item
\* of the queue, which is encrypted (or dropped, for want of a key).
OutgoingPre(M) ==
    IF M.pending # None THEN {<<M, M.pending>>}
    ELSE LET s == mbuf_peek(M.mbuf)
             N == [M EXCEPT !.mbuf = Extracted(@)]
         IN  IF s = None THEN {<<N, None>>}
             ELSE {<<N, s>>, <<[N EXCEPT !.inst[s].out = @ \cup {"link"}], s>>}

multi_process_outgoing_link_dowork(M, s, close) == multi_process_post(Sent(M, s), s, close)

Deferred(M, s) ==
    [Sent(M, s) EXCEPT !.inst[s].deferred = IF @ < Capacity THEN @ + 1 ELSE @]

TcpOut(M, s, mi, defer) ==
    IF (defer /\ tcp(M, s)) \/ M.inst[s].deferred > 0
    THEN IF "link" \in M.inst[s].out
         THEN multi_process_post(Deferred(M, s), s, FALSE) \X {s}
         ELSE {<<M, mi>>}
    ELSE multi_process_outgoing_link_dowork(M, s, FALSE) \X {s}

multi_tcp_process_outgoing_link(M, mi, defer) ==
    UNION {IF x[2] = None THEN {<<x[1], mi>>} ELSE TcpOut(x[1], x[2], mi, defer) :
            x \in OutgoingPre(M)}

multi_tcp_process_outgoing_link_ready(M, mi) ==
    IF M.inst[mi].deferred = 0 THEN {<<M, mi>>}
    ELSE multi_process_outgoing_link_dowork([M EXCEPT !.inst[mi].deferred = @ - 1], mi, FALSE)
            \X {mi}

WriteUdp(M) ==
    {[N EXCEPT !.hmac_reply = FALSE] :
        N \in UNION {IF x[2] = None THEN {x[1]}
                     ELSE multi_process_outgoing_link_dowork(x[1], x[2], TRUE) :
                     x \in OutgoingPre(M)}}
-----------------------------------------------------------------------------
(* One round of multi_io_action: dispatch, close an instance that got a    *)
(* signal, follow pending output, and choose the next action.              *)

\* The contexts multi_io_dispatch can end in, each with the touched instance.
Timeout(M) ==
    LET s == M.earliest_wakeup
        N == [M EXCEPT !.earliest_wakeup = None]
    IN  IF s = None THEN {<<M, None>>}
        ELSE IF s = Shutdown
        THEN {<<[N EXCEPT !.schedule = @ \ {Shutdown}, !.sig = TRUE], None>>}
        ELSE {<<[O EXCEPT !.earliest_wakeup = None], s>> : O \in multi_process_post(M, s, FALSE)}

ReadTcp(M, mi) ==
    {<<[M EXCEPT !.inst[mi].sig = TRUE], mi>>}
    \cup (IF M.pending # None THEN {<<Dropped(M), mi>>}
          ELSE FromClient(M, mi, TRUE, FALSE) \X {mi})

\* A tun device that does not take the packet in time has it dropped, with
\* the same effect on the instance.
WriteTun(M, mi) ==
    IF M.pending = None THEN {<<Check(M, FALSE, "pending"), mi>>}
    ELSE multi_process_post([M EXCEPT !.inst[M.pending].out = @ \ {"tun"}], M.pending, FALSE)
            \X {M.pending}

multi_io_dispatch(M, mi, action) ==
    CASE action = "TUN_READ" -> IF M.pending # None THEN {<<Dropped(M), mi>>}
                                ELSE multi_process_incoming_tun(M, mi)
      [] action = "SOCKET_READ" -> ReadTcp(M, mi)
      [] action = "TIMEOUT" -> Timeout(M)
      [] action = "TUN_WRITE" -> WriteTun(M, mi)
      [] action = "SOCKET_WRITE_READY" -> multi_tcp_process_outgoing_link_ready(M, mi)
      [] action = "SOCKET_WRITE" -> UNION {multi_tcp_process_outgoing_link(M, mi, d) : d \in BOOLEAN}
      [] action = "INITIAL" -> multi_process_post(M, mi, FALSE) \X {mi}

Loop(mi, action, tun) == [mi |-> mi, action |-> action, tun |-> tun]

\* multi_io_post; "TUN_READ" follows when the tun device was seen ready.
multi_io_post(M, mi, tun) ==
    LET out == IF mi = None THEN {} ELSE M.inst[mi].out
        end == IF tun THEN Loop(None, "TUN_READ", FALSE) ELSE None
    IN  IF "tun" \in out THEN {Loop(mi, "TUN_WRITE", tun)}
        ELSE IF "link" \in out THEN {Loop(mi, "SOCKET_WRITE", t) : t \in {tun, TRUE}}
        ELSE {end} \cup (IF mi # None /\ tcp(M, mi) THEN {Loop(mi, "SOCKET_READ", tun)} ELSE {})

\* The instance the next round is about.
NextMi(M, mi, touched) ==
    IF M.pending # None THEN M.pending
    ELSE IF mi = touched /\ mi # None /\ ~M.inst[mi].open THEN None
    ELSE mi

Settled(M, touched) ==
    IF touched = None THEN M
    ELSE CloseOnSignal(Check(M, M.inst[touched].open, "touched"), touched)

Round(M, mi, action, tun) ==
    UNION {LET N == Settled(x[1], x[2])
               i == NextMi(N, mi, x[2])
           IN  IF i # None /\ ~N.inst[i].open
               THEN {<<Check(N, FALSE, "mi"), None>>}
               ELSE {N} \X multi_io_post(N, i, tun) : x \in multi_io_dispatch(M, mi, action)}

-----------------------------------------------------------------------------
Init ==
    /\ cfg \in Configs
    /\ m = NewContext
    /\ io = None

Running == m.failed = {} /\ ~m.sig

\* p2mp_iow_flags: what the UDP socket and the tun device are watched for.
p2mp_iow_flags ==
    IF m.pending # None
    THEN {IF o = "tun" THEN "tun_write" ELSE "udp_write" : o \in m.inst[m.pending].out}
    ELSE IF m.mbuf # <<>> \/ m.hmac_reply THEN {"udp_write"}
    ELSE {"udp_read", "tun_read"}

Events ==
    (IF cfg.udp THEN p2mp_iow_flags ELSE {"tun_read"})
    \cup (IF cfg.tcp THEN {"accept"} \cup {s \in Opened(m) : tcp(m, s)} ELSE {})
    \cup (IF cfg.async THEN {"inotify"} ELSE {})
    \cup {"management"}

multi_get_timeout_instance == m.schedule \cup {None}

\* The wait returns a batch of events, or times out.
multi_io_wait ==
    /\ Running /\ m.phase = "wait" /\ io = None
    /\ \E w \in multi_get_timeout_instance :
        \/ /\ \E es \in SUBSET Events :
                /\ Cardinality(es) \in 1..MaxBatch
                /\ m' = [m EXCEPT !.earliest_wakeup = w, !.esr = es, !.phase = "events"]
           /\ UNCHANGED io
        \/ /\ m' = [m EXCEPT !.earliest_wakeup = w]
           /\ io' = Loop(None, "TIMEOUT", FALSE)
    /\ UNCHANGED cfg

\* One event of the batch; M is the context without it.
Taken(e) == [m EXCEPT !.esr = @ \ {e}]

Start(M, mi, action) ==
    /\ m' = M
    /\ io' = IF mi = None THEN None ELSE Loop(mi, action, FALSE)

InstanceEvent(s) ==
    /\ s \in m.esr
    /\ IF m.inst[s].open
       THEN Start(Taken(s), s, IF m.inst[s].deferred > 0 THEN "SOCKET_WRITE_READY" ELSE "SOCKET_READ")
       ELSE Start(Check(Taken(s), FALSE, "esr"), None, "SOCKET_READ")

Accept ==
    /\ "accept" \in m.esr
    /\ \E a \in cfg.addrs : \E x \in multi_create_instance_tcp(Taken("accept"), <<"tcp", a>>) :
            Start(x[1], x[2], "INITIAL")

multi_process_io_udp ==
    \/ /\ "udp_write" \in m.esr
       /\ \E M \in WriteUdp(Taken("udp_write")) : Start(M, M.pending, "INITIAL")
    \/ /\ "udp_read" \in m.esr
       /\ \E M \in ReadUdp(Taken("udp_read")) : Start(M, M.pending, "INITIAL")

TunEvent ==
    \/ "tun_read" \in m.esr /\ m' = Taken("tun_read") /\ io' = Loop(None, "TUN_READ", FALSE)
    \/ "tun_write" \in m.esr /\ m' = Taken("tun_write") /\ io' = Loop(None, "TUN_WRITE", FALSE)

\* kill by common name or by address.
ManagementKill ==
    /\ "management" \in m.esr
    /\ LET M == Taken("management")
       IN  \/ \E c \in Certs : m' = CloseAll(M, {s \in Slots : M.inst[s].cn = c})
           \/ \E r \in Reals : m' = CloseAll(M, {s \in Slots : M.inst[s].real = r})
    /\ UNCHANGED io

\* A verdict file of a deferred client was written (ENABLE_ASYNC_PUSH).
multi_process_file_closed ==
    /\ "inotify" \in m.esr
    /\ \/ m' = Taken("inotify")
       \/ \E s \in Opened(m) : ~m.inst[s].up /\ m' \in multi_process_post(Taken("inotify"), s, FALSE)
    /\ UNCHANGED io

multi_io_process_io ==
    /\ Running /\ m.phase = "events" /\ io = None
    /\ \/ \E s \in Slots : InstanceEvent(s)
       \/ Accept \/ multi_process_io_udp \/ TunEvent \/ ManagementKill
       \/ multi_process_file_closed
    /\ UNCHANGED cfg

\* After the batch, or when nothing of it is left: the queued packets.
ProcessMbuf ==
    /\ Running /\ m.phase = "events" /\ io = None /\ m.esr = {}
    /\ IF mbuf_peek(m.mbuf) # None
       THEN m' = m /\ io' \in {Loop(mbuf_peek(m.mbuf), "SOCKET_WRITE", t) : t \in BOOLEAN}
       ELSE m' = [m EXCEPT !.phase = "wait"] /\ UNCHANGED io
    /\ UNCHANGED cfg

multi_io_action ==
    /\ m.failed = {} /\ io # None
    /\ \E x \in Round(m, io.mi, io.action, io.tun) : m' = x[1] /\ io' = x[2]
    /\ UNCHANGED cfg

\* multi_push_restart_schedule_exit: with --explicit-exit-notify a UDP server
\* tells its clients and goes on for a while.
multi_process_signal ==
    /\ Running /\ m.phase = "wait" /\ io = None
    /\ m' = IF cfg.udp /\ ~m.shutdown
            THEN [m EXCEPT !.shutdown = TRUE,
                           !.schedule = @ \cup {Shutdown}
                                          \cup {s \in Range(Visited(m)) : ~tcp(m, s)}]
            ELSE [m EXCEPT !.sig = TRUE]
    /\ UNCHANGED <<cfg, io>>

\* The loop has ended: every instance is closed, and the server starts again.
Uninit(M) == [s \in Slots |-> IF s \in Range(Visited(M)) THEN Closed ELSE M.inst[s]]

multi_uninit ==
    /\ m.sig /\ m.failed = {} /\ io = None
    /\ m' = [NewContext EXCEPT !.inst = Uninit(m)]
    /\ UNCHANGED <<cfg, io>>

Next ==
    \/ multi_io_wait \/ multi_io_process_io \/ ProcessMbuf \/ multi_io_action
    \/ multi_process_signal \/ multi_uninit

Spec == Init /\ [][Next]_vars

-----------------------------------------------------------------------------
Ptr == Slots \cup {None}

TypeOK ==
    /\ cfg \in Configs
    /\ m.inst \in [Slots -> [open : BOOLEAN, real : Reals \cup {None}, peer_id : PeerIds \cup {None},
                             did_real_hash : BOOLEAN, cn : Certs \cup {None}, up : BOOLEAN,
                             sig : BOOLEAN, out : SUBSET {"tun", "link"}, deferred : 0..Capacity]]
    /\ m.hash \in [Reals -> Ptr] /\ m.instances \in [PeerIds -> Ptr] /\ m.max_peerid \in PeerIds
    /\ m.cid_hash \subseteq Slots /\ m.pending \in Ptr
    /\ m.earliest_wakeup \in Ptr \cup {Shutdown} /\ m.schedule \subseteq Slots \cup {Shutdown}
    /\ Len(m.mbuf) <= Capacity /\ Range(m.mbuf) \subseteq Ptr

\* The tables by address, by peer-id and by client id hold exactly the open
\* instances, each at its present address, and the loops over the peer-ids
\* come by all of them: after a replaced, floated or killed client, after one
\* too many, and after the server has closed everything.
TablesAgree ==
    LET open == Opened(m)
    IN  /\ \A s \in open : m.hash[m.inst[s].real] = s /\ m.instances[m.inst[s].peer_id] = s
        /\ \A r \in Reals : m.hash[r] # None => m.hash[r] \in open /\ m.inst[m.hash[r]].real = r
        /\ m.cid_hash = open
        /\ Range(Visited(m)) = open

\* Nothing the event loop keeps points to a closed instance: not the pending
\* output, the next wakeup, the schedule, the queue of packets, the rest of
\* the batch of events or the local variable of multi_io_action.
NoDanglingPointers ==
    LET kept == {m.pending, m.earliest_wakeup} \cup m.schedule \cup Range(m.mbuf)
                \cup m.esr \cup (IF io = None THEN {} ELSE {io.mi})
    IN  ~cfg.async => kept \cap Slots \subseteq Opened(m)

\* No assertion of the event loop fails and it touches no closed instance,
\* but for the one in mbuf_add_item (see MbufHasRoom).
AssertsHold == ~cfg.async => m.failed \subseteq {"mbuf_extract_item"}

\* Without --duplicate-cn two clients of the same name are never both up.
OneClientPerName ==
    ~cfg.dup => \A s, t \in Opened(m) :
                    s # t /\ m.inst[s].up /\ m.inst[t].up => m.inst[s].cn # m.inst[t].cn

\* When the loop goes to sleep it has sent what its clients had to send, and
\* no packet was dropped because of somebody else's output.  (The answer to
\* an inotify event, a build option, is left pending.)
NothingLeftBehind ==
    ~cfg.async =>
        /\ ~m.lost
        /\ m.phase = "wait" /\ io = None => \A s \in Opened(m) : m.inst[s].out = {}

\* mbuf.c, mbuf_add_item: "ASSERT(mbuf_extract_item(ms, &rm))" when the queue
\* is full.
MbufHasRoom == "mbuf_extract_item" \notin m.failed
=============================================================================
